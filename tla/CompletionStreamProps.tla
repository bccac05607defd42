----------------------- MODULE CompletionStreamProps -----------------------
(***************************************************************************)
(* What is checked of CompletionStream.                                    *)
(***************************************************************************)
EXTENDS CompletionStream

TypeOK ==
  /\ stops \in StopLists
  /\ tokens \in Seq(Vocab)
  /\ fix \in 0 .. 2
  /\ returned \in 0 .. Len(tokens)
  /\ phase \in {"token", "emit", "limit", "flush", "done"}
  /\ finish \in {"length", "stop"}
  /\ Decodable(sent) /\ Decodable(text)
  /\ end \in 0 .. Len(AllText)
  /\ phase \in {"emit", "limit"} => fix = 0

------------------------------------------------------------------------------

\* Where the stop sequences of a text begin, and where the earliest does, or its end.
Found(ss, bytes)  == UNION {Occurrences(ss[i], bytes) : i \in DOMAIN ss}
StopAt(ss, bytes) == Min({Len(bytes)} \cup Found(ss, bytes))

FirstStopAt == StopAt(stops, AllText)

\* No chunk has "characters from the generated text if they are part of a stop
\* sequence": whatever the tokens to come, it turns out that the chunks ended before
\* the stop sequence began.
StopsAreHeldBack ==
  /\ Len(sent) <= FirstStopAt
  /\ phase \in {"token", "emit", "limit"} => sent = Cut(AllText, Before)

\* No token splits a character.
WholeTokens == \A i \in DOMAIN tokens : Decodable(tokens[i])

\* All chunks together are the text before the earliest stop sequence: none of it is
\* lost, repeated or sent after it.  (A character split over tokens that are still
\* held at the end is lost: those are decoded one by one.)
StreamIsWhole ==
  phase = "done" /\ WholeTokens => sent = Cut(AllText, FirstStopAt)

\* With and without stream the answer is the same, with at most one stop sequence: of
\* several, the call without stream cuts at the first of the list, not of the text.
StreamIsAnswer ==
  phase = "done" /\ WholeTokens /\ Len(stops) <= 1 => sent = text

\* Nothing is kept back without need: when the next token is asked for, either the
\* tokens not sent do not start with whole characters, or the text may go on so that a
\* stop sequence begins in those characters.
NothingHeldNeedlessly ==
  phase = "limit" /\ Groups # {} =>
    \E i \in DOMAIN stops : \E k \in 0 .. Len(stops[i]) :
      StopAt(stops, AllText \o SubSeq(stops[i], k + 1, Len(stops[i]))) < Before + Len(Group)

\* "max_tokens: The maximum number of tokens to generate."
MaxTokensGenerated == Len(tokens) <= MaxTokens
=============================================================================
