-------------------------- MODULE CompletionStream --------------------------
(***************************************************************************)
(* The loop of Llama._create_completion in llama_cpp/llama.py that turns   *)
(* the tokens of generate() into text: characters split over tokens, stop  *)
(* sequences, max_tokens, and the chunks of a stream.  It computes the     *)
(* text of the call without stream along with the chunks of the one with.  *)
(* Bytes stand for their kind: "L", "T" and "F" lead a character of two,   *)
(* three and four bytes, "C" continues one, all others are a character.    *)
(* Requests without logprobs and without suffix.                           *)
(***************************************************************************)
EXTENDS Integers, Sequences, SequencesExt, FiniteSetsExt

CONSTANTS
  Vocab,      \* the bytes of each token
  StopLists,  \* what stop may be, in order
  MaxTokens,  \* max_tokens
  MaxLen      \* most tokens the model generates

ASSUME StreamAssumption ==
  /\ Vocab \subseteq Seq(STRING) /\ StopLists \subseteq Seq(Seq(STRING))
  /\ << >> \notin Vocab
  /\ \A stops \in StopLists : \A i \in DOMAIN stops : stops[i] # << >>
  /\ MaxTokens \in Nat \ {0} /\ MaxLen \in Nat

VARIABLES
  stops,     \* stop_sequences
  tokens,    \* completion_tokens
  fix,       \* multibyte_fix
  returned,  \* returned_tokens
  sent,      \* the text of all chunks
  phase,     \* "token", "emit", "limit", "flush", "done"
  end,       \* where the flush ends
  finish,    \* finish_reason
  text       \* the text without stream

vars == <<stops, tokens, fix, returned, sent, phase, end, finish, text>>

------------------------------------------------------------------------------
(* Bytes *)

\* detokenize: the tokens one after the other.
Bytes(toks) == FlattenSeq(toks)

AllText   == Bytes(tokens)
Remaining == SubSeq(tokens, returned + 1, Len(tokens))
Before    == Len(Bytes(SubSeq(tokens, 1, returned)))

Cut(bytes, n) == SubSeq(bytes, 1, n)

\* Where s occurs in t, as str.index counts: the bytes in front of it.
Occurrences(s, t) == {i \in 0 .. Len(t) - Len(s) : SubSeq(t, i + 1, i + Len(s)) = s}

Width(byte) == CASE byte = "L" -> 2 [] byte = "T" -> 3 [] byte = "F" -> 4 [] OTHER -> 1

\* Whether a character starts at i.
Starts(bytes, i) ==
  /\ bytes[i] # "C"
  /\ i + Width(bytes[i]) - 1 <= Len(bytes)
  /\ \A j \in i + 1 .. i + Width(bytes[i]) - 1 : bytes[j] = "C"

InCharacter(bytes, i) ==
  \E j \in 1 .. i : Starts(bytes, j) /\ i < j + Width(bytes[j])

\* decode("utf-8") succeeds, and decode("utf-8", errors="ignore").
Decodable(bytes) == \A i \in DOMAIN bytes : InCharacter(bytes, i)

\* A stop sequence is the encoding of a str.
ASSUME StopsAreText == \A list \in StopLists : \A i \in DOMAIN list : Decodable(list[i])

Decoded(bytes) ==
  LET kept == {i \in DOMAIN bytes : InCharacter(bytes, i)}
  IN [k \in 1 .. Cardinality(kept) |->
       bytes[CHOOSE i \in kept : Cardinality({j \in kept : j <= i}) = k]]

------------------------------------------------------------------------------

Init ==
  /\ stops \in StopLists
  /\ tokens = << >> /\ fix = 0 /\ returned = 0 /\ sent = << >>
  /\ phase = "token" /\ end = 0 /\ finish = "length" /\ text = << >>

\* The loop ends with this text; a stream then flushes what it holds, up to the
\* first stop sequence in it.
Break(reason, toks, bytes) ==
  LET held  == Bytes(SubSeq(toks, returned + 1, Len(toks)))
      found == UNION {Occurrences(stops[i], held) : i \in DOMAIN stops}
  IN /\ finish' = reason /\ text' = Decoded(bytes)
     /\ end' = Before + (IF found = {} THEN Len(held) ELSE Min(found))
     /\ phase' = "flush"

\* A token that ends the generation.
EndOfGeneration_NoText ==
  /\ phase = "token"
  /\ Break("stop", tokens, << >>)
  /\ UNCHANGED <<stops, tokens, fix, returned, sent>>

EndOfGeneration ==
  /\ phase = "token"
  /\ Break("stop", tokens, AllText)
  /\ UNCHANGED <<stops, tokens, fix, returned, sent>>

\* The last three bytes: how many are missing to a character.  The last one found
\* counts; in a text of less than three bytes they are numbered from the third on.
Missing(bytes, old) ==
  LET tail     == SubSeq(bytes, Max({1, Len(bytes) - 2}), Len(bytes))
      k(i)     == 4 - i
      short(i) == Width(tail[i]) - k(i)
      open     == {i \in DOMAIN tail : short(i) > 0}
  IN IF open = {} THEN old ELSE short(Max(open))

FirstStop(bytes) == {i \in DOMAIN stops : Occurrences(stops[i], bytes) # {}}

\* Any other token: while bytes are missing neither stop sequences nor max_tokens are
\* looked at.
Token ==
  /\ phase = "token" /\ Len(tokens) < MaxLen
  /\ \E token \in Vocab :
       LET toks    == Append(tokens, token)
           bytes   == Bytes(toks)
           missing == Missing(bytes, fix)
           any     == FirstStop(bytes)
       IN /\ tokens' = toks
          /\ fix' = IF missing > 0 THEN missing - 1 ELSE 0
          /\ \/ missing > 0 /\ UNCHANGED <<phase, end, finish, text>>
             \/ /\ missing = 0 /\ any # {}
                /\ Break("stop", toks, Cut(bytes, Min(Occurrences(stops[Min(any)], bytes))))
             \/ /\ missing = 0 /\ any = {}
                /\ phase' = "emit" /\ UNCHANGED <<end, finish, text>>
  /\ UNCHANGED <<stops, returned, sent>>

\* first_stop_position: how much of the remaining text may be the start of a stop
\* sequence.
Held_OneLess ==
  LET rest == Bytes(Remaining)
      starts(s) == {n \in 1 .. Len(s) : n < Len(rest) /\ IsSuffix(Cut(s, n), rest)}
  IN Max({0} \cup UNION {starts(stops[i]) : i \in DOMAIN stops})

Held ==
  LET rest == Bytes(Remaining)
      starts(s) == {n \in 1 .. Len(s) : n <= Len(rest) /\ IsSuffix(Cut(s, n), rest)}
  IN Max({0} \cup UNION {starts(stops[i]) : i \in DOMAIN stops})

\* The fewest of the remaining tokens that can be decoded.
Groups == {n \in 1 .. Len(Remaining) : Decodable(Bytes(SubSeq(Remaining, 1, n)))}
Group  == Bytes(SubSeq(Remaining, 1, Min(Groups)))

MayEmit == Groups # {} /\ Before + Len(Group) <= Len(AllText) - Held

\* yield of a chunk ...
Emit_Once ==
  /\ phase = "emit" /\ MayEmit
  /\ sent' = sent \o Group
  /\ returned' = returned + Min(Groups)
  /\ phase' = "limit"
  /\ UNCHANGED <<stops, tokens, fix, end, finish, text>>

Emit ==
  /\ phase = "emit" /\ MayEmit
  /\ sent' = sent \o Group
  /\ returned' = returned + Min(Groups)
  /\ UNCHANGED <<stops, tokens, fix, phase, end, finish, text>>

\* ... as long as there is one to yield.
Hold ==
  /\ phase = "emit" /\ ~MayEmit
  /\ phase' = "limit"
  /\ UNCHANGED <<stops, tokens, fix, returned, sent, end, finish, text>>

Limit ==
  /\ phase = "limit"
  /\ IF Len(tokens) >= MaxTokens
       THEN Break("length", tokens, AllText)
       ELSE phase' = "token" /\ UNCHANGED <<end, finish, text>>
  /\ UNCHANGED <<stops, tokens, fix, returned, sent>>

\* After the loop every remaining token is decoded by itself, up to the end.
Flush_Undecoded ==
  /\ phase = "flush" /\ Remaining # << >>
  /\ LET token == Head(Remaining)
         last  == Before + Len(token) >= end
     IN /\ sent' = sent \o (IF last THEN Cut(token, end - Before) ELSE token)
        /\ phase' = IF last THEN "done" ELSE phase
  /\ returned' = returned + 1
  /\ UNCHANGED <<stops, tokens, fix, end, finish, text>>

Flush_NoCut ==
  /\ phase = "flush" /\ Remaining # << >>
  /\ LET token == Head(Remaining)
         last  == Before + Len(token) >= end
     IN /\ sent' = sent \o Decoded(token)
        /\ phase' = IF last THEN "done" ELSE phase
  /\ returned' = returned + 1
  /\ UNCHANGED <<stops, tokens, fix, end, finish, text>>

Flush ==
  /\ phase = "flush" /\ Remaining # << >>
  /\ LET token == Head(Remaining)
         last  == Before + Len(token) >= end
     IN /\ sent' = sent \o Decoded(IF last THEN Cut(token, end - Before) ELSE token)
        /\ phase' = IF last THEN "done" ELSE phase
  /\ returned' = returned + 1
  /\ UNCHANGED <<stops, tokens, fix, end, finish, text>>

NothingRemains ==
  /\ phase = "flush" /\ Remaining = << >>
  /\ phase' = "done"
  /\ UNCHANGED <<stops, tokens, fix, returned, sent, end, finish, text>>

------------------------------------------------------------------------------

Next == EndOfGeneration \/ Token \/ Emit \/ Hold \/ Limit \/ Flush \/ NothingRemains

Spec == Init /\ [][Next]_vars
=============================================================================
