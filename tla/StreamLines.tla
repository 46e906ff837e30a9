----------------------------- MODULE StreamLines ------------------------------
(***************************************************************************)
(* ollama_stream._consume: an SSE body, read in chunks that begin and end  *)
(* anywhere, becomes lines, text for the sink and a result, within a bound *)
(* on a line and one on the text.  One step per read and per line.         *)
(*                                                                         *)
(* A symbol stands for some bytes of the body: the end of a line, the      *)
(* "data:" that a line of interest begins with, or what follows it.  Text  *)
(* is a sequence of characters, each the number of its bytes in UTF-8.     *)
(* When the connection breaks or the time is up is Transport's matter:     *)
(* here either may happen at any read.                                     *)
(***************************************************************************)
EXTENDS Naturals, SequencesExt

CONSTANTS
  NewLine, Data, Finish,  \* "\n", "data:", "[DONE]"
  Deltas,     \* the JSON objects a line may carry...
  Text,       \* ...the text of each, which may be empty...
  Reports,    \* ...and those that carry a usage object
  ReadChunk,  \* _READ_CHUNK_BYTES, in symbols
  MaxLine,    \* MAX_SSE_LINE_BYTES, in symbols
  MaxBytes    \* max_output_bytes

Symbols == {NewLine, Data, Finish} \cup Deltas

ASSUME StreamAssumption ==
  /\ {NewLine, Data, Finish} \cap Deltas = {}
  /\ Text \in [Deltas -> Seq(1..4)]
  /\ Reports \subseteq Deltas
  /\ ReadChunk \in Nat \ {0}
  /\ MaxLine \in Nat \ {0}
  /\ MaxBytes \in Nat \ {0}

VARIABLES
  at,         \* where _consume is, or how it ended
  buf,        \* the bytes read and not yet given out as a line
  content,    \* the deltas kept, joined
  shown,      \* what the sink has received
  usage,      \* the latest usage object, "none" before the first
  truncated,
  whole       \* what the same bytes mean read one symbol at a time

received == <<content, shown, usage, truncated>>
streamVars == <<at, buf, received, whole>>

Reading == {"read", "lines"}
Ended == {"returned", "too_long", "timeout", "broken", "sink_failed"}

Bytes(text) == FoldLeft(LAMBDA n, char : n + char, 0, text)

-----------------------------------------------------------------------------
(* The reference: no chunks and no buffer, only the line being received    *)
(* and the text of all lines so far.                                       *)

Payload(line) ==
  IF Len(line) = 2 /\ line[1] = Data THEN line[2] ELSE NewLine

Fits(text) ==
  LET kept == CHOOSE n \in 0..Len(text) :
        /\ Bytes(SubSeq(text, 1, n)) <= MaxBytes
        /\ n < Len(text) => Bytes(SubSeq(text, 1, n + 1)) > MaxBytes
  IN SubSeq(text, 1, kept)

(* A line means something if it is a delta, and the end if it says so or   *)
(* if the text is as long as it may be.                                    *)
WholeLine(w) ==
  LET said == Payload(w.line)
      text == IF said \in Deltas THEN w.text \o Text[said] ELSE w.text
      full == text # w.text /\ Bytes(text) >= MaxBytes
  IN [w EXCEPT !.line = <<>>, !.text = text,
               !.usage = IF said \in Reports /\ ~full THEN said ELSE @,
               !.over = IF said = Finish \/ full THEN "stop" ELSE "no"]

WholeSymbol(w, s) ==
  IF w.over # "no" THEN w
  ELSE IF s = NewLine THEN WholeLine(w)
  ELSE IF Len(w.line) = MaxLine THEN [w EXCEPT !.over = "too_long"]
  ELSE [w EXCEPT !.line = Append(@, s)]

NothingYet == [line |-> <<>>, text |-> <<>>, usage |-> "none", over |-> "no"]

-----------------------------------------------------------------------------

StreamInit ==
  /\ at = "read"
  /\ buf = <<>>
  /\ content = <<>>
  /\ shown = <<>>
  /\ usage = "none"
  /\ truncated = FALSE
  /\ whole = NothingYet

(* Which bytes of a text begin a character. *)
Encoded(text) == FoldLeft(LAMBDA bytes, n : bytes \o [i \in 1..n |-> i = 1], <<>>, text)

(* The characters that begin in the first cut bytes. *)
Decoded(text, cut) ==
  SubSeq(text, 1, Cardinality({i \in 1..cut : Encoded(text)[i]}))

(* Mutant: the cut is not moved back, and half a character counts as one. *)
CutAnywhere(text, max) ==
  IF Len(Encoded(text)) <= max THEN text ELSE Decoded(text, max)

(* validate._truncate_utf8_bytes: from the byte after the budget back to   *)
(* one that begins a character.                                            *)
Truncate(text, max) ==
  IF Len(Encoded(text)) <= max THEN text
  ELSE Decoded(text, Max({c \in 0..max : c = 0 \/ Encoded(text)[c + 1]}))

(* Mutant: whatever a line says is taken for a usage object. *)
UsageOfAny(said) == said

UsageAfter(said) == IF said \in Reports THEN said ELSE usage

(* The loop's body for one line; then is where the lines are taken from.   *)
(* That no budget is left when a delta arrives cannot be: the delta that   *)
(* spends it is the last.                                                  *)
Consume(line, then) ==
  LET said == Payload(line)
      delta == IF said \in Deltas THEN Text[said] ELSE <<>>
      kept == Truncate(delta, MaxBytes - Bytes(content))
      full == kept # delta \/ Bytes(content) + Bytes(kept) >= MaxBytes
  IN \/ /\ delta = <<>>
        /\ at' = IF said = Finish THEN "returned" ELSE then
        /\ usage' = UsageAfter(said)
        /\ UNCHANGED <<content, shown, truncated>>
     \/ /\ delta # <<>>
        /\ content' = content \o kept
        /\ shown' = shown \o kept
        /\ truncated' = full
        /\ at' = IF full THEN "returned" ELSE then
        /\ usage' = IF full THEN usage ELSE UsageAfter(said)
     \/ /\ delta # <<>>  \* the sink fails
        /\ content' = content \o kept
        /\ at' = "sink_failed"
        /\ UNCHANGED <<shown, usage, truncated>>

Read ==
  /\ at = "read"
  /\ \E n \in 1..ReadChunk : \E chunk \in [1..n -> Symbols] :
       /\ buf' = buf \o chunk
       /\ whole' = FoldLeft(WholeSymbol, whole, chunk)
  /\ at' = "lines"
  /\ UNCHANGED received

FailRead ==
  /\ at = "read"
  /\ at' \in {"timeout", "broken"}
  /\ UNCHANGED <<buf, received, whole>>

(* The connection was closed: what is left of a line is a line. *)
EndOfBody ==
  /\ at = "read"
  /\ \/ buf = <<>> /\ at' = "returned" /\ UNCHANGED received
     \/ buf # <<>> /\ Consume(buf, "returned")
  /\ buf' = <<>>
  /\ whole' = [WholeLine(whole) EXCEPT !.over = "stop"]

EndOfLine == SelectInSeq(buf, LAMBDA s : s = NewLine)

(* Mutant: only what is left without an end of line is bounded. *)
AnyLine ==
  /\ at = "lines"
  /\ EndOfLine # 0
  /\ buf' = SubSeq(buf, EndOfLine + 1, Len(buf))
  /\ Consume(SubSeq(buf, 1, EndOfLine - 1), "lines")
  /\ UNCHANGED whole

NextLine ==
  /\ at = "lines"
  /\ EndOfLine # 0
  /\ EndOfLine - 1 <= MaxLine
  /\ buf' = SubSeq(buf, EndOfLine + 1, Len(buf))
  /\ Consume(SubSeq(buf, 1, EndOfLine - 1), "lines")
  /\ UNCHANGED whole

LongLine ==
  /\ at = "lines"
  /\ EndOfLine # 0
  /\ EndOfLine - 1 > MaxLine
  /\ at' = "too_long"
  /\ UNCHANGED <<buf, received, whole>>

(* Mutant: a line is bounded only once it is complete. *)
NeedMoreOfAny ==
  /\ at = "lines"
  /\ EndOfLine = 0
  /\ at' = "read"
  /\ UNCHANGED <<buf, received, whole>>

(* No line is complete: another read, unless there is too much already. *)
NeedMore ==
  /\ at = "lines"
  /\ EndOfLine = 0
  /\ at' = IF Len(buf) > MaxLine THEN "too_long" ELSE "read"
  /\ UNCHANGED <<buf, received, whole>>

StreamNext ==
  \/ Read \/ FailRead \/ EndOfBody
  \/ NextLine \/ LongLine \/ NeedMore

StreamSpec == StreamInit /\ [][StreamNext]_streamVars

-----------------------------------------------------------------------------

StreamTypeOK ==
  /\ at \in Reading \cup Ended
  /\ buf \in Seq(Symbols)
  /\ content \in Seq(1..4)
  /\ shown \in Seq(1..4)
  /\ usage \in Reports \cup {"none"}
  /\ truncated \in BOOLEAN

(* Where the reads begin and end changes nothing: a result is the text and *)
(* the usage of the body's lines, cut at the cap and at a character, cut   *)
(* only if it says so; and a line is too long by its own length alone.     *)
AsWhole ==
  /\ at = "read" =>
       /\ buf = whole.line
       /\ content = whole.text
       /\ usage = whole.usage
       /\ ~truncated
  /\ at = "returned" =>
       /\ whole.over = "stop"
       /\ content = Fits(whole.text)
       /\ usage = whole.usage
       /\ content # whole.text => truncated
  /\ at = "too_long" => whole.over = "too_long"

(* The sink has seen what the result holds, never more than the cap, and   *)
(* no delta is awaited once the cap is reached.                            *)
ShownIsKept ==
  /\ IsPrefix(shown, content)
  /\ at # "sink_failed" => shown = content
  /\ Bytes(content) <= MaxBytes
  /\ at \in Reading => Bytes(content) < MaxBytes

(* The buffer never holds more than a line and a read, however long the    *)
(* endpoint's lines are.                                                   *)
BufferBounded == Len(buf) <= MaxLine + ReadChunk
===============================================================================
