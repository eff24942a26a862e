---------------------------- MODULE LineFraming ----------------------------
(***************************************************************************)
(* lineenc and lineparse. The parser cuts a byte stream, which arrives in  *)
(* buffers of any size, into records at a delimiter that may be split over *)
(* buffers; it resumes its search at a saved offset, asks its base class   *)
(* for one byte more than it has seen, and bounds what it gathers. The     *)
(* encoder puts the delimiter after each record. The base class is         *)
(* external: its adapter gathers input and hands all of it to handle_frame *)
(* once min_frame_size bytes are there, or whatever is there when it       *)
(* drains, at EOS and at a new segment.                                    *)
(***************************************************************************)
EXTENDS Naturals, Sequences, SequencesExt

CONSTANTS
  Bytes,        \* the bytes of a stream
  Delimiters,   \* values of the delimiter property, perhaps the empty one
  RecordSizes,  \* values of max-record-size
  U32Max,       \* the largest u32
  MaxText,      \* bound on the bytes between two flushes or segments
  MaxChunk,     \* bound on the bytes of a buffer
  MaxFlushes    \* bound on flushes, segments and stream starts

\* Delimiters of bytes, the default one of one byte, and bounds that are numbers.
FramingAssumption ==
  /\ Delimiters \subseteq Seq(Bytes) /\ \E d \in Delimiters : Len(d) = 1
  /\ RecordSizes # {} /\ RecordSizes \subseteq Nat

VARIABLES
  framing,       \* [delimiter, max, omitEmpty]: the settings
  stage,         \* "ready", "idle", "chaining", "draining", "eos", "failed", "refused"
  segment,       \* what the drain is for: TRUE a new segment, FALSE EOS
  adapter,       \* bytes that no record has consumed
  minFrameSize,
  scanOffset,
  records,       \* records pushed since the last flush or segment
  text,          \* bytes received since then
  sent,          \* records that the encoder took since then
  encoded,       \* TRUE while all of text came from the encoder
  flushes

streamVars == <<adapter, minFrameSize, scanOffset, records, text, sent, encoded>>
vars == <<framing, stage, segment, streamVars, flushes>>

Delimiter == framing.delimiter
Lookahead == framing.max + Len(Delimiter)

Init ==
  /\ framing = [delimiter |-> CHOOSE d \in Delimiters : Len(d) = 1,
                max |-> CHOOSE n \in RecordSizes : TRUE, omitEmpty |-> FALSE]
  /\ stage = "ready" /\ segment = FALSE
  /\ adapter = <<>> /\ minFrameSize = 1 /\ scanOffset = 0
  /\ records = <<>> /\ text = <<>> /\ sent = <<>> /\ encoded = TRUE
  /\ flushes = 0

SetProperty ==
  /\ stage = "ready"
  /\ framing' \in [delimiter: Delimiters, max: RecordSizes, omitEmpty: BOOLEAN]
  /\ UNCHANGED <<stage, segment, streamVars, flushes>>

\* What start() and stop() and a flush leave: an empty adapter, no offset.
Fresh ==
  /\ adapter' = <<>> /\ minFrameSize' = 1 /\ scanOffset' = 0
  /\ records' = <<>> /\ text' = <<>> /\ sent' = <<>> /\ encoded' = TRUE

\* start() refuses an empty delimiter and a bound that a u32 cannot hold; a
\* refused start leaves the element in READY.
Startable == Delimiter # <<>> /\ Lookahead <= U32Max
Start ==
  /\ stage = "ready" /\ Startable
  /\ stage' = "idle" /\ Fresh
  /\ UNCHANGED <<framing, segment, flushes>>

Stop ==
  /\ stage \notin {"ready", "chaining", "draining"}
  /\ stage' = "ready" /\ Fresh
  /\ UNCHANGED <<framing, segment, flushes>>
-----------------------------------------------------------------------------
Receive(chunk) ==
  /\ stage = "idle" /\ Len(text \o chunk) <= MaxText
  /\ text' = text \o chunk /\ adapter' = adapter \o chunk
  /\ stage' = "chaining"
  /\ UNCHANGED <<framing, segment, minFrameSize, scanOffset, records, flushes>>

\* A buffer of a byte stream.
Chain ==
  \E chunk \in BoundedSeq(Bytes, MaxChunk) \ {<<>>} :
    Receive(chunk) /\ encoded' = FALSE /\ UNCHANGED sent

\* lineenc transforms a record; the delimiter it already ends with stays.
Encoded(record) == IF IsSuffix(Delimiter, record) THEN record ELSE record \o Delimiter
Encode ==
  \E record \in BoundedSeq(Bytes, MaxChunk) :
    Receive(Encoded(record)) /\ sent' = Append(sent, record) /\ UNCHANGED encoded

\* The first place at or after an offset (from zero) where the delimiter is.
Matches(bytes, from) ==
  {i \in from..(Len(bytes) - Len(Delimiter)) : SubSeq(bytes, i + 1, i + Len(Delimiter)) = Delimiter}
Least(S) == CHOOSE i \in S : \A j \in S : i <= j

Smaller(a, b) == IF a < b THEN a ELSE b
Minus(a, b) == IF a > b THEN a - b ELSE 0

NextOffsetWhole == Len(adapter)                           \* mutant: a split delimiter is missed

\* The offset at which the next search resumes: the delimiter may have begun.
NextOffset == Minus(Len(adapter), Minus(Len(Delimiter), 1))

\* The base class hands over what it has.
Handing == \/ stage = "chaining" /\ Len(adapter) >= minFrameSize
           \/ stage = "draining" /\ adapter # <<>>

Fail == stage' = "failed" /\ UNCHANGED <<adapter, minFrameSize, records>>

\* finish_frame pushes a record, or drops an empty one; downstream may refuse
\* it. The offset and the size asked for start over before the push.
Finish(record, consumed, keep) ==
  /\ scanOffset' = 0 /\ minFrameSize' = 1
  /\ adapter' = SubSeq(adapter, consumed + 1, Len(adapter))
  /\ \/ keep /\ records' = Append(records, record) /\ UNCHANGED stage
     \/ keep /\ stage' = "refused" /\ UNCHANGED records
     \/ ~keep /\ UNCHANGED <<records, stage>>

HandleFrame ==
  /\ Handing
  /\ LET found == Matches(adapter, Smaller(scanOffset, Len(adapter)))
         at == Least(found)
     IN \/ /\ found # {} /\ at > framing.max
           /\ Fail /\ UNCHANGED scanOffset
        \/ /\ found # {} /\ at <= framing.max
           /\ Finish(SubSeq(adapter, 1, at), at + Len(Delimiter), ~(at = 0 /\ framing.omitEmpty))
        \/ /\ found = {} /\ stage = "draining" /\ Len(adapter) <= framing.max
           /\ Finish(adapter, Len(adapter), TRUE)
        \/ /\ found = {} /\ stage = "draining" /\ Len(adapter) > framing.max
           /\ scanOffset' = NextOffset /\ Fail
        \/ /\ found = {} /\ stage = "chaining" /\ Len(adapter) >= Lookahead
           /\ scanOffset' = NextOffset /\ Fail
        \/ /\ found = {} /\ stage = "chaining" /\ Len(adapter) < Lookahead
           /\ scanOffset' = NextOffset
           /\ minFrameSize' = Smaller(Len(adapter) + 1, Lookahead)
           /\ UNCHANGED <<stage, adapter, records>>
  /\ UNCHANGED <<framing, segment, text, sent, encoded, flushes>>

\* The chain function returns once the adapter holds too little.
ChainEnds ==
  /\ stage = "chaining" /\ ~Handing
  /\ stage' = "idle"
  /\ UNCHANGED <<framing, segment, streamVars, flushes>>

\* EOS, or a new segment, makes the base class drain.
Drain ==
  /\ stage = "idle" /\ stage' = "draining"
  /\ segment' \in {s \in BOOLEAN : s => flushes < MaxFlushes}
  /\ UNCHANGED <<framing, streamVars, flushes>>

Drained ==
  /\ stage = "draining" /\ adapter = <<>>
  /\ \/ ~segment /\ stage' = "eos" /\ UNCHANGED <<streamVars, flushes>>
     \/ /\ segment /\ stage' = "idle" /\ flushes' = flushes + 1
        /\ records' = <<>> /\ text' = <<>> /\ sent' = <<>> /\ encoded' = TRUE
        /\ UNCHANGED <<adapter, minFrameSize, scanOffset>>
  /\ UNCHANGED <<framing, segment>>

\* The pad probe of constructed() sees FLUSH_STOP and STREAM_START first; the
\* base class then empties the adapter at a flush, and only then.
FlushStop ==
  /\ stage \in {"idle", "failed", "refused", "eos"} /\ flushes < MaxFlushes
  /\ stage' = "idle" /\ flushes' = flushes + 1 /\ Fresh
  /\ UNCHANGED <<framing, segment>>
StreamStart ==
  /\ stage = "idle" /\ flushes < MaxFlushes /\ flushes' = flushes + 1
  /\ scanOffset' = 0 /\ minFrameSize' = 1
  /\ UNCHANGED <<framing, stage, segment, adapter, records, text, sent, encoded>>

Next ==
  \/ SetProperty \/ Start \/ Stop
  \/ Chain \/ Encode \/ HandleFrame \/ ChainEnds
  \/ Drain \/ Drained \/ FlushStop \/ StreamStart

Spec == Init /\ [][Next]_vars
-----------------------------------------------------------------------------
\* The whole text cut at once: from each offset, the next delimiter ends a
\* record; what follows the last one is the rest.
Cut(whole) ==
  LET cut[i \in 0..Len(whole)] ==
        LET found == Matches(whole, i)
            at == Least(found)
        IN IF found = {} THEN [lines |-> <<>>, rest |-> SubSeq(whole, i + 1, Len(whole))]
           ELSE LET later == cut[at + Len(Delimiter)]
                IN [lines |-> <<SubSeq(whole, i + 1, at)>> \o later.lines, rest |-> later.rest]
  IN cut
Split(whole) == Cut(whole)[0]
Kept(lines) ==
  FlattenSeq([i \in DOMAIN lines |-> IF framing.omitEmpty /\ lines[i] = <<>> THEN <<>> ELSE <<lines[i]>>])
TooLong(record) == Len(record) > framing.max

\* However the text is cut into buffers, and wherever a delimiter is split,
\* the parser pushes the records of the whole text: all that are complete
\* whenever it waits, the rest too at the end of the stream; and it fails
\* only at a record that exceeds max-record-size, which it never pushes.
FramesExactly ==
  LET reference == Split(text)
      kept == Kept(reference.lines)
  IN /\ stage # "ready" => \A i \in DOMAIN records : ~TooLong(records[i])
     /\ stage \in {"chaining", "draining"} => IsPrefix(records, Append(kept, reference.rest))
     /\ stage = "idle" => records = kept /\ adapter = reference.rest /\ Len(adapter) < Lookahead
     /\ stage = "eos" =>
          records = kept \o (IF reference.rest = <<>> THEN <<>> ELSE <<reference.rest>>)
     /\ stage = "failed" =>
          LET all == Append(kept, reference.rest)
          IN IsPrefix(records, all) /\ TooLong(all[Len(records) + 1])

\* What the encoder took the parser gives back, unless a record and the
\* delimiter after it hold the delimiter earlier than at the record's end.
Plain(record) == Matches(record \o Delimiter, 0) = {Len(record)}
RoundTrip ==
  stage = "idle" /\ encoded /\ (\A i \in DOMAIN sent : Plain(sent[i])) =>
    records = Kept(sent) /\ adapter = <<>>
FramingConsistent == FramesExactly /\ RoundTrip
=============================================================================
