---------------------------- MODULE ConsoleOutput ----------------------------
(***************************************************************************)
(* consolesink and consoleprint: elements on threads of their own write    *)
(* their buffers to the standard streams of the process. A stream has one  *)
(* lock; standard output is line buffered by the standard library, which is*)
(* external, and keeps what it could not write. A byte is tagged with the  *)
(* element that it is from.                                                *)
(***************************************************************************)
EXTENDS Integers, Sequences, FiniteSets, SequencesExt

CONSTANTS
  RawElements,   \* consolesink
  TextElements,  \* consoleprint
  Payloads,      \* contents of buffers: sequences of "x", "newline" and "invalid"
  MaxTurns       \* bound on the writes

VARIABLES
  outputs,   \* element -> [stream, newline], the properties
  jobs,      \* element -> [at, stream, left]: the write in progress
  holder,    \* stream -> the element with its lock, or NoElement
  buffered,  \* the bytes in standard output's buffer
  shown,     \* stream -> the bytes that left the process
  turns      \* stream -> who had the lock: [by, record, from, given, result]

vars == <<outputs, jobs, holder, buffered, shown, turns>>

Streams == {"stdout", "stderr"}
Printers == RawElements \cup TextElements
NoElement == "none"

\* The bytes that matter, and what elements may be called.
Contents == {"x", "newline", "invalid"}
ConsoleAssumption == NoElement \notin Printers /\ \A payload \in Payloads : payload \in Seq(Contents)

Idle == [at |-> "idle", stream |-> "stdout", left |-> <<>>]

\* RawSettings and TextSettings by default.
Init ==
  /\ outputs = [e \in Printers |-> [stream |-> "stdout", newline |-> e \in TextElements]]
  /\ jobs = [e \in Printers |-> Idle]
  /\ holder = [s \in Streams |-> NoElement]
  /\ buffered = <<>> /\ shown = [s \in Streams |-> <<>>] /\ turns = [s \in Streams |-> <<>>]

\* The properties change at any time.
SetProperty(e) ==
  /\ \E stream \in Streams, newline \in {b \in BOOLEAN : b => e \in TextElements} :
       outputs' = [outputs EXCEPT ![e] = [stream |-> stream, newline |-> newline]]
  /\ UNCHANGED <<jobs, holder, buffered, shown, turns>>

IsText(payload) == "invalid" \notin ToSet(payload)
EndsLine(payload) == payload # <<>> /\ Last(payload) = "newline"

\* Mutant: a newline after every record.
RecordAlwaysNewline(payload, newline) == IF newline THEN payload \o <<"newline">> ELSE payload

\* prepare_text_record and the raw write.
Record(payload, newline) ==
  IF newline /\ ~EndsLine(payload) THEN payload \o <<"newline">> ELSE payload

Tagged(e, record) == [i \in DOMAIN record |-> [by |-> e, byte |-> record[i]]]

\* The writes so far, to either stream, and those on their way.
Writes ==
  Len(turns["stdout"]) + Len(turns["stderr"]) + Cardinality({e \in Printers : jobs[e].at = "waiting"})

\* render() and transform_ip(): one copy of the settings serves the record; a
\* text element refuses what is not UTF-8.
Render(e) ==
  /\ jobs[e].at = "idle" /\ Writes < MaxTurns
  /\ \E payload \in Payloads :
       /\ e \in TextElements => IsText(payload)
       /\ jobs' = [jobs EXCEPT ![e] = [at |-> "waiting", stream |-> outputs[e].stream,
                                       left |-> Tagged(e, Record(payload, outputs[e].newline))]]
  /\ UNCHANGED <<outputs, holder, buffered, shown, turns>>

\* What was written to a stream, wherever it is.
Written(s) == shown[s] \o (IF s = "stdout" THEN buffered ELSE <<>>)

\* write_to_stream takes the lock of the stream for the record and its flush.
Lock(e) ==
  LET s == jobs[e].stream
  IN /\ jobs[e].at = "waiting" /\ holder[s] = NoElement
     /\ holder' = [holder EXCEPT ![s] = e]
     /\ jobs' = [jobs EXCEPT ![e].at = "writing"]
     /\ turns' = [turns EXCEPT ![s] = Append(@, [by |-> e, record |-> jobs[e].left,
                                                 from |-> Len(Written(s)), given |-> 0,
                                                 result |-> "open"])]
     /\ UNCHANGED <<outputs, buffered, shown>>

\* write_all hands over the next byte.
Give(e) ==
  LET s == jobs[e].stream
  IN /\ jobs[e].at = "writing" /\ jobs[e].left # <<>>
     /\ IF s = "stdout"
        THEN buffered' = Append(buffered, Head(jobs[e].left)) /\ UNCHANGED shown
        ELSE shown' = [shown EXCEPT ![s] = Append(@, Head(jobs[e].left))] /\ UNCHANGED buffered
     /\ jobs' = [jobs EXCEPT ![e].left = Tail(@)]
     /\ turns' = [turns EXCEPT ![s][Len(turns[s])].given = @ + 1]
     /\ UNCHANGED <<outputs, holder>>

\* Standard output empties its buffer for the element that has the lock.
Emit ==
  /\ buffered # <<>> /\ holder["stdout"] # NoElement
  /\ shown' = [shown EXCEPT !["stdout"] = Append(@, Head(buffered))]
  /\ buffered' = Tail(buffered)
  /\ UNCHANGED <<outputs, jobs, holder, turns>>

Release(e, result) ==
  LET s == jobs[e].stream
  IN /\ holder' = [holder EXCEPT ![s] = NoElement]
     /\ jobs' = [jobs EXCEPT ![e] = Idle]
     /\ turns' = [turns EXCEPT ![s][Len(turns[s])].result = result]
     /\ UNCHANGED <<outputs, buffered, shown>>

Flushed(e) ==
  /\ jobs[e].at = "writing" /\ jobs[e].left = <<>>
  /\ jobs[e].stream = "stdout" => buffered = <<>>
  /\ Release(e, "ok")

\* A write or the flush fails: the buffer is an error for the pipeline.
Fail(e) == jobs[e].at = "writing" /\ Release(e, "error")

Next ==
  \/ \E e \in Printers : SetProperty(e) \/ Render(e) \/ Lock(e) \/ Give(e) \/ Flushed(e) \/ Fail(e)
  \/ Emit

Spec == Init /\ [][Next]_vars
-----------------------------------------------------------------------------
Given(turn) == SubSeq(turn.record, 1, turn.given)

\* Where what was written in a turn ends: where the next begins.
Until(s, t) == IF t = Len(turns[s]) THEN Len(Written(s)) ELSE turns[s][t + 1].from

\* A stream is its records one after the other, none in another: whole where
\* the element was told so, and then out of the process; a record that failed
\* shows only its beginning, of which standard output may owe a part to the
\* next writer.
StreamsWhole ==
  \A s \in Streams :
    /\ turns[s] = <<>> => Written(s) = <<>>
    /\ \A t \in DOMAIN turns[s] :
         /\ t = 1 => turns[s][t].from = 0
         /\ Until(s, t) = turns[s][t].from + turns[s][t].given
         /\ SubSeq(Written(s), turns[s][t].from + 1, Until(s, t)) = Given(turns[s][t])
         /\ turns[s][t].result = "ok" => turns[s][t].given = Len(turns[s][t].record)
         /\ \A i \in DOMAIN turns[s][t].record : turns[s][t].record[i].by = turns[s][t].by
    /\ turns[s] # <<>> /\ Last(turns[s]).result = "ok" =>
         Len(shown[s]) >= Len(Last(turns[s]).record) /\ (s = "stdout" => buffered = <<>>)

\* A record is a payload as it was, or with the one newline it lacked.
RecordsTrue ==
  \A s \in Streams : \A t \in DOMAIN turns[s] :
    LET bytes == [i \in DOMAIN turns[s][t].record |-> turns[s][t].record[i].byte]
    IN \/ bytes \in Payloads
       \/ /\ turns[s][t].by \in TextElements /\ EndsLine(bytes)
          /\ Front(bytes) \in Payloads /\ ~EndsLine(Front(bytes))

ConsoleConsistent == StreamsWhole /\ RecordsTrue
=============================================================================
