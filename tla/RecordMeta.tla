----------------------------- MODULE RecordMeta -----------------------------
(***************************************************************************)
(* meta.rs of the S2 elements and message_meta.rs of the NATS elements: a  *)
(* source attaches what it received as a structure on the buffer, anything *)
(* between may write the structure anew, and a sink reads it back into what*)
(* it sends. A header map of NATS gives each name its values in order and  *)
(* has no order of names; an S2 record has a sequence of headers, and one  *)
(* header with an empty name makes a command of it.                        *)
(***************************************************************************)
EXTENDS Integers, Sequences, FiniteSets, SequencesExt, Functions

CONSTANTS
  Names, Values,  \* header names, without the empty one, and values
  MaxHeaders,     \* bound on the headers of a message or a record
  MaxFixed        \* bound on the headers of the settings

VARIABLES
  incoming,  \* what the source received: a NATS message or an S2 record
  carried,   \* kind of meta -> the structure on the buffer, Absent or Malformed
  touched,   \* an element between wrote a structure
  fixed,     \* natssink's subject and headers, s2sink's preserve-timestamp
  outgoing   \* what the sink sends, an error, or Nothing

vars == <<incoming, carried, touched, fixed, outgoing>>

Absent == [shape |-> "absent"]
Malformed == [shape |-> "malformed"]
Nothing == [result |-> "nothing"]
Failed == [result |-> "error"]

Subjects == {"", "events", "no good"}
Headers(names, values, length) == BoundedSeq([name: names, value: values], length)

\* A header map from headers appended in turn; async_nats has it external.
ValuesOf(headers, name) ==
  FlattenSeq([i \in DOMAIN headers |->
                IF headers[i].name = name THEN <<headers[i].value>> ELSE <<>>])
HeaderMap(headers) == [name \in {h.name : h \in ToSet(headers)} |-> ValuesOf(headers, name)]
NoHeaders == HeaderMap(<<>>)
HeaderMaps(length) == {HeaderMap(headers) : headers \in Headers(Names, Values, length)}

Init ==
  /\ incoming = Nothing /\ touched = FALSE /\ outgoing = Nothing
  /\ carried = [kind \in {"nats", "s2"} |-> Absent]
  /\ fixed \in [subject: {"", "fixed"}, headers: HeaderMaps(MaxFixed), preserve: BOOLEAN]
-----------------------------------------------------------------------------
(* Core NATS. *)

\* validate_subject: not empty unless that is allowed, and no whitespace.
ValidSubject(subject) == subject \notin {"", "no good"}

\* headers_to_array: a name's values together, the names in any order.
ArraysOf(map) ==
  {FlattenSeq([n \in DOMAIN names |->
                 [i \in DOMAIN map[names[n]] |-> [name |-> names[n], value |-> map[names[n]][i]]]]) :
     names \in SetToSeqs(DOMAIN map)}

\* attach: an empty header map is left out, as is no reply.
AttachMessage(message) ==
  IF ~ValidSubject(message.subject) \/ \E reply \in message.reply : ~ValidSubject(reply)
  THEN carried' = carried
  ELSE \E array \in ArraysOf(message.headers) :
         carried' = [carried EXCEPT !["nats"] =
           [shape |-> "message", subject |-> message.subject, reply |-> message.reply,
            headers |-> {h \in {array} : h # <<>>}]]

ReceiveMessage ==
  /\ incoming = Nothing
  /\ \E subject \in Subjects, reply \in {{}, {"inbox"}, {"no good"}}, headers \in HeaderMaps(MaxHeaders) :
       /\ incoming' = [result |-> "message", subject |-> subject, reply |-> reply, headers |-> headers]
       /\ AttachMessage(incoming')
  /\ UNCHANGED <<touched, fixed, outgoing>>

\* read: the subject is required, a reply may be empty, and headers are
\* appended to a new map; a value or name that is no header is Malformed.
ReadableMessage(structure) ==
  /\ structure # Malformed /\ ValidSubject(structure.subject)
  /\ \A reply \in structure.reply : reply = "" \/ ValidSubject(reply)
ReadReply(structure) == {reply \in structure.reply : reply # ""}
ReadHeaders(structure) ==
  IF structure = Absent \/ structure.headers = {} THEN NoHeaders
  ELSE HeaderMap(CHOOSE array \in structure.headers : TRUE)

\* Mutant: a header of the message replaces the fixed ones of its name.
MergeReplacing(first, second) ==
  [name \in DOMAIN first \cup DOMAIN second |->
     IF name \in DOMAIN second THEN second[name] ELSE first[name]]

\* merge_headers: the fixed ones first, both kept.
Merge(first, second) ==
  [name \in DOMAIN first \cup DOMAIN second |->
     (IF name \in DOMAIN first THEN first[name] ELSE <<>>)
       \o (IF name \in DOMAIN second THEN second[name] ELSE <<>>)]

\* natssink renders: the envelope if there is one, a subject from the settings
\* or else from the envelope.
RenderNats ==
  LET structure == carried["nats"]
      plain == structure = Absent
  IN /\ incoming # Nothing /\ outgoing = Nothing
     /\ outgoing' =
          IF (~plain /\ ~ReadableMessage(structure)) \/ (plain /\ fixed.subject = "") THEN Failed
          ELSE [result |-> "publish",
                subject |-> IF fixed.subject = "" THEN structure.subject ELSE fixed.subject,
                reply |-> IF plain THEN {} ELSE ReadReply(structure),
                headers |-> Merge(fixed.headers, ReadHeaders(structure))]
     /\ UNCHANGED <<incoming, carried, touched, fixed>>
-----------------------------------------------------------------------------
(* S2. *)

IsCommand(headers) == Len(headers) = 1 /\ headers[1].name = ""

ReceiveRecord ==
  /\ incoming = Nothing
  /\ \E headers \in Headers(Names \cup {""}, Values, MaxHeaders), timestamp \in {1} :
       /\ incoming' = [result |-> "record", headers |-> headers, timestamp |-> timestamp]
       /\ carried' = [carried EXCEPT !["s2"] =
            [shape |-> "record", headers |-> headers, timestamp |-> timestamp,
             command |-> IsCommand(headers)]]
  /\ UNCHANGED <<touched, fixed, outgoing>>

\* read and regular_headers: the command marker must agree with the headers,
\* and neither a command nor an empty name is appended.
ReadableRecord(structure) == structure # Malformed /\ structure.command = IsCommand(structure.headers)
Regular(structure) == ~structure.command /\ \A h \in ToSet(structure.headers) : h.name # ""

RenderS2 ==
  LET structure == carried["s2"]
  IN /\ incoming # Nothing /\ outgoing = Nothing
     /\ outgoing' =
          IF structure = Absent THEN [result |-> "append", headers |-> <<>>, timestamp |-> {}]
          ELSE IF ~ReadableRecord(structure) \/ ~Regular(structure) THEN Failed
          ELSE [result |-> "append", headers |-> structure.headers,
                timestamp |-> {t \in {structure.timestamp} : fixed.preserve}]
     /\ UNCHANGED <<incoming, carried, touched, fixed>>

\* An element between the source and the sink writes a structure.
Touch ==
  /\ incoming # Nothing /\ outgoing = Nothing /\ ~touched
  /\ touched' = TRUE
  /\ \/ carried' = [carried EXCEPT !["nats"] = Malformed]
     \/ carried' = [carried EXCEPT !["s2"] = Malformed]
     \/ \E subject \in Subjects, reply \in {{}, {""}, {"no good"}} :
          carried' = [carried EXCEPT !["nats"] =
            [shape |-> "message", subject |-> subject, reply |-> reply, headers |-> {}]]
     \/ \E headers \in Headers(Names \cup {""}, {0}, MaxHeaders), command \in BOOLEAN :
          carried' = [carried EXCEPT !["s2"] =
            [shape |-> "record", headers |-> headers, timestamp |-> 3, command |-> command]]
  /\ UNCHANGED <<incoming, fixed, outgoing>>

Next == ReceiveMessage \/ ReceiveRecord \/ Touch \/ RenderNats \/ RenderS2
Spec == Init /\ [][Next]_vars
-----------------------------------------------------------------------------
\* A message relayed from a NATS source to a NATS sink keeps its reply subject
\* and every value of every header, in order, behind the fixed ones of its name;
\* whoever wrote the structure, a valid subject is published.
MessagesRelayed ==
  outgoing.result = "publish" =>
    /\ ValidSubject(outgoing.subject) /\ \A reply \in outgoing.reply : ValidSubject(reply)
    /\ fixed.subject # "" => outgoing.subject = fixed.subject
    /\ \A name \in DOMAIN fixed.headers :
         IsPrefix(fixed.headers[name], outgoing.headers[name])
    /\ incoming.result = "message" /\ ~touched /\ ValidSubject(incoming.subject)
         /\ (\A reply \in incoming.reply : ValidSubject(reply)) =>
       /\ outgoing.reply = incoming.reply
       /\ fixed.subject = "" => outgoing.subject = incoming.subject
       /\ \A name \in DOMAIN incoming.headers : IsSuffix(incoming.headers[name], outgoing.headers[name])
       /\ \A name \in DOMAIN outgoing.headers :
            Len(outgoing.headers[name]) =
              (IF name \in DOMAIN fixed.headers THEN Len(fixed.headers[name]) ELSE 0)
                + (IF name \in DOMAIN incoming.headers THEN Len(incoming.headers[name]) ELSE 0)

\* A record relayed from an S2 source to an S2 sink keeps its headers, their
\* order and, where asked, its timestamp; a command is never appended, neither
\* as one nor as a regular record, whoever wrote the structure.
RecordsRelayed ==
  outgoing.result = "append" =>
    /\ \A h \in ToSet(outgoing.headers) : h.name # ""
    /\ incoming.result = "record" /\ ~touched =>
         /\ ~IsCommand(incoming.headers) /\ outgoing.headers = incoming.headers
         /\ outgoing.timestamp = {t \in {incoming.timestamp} : fixed.preserve}

MetaConsistent == MessagesRelayed /\ RecordsRelayed
=============================================================================
