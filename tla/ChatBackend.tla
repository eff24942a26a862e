----------------------------- MODULE ChatBackend -----------------------------
(***************************************************************************)
(* prompt.rs and backend/: one generation of vlmanalysis over HTTP. The    *)
(* request is built from the prompt, the frames and the settings; the      *)
(* response is read in chunks up to a limit, under one timeout for all of  *)
(* it, and its document is judged. An optional field is a set of at most   *)
(* one value. The HTTP client and the provider are external.               *)
(***************************************************************************)
EXTENDS Integers, Sequences, SequencesExt

CONSTANTS
  MaxResponseBytes,  \* the limit of a response, 1 MiB in the code
  MaxChunk,          \* size of the largest chunk
  MaxFrames          \* frames of a request

ChatAssumption == {MaxResponseBytes, MaxChunk, MaxFrames} \subseteq Nat

VARIABLES
  request,    \* GenerationRequest, from the settings and a batch
  sent,       \* the wire request, NotSent before
  status,     \* the status of the response, 0 before
  heldBytes,  \* length of the body in memory
  phase,      \* "idle" | "sending" | "reading" | "done"
  verdict     \* the answer: [kind, status, bytes] and the text of a choice

vars == <<request, sent, status, heldBytes, phase, verdict>>

Formats == {"default", "text", "json-object", "json-schema"}
Statuses == {200, 302, 404, 503}
Requests ==
  [system: {{}, {""}, {"instructions"}},
   frames: 0..MaxFrames, format: Formats, schema: BOOLEAN,
   limit: {"legacy", "completion"}, sampling: {"configured", "provider-default"}]
NotSent == [messages |-> <<>>]
NoVerdict == [kind |-> "none", status |-> {}, bytes |-> {}, text |-> "none"]

Init ==
  /\ request \in Requests /\ sent = NotSent /\ status = 0 /\ heldBytes = 0
  /\ phase = "idle" /\ verdict = NoVerdict
-----------------------------------------------------------------------------
(* The request. *)

\* literal_messages: the system prompt if there is one, then the user prompt
\* with the frames after it.
Messages(r) ==
  SetToSeq({[role |-> "system", parts |-> <<text>>] : text \in r.system})
    \o <<[role |-> "user", parts |-> <<"prompt">> \o [f \in 1..r.frames |-> <<"frame", f>>]]>>

\* wire_message: one text is a string, anything else a list of parts.
WireMessage(message) ==
  [role |-> message.role, parts |-> message.parts, plain |-> Len(message.parts) = 1]

Given(condition, value) == {v \in {value} : condition}

\* serialize: a schema that was asked for and is not there is an error.
Serializable(r) == r.format = "json-schema" => r.schema
Serialize(r) ==
  [messages |-> [m \in DOMAIN Messages(r) |-> WireMessage(Messages(r)[m])],
   maxTokens |-> Given(r.limit = "legacy", "max"),
   maxCompletionTokens |-> Given(r.limit = "completion", "max"),
   temperature |-> Given(r.sampling = "configured", "t"),
   topP |-> Given(r.sampling = "configured", "p"),
   responseFormat |-> Given(r.format # "default", r.format)]

Conclude(kind, code, bytes, text) ==
  /\ phase' = "done"
  /\ verdict' = [kind |-> kind, status |-> code, bytes |-> bytes, text |-> text]

Generate ==
  /\ phase = "idle"
  /\ IF Serializable(request)
     THEN sent' = Serialize(request) /\ phase' = "sending" /\ UNCHANGED verdict
     ELSE Conclude("response", {}, {}, "none") /\ UNCHANGED sent
  /\ UNCHANGED <<request, status, heldBytes>>

SendFails ==
  /\ phase = "sending" /\ Conclude("http", {}, {}, "none")
  /\ UNCHANGED <<request, sent, status, heldBytes>>

Respond ==
  /\ phase = "sending" /\ phase' = "reading" /\ status' \in Statuses
  /\ UNCHANGED <<request, sent, heldBytes, verdict>>
-----------------------------------------------------------------------------
(* The response. *)

Success(code) == code = 200

\* A choice and the response's judgement of the first one, in parse.
Answers ==
  [refusal: {"", "refused"}, finish: {"none", "stop", "length", "content_filter", "tool_calls"},
   content: {"none", "", "text", "array", "object"}]
Documents == {<<>>} \cup {<<answer>> : answer \in Answers}
               \cup {<<[refusal |-> "refused", finish |-> "stop", content |-> "text"],
                       [refusal |-> "", finish |-> "stop", content |-> "object"]>>}

Acceptable(answer) ==
  /\ answer.refusal = "" /\ answer.finish \in {"none", "stop"}
  /\ answer.content \notin {"none", ""}
  /\ request.format \in {"json-object", "json-schema"} => answer.content = "object"

\* Mutant: what went wrong with the body before the status of the response.
EndBodyFirst(fault, bytes) ==
  IF fault = "large" THEN Conclude("response", {}, {}, "none")
  ELSE IF fault = "read" THEN Conclude("http", {}, {bytes}, "none")
  ELSE IF ~Success(status) THEN Conclude("http", {status}, {bytes}, "none")
  ELSE \E choices \in Documents :
         IF choices # <<>> /\ Acceptable(Head(choices))
         THEN Conclude("generated", {}, {}, Head(choices).content)
         ELSE Conclude("response", {}, {}, "none")

\* The body ended, was cut off or was too large: the status first, then the
\* body, then the document, which may be no JSON or have no choice.
End(fault, bytes) ==
  IF ~Success(status) THEN Conclude("http", {status}, {bytes}, "none")
  ELSE IF fault = "read" THEN Conclude("http", {}, {bytes}, "none")
  ELSE IF fault = "large" THEN Conclude("response", {}, {}, "none")
  ELSE \E choices \in Documents :
         IF choices # <<>> /\ Acceptable(Head(choices))
         THEN Conclude("generated", {}, {}, Head(choices).content)
         ELSE Conclude("response", {}, {}, "none")

\* bounded_body: a chunk that would exceed the limit is dropped with the rest.
Chunk ==
  /\ phase = "reading"
  /\ \E size \in 1..MaxChunk :
       IF heldBytes + size > MaxResponseBytes
       THEN End("large", heldBytes + size) /\ UNCHANGED heldBytes
       ELSE heldBytes' = heldBytes + size /\ UNCHANGED <<phase, verdict>>
  /\ UNCHANGED <<request, sent, status>>

BodyFails ==
  /\ phase = "reading" /\ End("read", heldBytes)
  /\ UNCHANGED <<request, sent, status, heldBytes>>

BodyEnds ==
  /\ phase = "reading" /\ End("none", heldBytes)
  /\ UNCHANGED <<request, sent, status, heldBytes>>

\* The one timeout over sending, reading and parsing.
Timeout ==
  /\ phase \in {"sending", "reading"} /\ Conclude("timeout", {}, {}, "none")
  /\ UNCHANGED <<request, sent, status, heldBytes>>

Next == Generate \/ SendFails \/ Respond \/ Chunk \/ BodyFails \/ BodyEnds \/ Timeout
Spec == Init /\ [][Next]_vars
-----------------------------------------------------------------------------
\* A provider is told one token limit, both sampling parameters or neither,
\* the frames in their order behind the prompt and the system prompt, an empty
\* one too, before them.
RequestTrue ==
  sent # NotSent =>
    LET user == Last(sent.messages)
    IN /\ (sent.maxTokens = {}) # (sent.maxCompletionTokens = {})
       /\ (sent.temperature = {}) = (sent.topP = {})
       /\ user.role = "user" /\ user.parts[1] = "prompt"
       /\ \A f \in 1..request.frames : user.parts[f + 1] = <<"frame", f>>
       /\ user.plain = (request.frames = 0)
       /\ {m.parts[1] : m \in ToSet(Front(sent.messages))} = request.system

\* Text is what a whole successful response within the limit gave in its first
\* choice, an object where JSON was asked for; an unsuccessful status is told
\* as such however its body ended, with the bytes that came, and no more than
\* the limit is ever held.
GenerationHonest ==
  /\ heldBytes <= MaxResponseBytes
  /\ verdict.kind = "generated" =>
       /\ Success(status) /\ verdict.text \in {"text", "array", "object"}
       /\ request.format \in {"json-object", "json-schema"} => verdict.text = "object"
  /\ phase = "done" /\ status # 0 /\ ~Success(status) /\ verdict.kind # "timeout" =>
       /\ verdict.kind = "http" /\ verdict.status = {status}
       /\ \E bytes \in verdict.bytes : bytes >= heldBytes
  /\ verdict.status # {} => verdict.status = {status} /\ ~Success(status)

ChatConsistent == RequestTrue /\ GenerationHonest
=============================================================================
