------------------------------ MODULE DataPaths ------------------------------
(***************************************************************************)
(* What happens to the data of a buffer, explored side by side as in       *)
(* Tracers: the framing of lines, the NanoDet decoder, the inference       *)
(* elements and their preprocessing, and the metadata that the NATS and S2 *)
(* elements attach, relay and send.                                        *)
(***************************************************************************)
EXTENDS Integers, Sequences, TLC

CONSTANTS
  Bytes, Delimiters, RecordSizes, U32Max, MaxText, MaxChunk, MaxFlushes, \* LineFraming
  Contracts, TensorIds, Blank, Maxima, ScoreThreshold, Overlap, Classes,
  Rows, NotFinite,                                              \* NanoDet
  Models, Infos, Tensors, MaxTensors, Sizes, MaxFrames,         \* Inference
  Sides, Paddings, RangeCounts,                                 \* Preprocess
  Names, Values, MaxHeaders, MaxFixed                           \* RecordMeta

VARIABLES
  part,  \* the part that this behaviour is of
  framing, stage, segment, adapter, minFrameSize, scanOffset, records, text, sent,
  encoded, flushes,
  chosen, decoder, decoding, point, scratch, decoded, index, retained, attached,
  props, plan, video, frame, frames,
  task, outcome, pixel, packed,
  incoming, carried, touched, fixed, outgoing

Lines == INSTANCE LineFraming
Boxes == INSTANCE NanoDet
Nets == INSTANCE Inference
Prep == INSTANCE Preprocess
Meta == INSTANCE RecordMeta

ASSUME DataPathsAssumption ==
  /\ Lines!FramingAssumption /\ Boxes!NanoDetAssumption
  /\ Nets!ModelsAssumption /\ Prep!FrameAssumption

Parts == {"lines", "boxes", "engines", "packing", "meta"}

lineVars == <<framing, stage, segment, adapter, minFrameSize, scanOffset, records, text,
              sent, encoded, flushes>>
boxVars == <<chosen, decoder, decoding, point, scratch, decoded, index, retained, attached>>
engineVars == <<props, plan, video, frame, frames>>
packingVars == <<task, outcome, pixel, packed>>
metaVars == <<incoming, carried, touched, fixed, outgoing>>
dataVars == <<part, lineVars, boxVars, engineVars, packingVars, metaVars>>

\* The variables of every part but one rest.
OnlyOf(p) ==
  /\ part = p
  /\ p # "lines" => UNCHANGED lineVars
  /\ p # "boxes" => UNCHANGED boxVars
  /\ p # "engines" => UNCHANGED engineVars
  /\ p # "packing" => UNCHANGED packingVars
  /\ p # "meta" => UNCHANGED metaVars
  /\ UNCHANGED part
-----------------------------------------------------------------------------
Init ==
  /\ part \in Parts
  /\ Lines!Init /\ Boxes!Init /\ Nets!Init /\ Prep!Init /\ Meta!Init
  \* Elsewhere the settings of the metadata are of no interest.
  /\ part # "meta" => fixed = [subject |-> "", headers |-> <<>>, preserve |-> FALSE]

Next ==
  \/ OnlyOf("lines") /\ Lines!Next
  \/ OnlyOf("boxes") /\ Boxes!Next
  \/ OnlyOf("engines") /\ Nets!Next
  \/ OnlyOf("packing") /\ Prep!Next
  \/ OnlyOf("meta") /\ Meta!Next

Spec == Init /\ [][Next]_dataVars
-----------------------------------------------------------------------------
\* lineparse pushes the records of the whole text however it is cut into buffers,
\* and gives back what lineenc took.
FramingConsistent == part = "lines" => Lines!FramingConsistent

\* The objects of a frame are the greedy choice among that frame's candidates.
NanoDetConsistent == part = "boxes" => Boxes!NanoDetConsistent

\* The model gets each input by its name, or by its id, with the shape it was
\* declared with, and what is attached is what it returned; an image arrives in it
\* with every pixel's colours where the model wants them.
InferenceConsistent ==
  /\ part = "engines" => Nets!InferenceConsistent
  /\ part = "packing" => Prep!PackingFaithful

\* A sink sends what the source received, whichever of NATS and S2 they are of.
MetaConsistent == part = "meta" => Meta!MetaConsistent
=============================================================================
