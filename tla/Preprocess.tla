----------------------------- MODULE Preprocess -----------------------------
(***************************************************************************)
(* preprocess.rs: a video frame is packed as the one image input of a      *)
(* model, pixel by pixel. A byte of the frame is its place in the mapped   *)
(* plane; a packed value is the byte that it was made of and the range that*)
(* scaled it, UnscaledRange for uint8.                                     *)
(***************************************************************************)
EXTENDS Integers, FiniteSets, Functions

CONSTANTS
  Sides,      \* widths and heights of frames and of model inputs
  Paddings,   \* what a stride and a plane exceed their minimum by, or miss
  RangeCounts \* the channel ranges a model-info declares: 1 or 3

VARIABLES
  task,       \* the frame, its format, the model's layout and order
  outcome,    \* "idle" | "copying" | "packed" | "error"
  pixel,      \* the next pixel
  packed      \* the input tensor: index -> value

vars == <<task, outcome, pixel, packed>>

FrameAssumption == Sides \subseteq Nat \ {0} /\ Paddings \subseteq Int

PixelFormats == {"RGB", "BGR", "RGBA", "BGRA"}
Unwritten == [byte |-> -1, range |-> -1]
UnscaledRange == 3
NoTask == [format |-> "none"]

Tasks ==
  [format: PixelFormats, order: {"RGB", "BGR"}, type: {"uint8", "float32"},
   width: Sides, height: Sides, padding: Paddings, missing: Paddings,
   first: BOOLEAN, modelWidth: Sides, modelHeight: Sides, ranges: RangeCounts]

Init == task = NoTask /\ outcome = "idle" /\ pixel = 0 /\ packed = [d \in {} |-> Unwritten]

\* PixelFormat::bytes_per_pixel and rgb: the byte of a pixel with a channel.
BytesPerPixel == IF task.format \in {"RGB", "BGR"} THEN 3 ELSE 4
ComponentOf(channel) == IF task.format \in {"RGB", "RGBA"} THEN channel ELSE 2 - channel

Stride == task.width * BytesPerPixel + task.padding
SourceLen == Stride * task.height - task.missing

\* ChannelOrder::destination_channel and the index that it is written to.
DestinationChannel(channel) == IF task.order = "RGB" THEN channel ELSE 2 - channel
Destination(index, channel) ==
  IF task.first THEN DestinationChannel(channel) * task.width * task.height + index
  ELSE index * 3 + DestinationChannel(channel)

\* copy_pixels: the first byte of a pixel, its row a chunk of stride bytes.
Offset(index) ==
  (index \div task.width) * Stride + (index % task.width) * BytesPerPixel

RangeIndex(channel) ==
  IF task.type = "uint8" THEN UnscaledRange ELSE IF task.ranges = 1 THEN 0 ELSE channel

\* preprocess() checks the frame, and allocates.
Begin ==
  /\ outcome = "idle"
  /\ task' \in Tasks
  /\ task'.missing >= 0
  /\ IF \/ task'.padding < 0 \/ task'.missing > 0
        \/ task'.modelWidth # task'.width \/ task'.modelHeight # task'.height
     THEN outcome' = "error" /\ UNCHANGED packed
     ELSE /\ outcome' = "copying"
          /\ packed' = [d \in 0..(task'.width * task'.height * 3 - 1) |-> Unwritten]
  /\ UNCHANGED pixel

CopyPixel ==
  /\ outcome = "copying" /\ pixel < task.width * task.height
  /\ packed' = [d \in DOMAIN packed |->
       IF \E channel \in 0..2 : Destination(pixel, channel) = d
       THEN LET channel == CHOOSE c \in 0..2 : Destination(pixel, c) = d
            IN [byte |-> Offset(pixel) + ComponentOf(channel), range |-> RangeIndex(channel)]
       ELSE packed[d]]
  /\ pixel' = pixel + 1
  /\ UNCHANGED <<task, outcome>>

Pack ==
  /\ outcome = "copying" /\ pixel = task.width * task.height
  /\ outcome' = "packed" /\ UNCHANGED <<task, pixel, packed>>

Next == Begin \/ CopyPixel \/ Pack
Spec == Init /\ [][Next]_vars
-----------------------------------------------------------------------------
Colours == {"R", "G", "B"}
MemoryOrder == [RGB |-> <<"R", "G", "B">>, BGR |-> <<"B", "G", "R">>,
                RGBA |-> <<"R", "G", "B">>, BGRA |-> <<"B", "G", "R">>]
Place(sequence, colour) == CHOOSE k \in 1..3 : sequence[k] = colour

\* The element of the tensor for a colour of the pixel in row y, column x,
\* in row-major order of 1,3,H,W or 1,H,W,3.
Element(colour, y, x) ==
  LET k == Place(MemoryOrder[task.order], colour) - 1
  IN IF task.first THEN (k * task.height + y) * task.width + x
     ELSE (y * task.width + x) * 3 + k

\* The packed tensor holds every pixel's colours where the model's layout and
\* channel order want them, read within the row whatever the stride and the
\* format, scaled by the range of the colour and not of its place; every
\* element is written, and no byte is used twice.
PackingFaithful ==
  /\ outcome \in {"copying", "packed"} =>
       \A y \in 0..(task.height - 1), x \in 0..(task.width - 1), colour \in Colours :
         y * task.width + x < pixel =>
           packed[Element(colour, y, x)] =
             [byte |-> y * Stride + x * BytesPerPixel + Place(MemoryOrder[task.format], colour) - 1,
              range |-> IF task.type = "uint8" THEN UnscaledRange
                        ELSE IF task.ranges = 1 THEN 0 ELSE Place(MemoryOrder["RGB"], colour) - 1]
  /\ outcome = "packed" =>
       /\ \A d \in DOMAIN packed : packed[d] # Unwritten /\ packed[d].byte < SourceLen
       /\ Cardinality({packed[d].byte : d \in DOMAIN packed}) = 3 * task.width * task.height
=============================================================================
