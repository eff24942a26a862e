------------------------------ MODULE NanoDet ------------------------------
(***************************************************************************)
(* nanodettensordec: negotiation of one of the supported model contracts,  *)
(* the decoding of a tensor row by row into candidate boxes, the greedy    *)
(* suppression that works in place in the element's scratch vector, and    *)
(* the metadata attached to the frame. Floats are abstracted: scores are   *)
(* integers with one value that is not finite, a distribution is its       *)
(* expectation, coordinates count half pixels, and an overlap is compared  *)
(* by cross-multiplication.                                                *)
(***************************************************************************)
EXTENDS Integers, Sequences, FiniteSets, SequencesExt

CONSTANTS
  Contracts,      \* the contracts that frames are decoded under, in small
  TensorIds,      \* values of tensor-id, perhaps the blank one
  Blank,          \* the blank tensor-id
  Maxima,         \* values of max-detections
  ScoreThreshold,
  Overlap,        \* iou-threshold, in tenths
  Classes,        \* 0..(NUM_CLASSES - 1)
  Rows,           \* rows of a tensor: [scores, sides]
  NotFinite       \* a score or a side that is NaN or infinite

VARIABLES
  chosen,      \* the settings: [tensorId, labels, max]
  decoder,     \* Stopped or the state start() makes: [tensorId, max, negotiated]
  decoding,    \* "idle", "rows", "suppressing"
  point,       \* the rows decoded so far
  scratch,     \* the candidates, kept from frame to frame
  decoded,     \* the candidates of this frame, in the order of their rows
  index, retained,   \* suppress(): where it reads, how many it has kept
  attached     \* the objects attached to the frame

capsVars == <<chosen, decoder>>
frameVars == <<decoding, point, scratch, decoded, index, retained, attached>>
vars == <<capsVars, frameVars>>

\* CONTRACTS: [size, points, strides, half], half TRUE for cell centers.
CONTRACTS ==
  {[size |-> 320, points |-> 2100, strides |-> <<8, 16, 32>>, half |-> TRUE],
   [size |-> 320, points |-> 2125, strides |-> <<8, 16, 32, 64>>, half |-> FALSE],
   [size |-> 416, points |-> 3549, strides |-> <<8, 16, 32>>, half |-> TRUE],
   [size |-> 416, points |-> 3598, strides |-> <<8, 16, 32, 64>>, half |-> FALSE]}

Kinds == {"float32", "float16"}
Stopped == [started |-> FALSE]
Unnegotiated == [contract |-> [size |-> 0, points |-> 0, strides |-> <<>>, half |-> FALSE], kind |-> "none"]

Init ==
  /\ chosen = [tensorId |-> CHOOSE t \in TensorIds : t # Blank, labels |-> "none",
               max |-> CHOOSE n \in Maxima : TRUE]
  /\ decoder = Stopped
  /\ decoding = "idle" /\ point = 0 /\ scratch = <<>> /\ decoded = <<>>
  /\ index = 0 /\ retained = 0 /\ attached = <<>>

SetProperty ==
  /\ decoder = Stopped
  /\ chosen' \in [tensorId: TensorIds, labels: {"none", "complete", "wrong"}, max: Maxima]
  /\ UNCHANGED <<decoder, frameVars>>

\* start() refuses a blank id and a label file without a label per class.
Start ==
  /\ decoder = Stopped
  /\ chosen.tensorId # Blank /\ chosen.labels # "wrong"
  /\ decoder' = [started |-> TRUE, tensorId |-> chosen.tensorId, max |-> chosen.max,
                 negotiated |-> Unnegotiated]
  /\ UNCHANGED <<chosen, frameVars>>

Stop ==
  /\ decoder # Stopped /\ decoding = "idle"
  /\ decoder' = Stopped
  /\ decoded' = <<>> /\ attached' = <<>>
  /\ UNCHANGED <<chosen, decoding, point, scratch, index, retained>>
-----------------------------------------------------------------------------
(* Caps: [width, height, nano, other]: sizes, Open when absent or a range; *)
(* the descriptors of the element's own tensor group; and whether another  *)
(* group is there. A descriptor is [id, kind, order, points], the last     *)
(* standing for its dimensions.                                            *)

Open == 0
Descriptor(c, kind) == [id |-> chosen.tensorId, kind |-> kind, order |-> "row-major", points |-> c.points]
Foreign == [id |-> "foreign", kind |-> "float32", order |-> "row-major", points |-> 1]
ContractSizes == {c.size : c \in Contracts}
Structures ==
  [width: ContractSizes \cup {Open}, height: ContractSizes \cup {Open},
   nano: SUBSET {Foreign, Descriptor(CHOOSE c \in Contracts : TRUE, "float32"),
                 [Descriptor(CHOOSE c \in Contracts : TRUE, "float16") EXCEPT !.order = "col-major"]},
   other: BOOLEAN]

SupportsSize(caps, size) == caps.width \in {size, Open} /\ caps.height \in {size, Open}
Required(nano, c, kind) == {t \in nano : t.id # chosen.tensorId} \cup {Descriptor(c, kind)}

\* What the element asks of upstream for caps that downstream accepts.
Offer(caps, c, kind) ==
  [caps EXCEPT !.width = c.size, !.height = c.size, !.nano = Required(caps.nano, c, kind)]
Offered(caps) == {Offer(caps, c, kind) : c \in {c \in Contracts : SupportsSize(caps, c.size)}, kind \in Kinds}

\* What it gives downstream for caps from upstream.
Forward(caps) == [caps EXCEPT !.nano = {t \in @ : t.id # chosen.tensorId}]

\* The contracts that fixed caps satisfy.
Negotiable(caps) ==
  {n \in [contract: Contracts, kind: Kinds] :
     /\ caps.width = n.contract.size /\ caps.height = n.contract.size
     /\ Descriptor(n.contract, n.kind) \in caps.nano}

\* set_caps(); caps without a contract are refused and change nothing.
SetCaps ==
  /\ decoder # Stopped /\ decoding = "idle"
  /\ \E c \in Contracts, kind \in Kinds :
       LET caps == [width |-> c.size, height |-> c.size, nano |-> {Descriptor(c, kind)}, other |-> FALSE]
       IN \E n \in Negotiable(caps) : decoder' = [decoder EXCEPT !.negotiated = n]
  /\ UNCHANGED <<chosen, frameVars>>
-----------------------------------------------------------------------------
Contract == decoder.negotiated.contract

\* transform_ip() of a frame that it passes on as it is: one without a tensor
\* of the id. One whose tensor does not match, or that comes before the caps,
\* is an error. Nothing is attached to either.
PassOn ==
  /\ decoder # Stopped /\ decoding = "idle"
  /\ attached' = <<>> /\ decoded' = <<>>
  /\ UNCHANGED <<capsVars, decoding, point, scratch, index, retained>>

DecodeBegins ==
  /\ decoder # Stopped /\ decoder.negotiated # Unnegotiated /\ decoding = "idle"
  /\ decoding' = "rows" /\ point' = 0
  /\ scratch' = <<>>
  /\ decoded' = <<>> /\ attached' = <<>>
  /\ UNCHANGED <<capsVars, index, retained>>

\* The class of the highest score, the last of equals; none beside a score
\* that is not finite.
BestClass(scores) ==
  {k \in Classes : /\ \A j \in Classes : scores[j] # NotFinite
                   /\ \A j \in Classes : scores[j] < scores[k] \/ (scores[j] = scores[k] /\ j <= k)}

DivCeil(a, b) == (a + b - 1) \div b
Cells(c, stride) == DivCeil(c.size, stride) * DivCeil(c.size, stride)
GridPoints(c, n) ==
  LET points[k \in 0..n] == IF k = 0 THEN 0 ELSE points[k - 1] + Cells(c, c.strides[k])
  IN points[n]

\* The contracts are told apart by what caps can say of them, and each has the
\* points of its grids; the numbers are numbers.
NanoDetAssumption ==
  /\ \A c \in Contracts : c.points = GridPoints(c, Len(c.strides))
  /\ \A c, d \in Contracts : c.size = d.size /\ c.points = d.points => c = d
  /\ Maxima # {} /\ Maxima \subseteq Nat /\ Classes \subseteq Int
  /\ \A row \in Rows, k \in Classes : row.scores[k] \in Int \cup {NotFinite}

Clamp(x) == IF x < 0 THEN 0 ELSE IF x > 2 * Contract.size THEN 2 * Contract.size ELSE x
Center(cell, stride) == (2 * cell + (IF Contract.half THEN 1 ELSE 0)) * stride

\* The box of a row, in half pixels, and the candidates the row yields: none
\* or one. The level of the pyramid is that of the row's number.
Box(sides) ==
  LET level == CHOOSE n \in DOMAIN Contract.strides :
                 GridPoints(Contract, n - 1) <= point /\ point < GridPoints(Contract, n)
      stride == Contract.strides[level]
      grid == DivCeil(Contract.size, stride)
      cell == point - GridPoints(Contract, level - 1)
      x == Center(cell % grid, stride)
      y == Center(cell \div grid, stride)
  IN [x1 |-> Clamp(x - 2 * sides[1] * stride), y1 |-> Clamp(y - 2 * sides[2] * stride),
      x2 |-> Clamp(x + 2 * sides[3] * stride), y2 |-> Clamp(y + 2 * sides[4] * stride)]

Candidates(row) ==
  {[class |-> k, score |-> row.scores[k], ordinal |-> point, box |-> Box(row.sides)] :
     k \in {k \in BestClass(row.scores) :
              /\ row.scores[k] >= ScoreThreshold
              /\ \A side \in 1..4 : row.sides[side] # NotFinite
              /\ Box(row.sides).x1 < Box(row.sides).x2 /\ Box(row.sides).y1 < Box(row.sides).y2}}

DecodeRow ==
  /\ decoding = "rows" /\ point < Contract.points
  /\ \E row \in Rows :
       LET found == SetToSeq(Candidates(row))
       IN scratch' = scratch \o found /\ decoded' = decoded \o found
  /\ point' = point + 1
  /\ UNCHANGED <<capsVars, decoding, index, retained, attached>>

\* detection_order: by score, then class, then ordinal.
Precedes(a, b) ==
  \/ a.score > b.score
  \/ a.score = b.score /\ a.class < b.class
  \/ a.score = b.score /\ a.class = b.class /\ a.ordinal < b.ordinal

\* The order is total: a detection's place is the number of those before it.
Sorted(detections) ==
  [i \in DOMAIN detections |->
     CHOOSE d \in ToSet(detections) :
       Cardinality({e \in ToSet(detections) : Precedes(e, d)}) = i - 1]

SuppressBegins ==
  /\ decoding = "rows" /\ point = Contract.points
  /\ decoding' = "suppressing" /\ index' = 1 /\ retained' = 0
  /\ scratch' = Sorted(scratch)
  /\ UNCHANGED <<capsVars, point, decoded, attached>>

Greater(a, b) == IF a > b THEN a ELSE b
Smaller(a, b) == IF a < b THEN a ELSE b
Area(box) == (box.x2 - box.x1) * (box.y2 - box.y1)
Intersection(a, b) ==
  Greater(0, Smaller(a.x2, b.x2) - Greater(a.x1, b.x1)) *
  Greater(0, Smaller(a.y2, b.y2) - Greater(a.y1, b.y1))
Overlaps(a, b) ==
  LET common == Intersection(a.box, b.box)
  IN a.class = b.class /\ 10 * common > Overlap * (Area(a.box) + Area(b.box) - common)

\* One turn of the loop: the places up to retained hold what is kept, and the
\* candidate goes to the next one, over a candidate already read.
SuppressNext ==
  /\ decoding = "suppressing" /\ index <= Len(scratch) /\ retained < decoder.max
  /\ IF \E i \in 1..retained : Overlaps(scratch[i], scratch[index])
     THEN UNCHANGED <<scratch, retained>>
     ELSE /\ scratch' = [scratch EXCEPT ![retained + 1] = scratch[index]]
          /\ retained' = retained + 1
  /\ index' = index + 1
  /\ UNCHANGED <<capsVars, decoding, point, decoded, attached>>

AttachUncut ==                                  \* mutant: what was read stays
  /\ decoding = "suppressing" /\ (index > Len(scratch) \/ retained = decoder.max)
  /\ attached' = scratch
  /\ decoding' = "idle" /\ index' = 0
  /\ UNCHANGED <<capsVars, point, scratch, decoded, retained>>
\* The vector is cut to what is kept, and each of it attached to the frame.
Attach ==
  /\ decoding = "suppressing" /\ (index > Len(scratch) \/ retained = decoder.max)
  /\ scratch' = SubSeq(scratch, 1, retained)
  /\ attached' = SubSeq(scratch, 1, retained)
  /\ decoding' = "idle" /\ index' = 0
  /\ UNCHANGED <<capsVars, point, decoded, retained>>

Next ==
  \/ SetProperty \/ Start \/ Stop \/ SetCaps
  \/ PassOn \/ DecodeBegins \/ DecodeRow \/ SuppressBegins \/ SuppressNext \/ Attach

Spec == Init /\ [][Next]_vars
-----------------------------------------------------------------------------
\* The rows of every contract the code names are those of its grids.
GridsCover == \A c \in CONTRACTS \cup Contracts : c.points = GridPoints(c, Len(c.strides))

\* Whatever upstream is offered negotiates, as the one contract it was offered
\* for, and downstream then gets what it asked for without the tensor.
NegotiationSound ==
  decoder = Stopped /\ chosen.tensorId # Blank =>
    \A caps \in Structures : \A offer \in Offered(caps) :
      /\ Cardinality(Negotiable(offer)) = 1
      /\ \A n \in Negotiable(offer) : SupportsSize(caps, n.contract.size)
      /\ Forward(offer).nano = Forward(caps).nano /\ Forward(offer).other = caps.other

\* The frame's objects are exactly the greedy choice among this frame's
\* candidates: in order, apart, inside the frame, no more than the maximum,
\* and each candidate that is missing yields to a better one of its class or
\* to a full frame of better ones.
ChoiceIsGreedy ==
  decoding = "idle" =>
    LET kept == ToSet(attached)
    IN /\ kept \subseteq ToSet(decoded)
       /\ decoder # Stopped => Len(attached) <= decoder.max
       /\ \A i, j \in DOMAIN attached : i < j =>
            Precedes(attached[i], attached[j]) /\ ~Overlaps(attached[i], attached[j])
       /\ \A d \in kept : d.box.x1 < d.box.x2 /\ d.box.y1 < d.box.y2
       /\ decoder # Stopped => \A d \in ToSet(decoded) \ kept :
            \/ \E k \in kept : Precedes(k, d) /\ Overlaps(k, d)
            \/ Len(attached) = decoder.max /\ \A k \in kept : Precedes(k, d)

NanoDetConsistent == GridsCover /\ NegotiationSound /\ ChoiceIsGreedy
=============================================================================
