----------------------------- MODULE DataProofs -----------------------------
(***************************************************************************)
(* Proofs about the data paths, for any bytes and delimiters, header names *)
(* and values, contracts and rows, models and model-infos, and frames of   *)
(* any size and stride. The packing rests on arithmetic: where the three   *)
(* values of a pixel go and where they come from, one to one. The          *)
(* inference rests on what start() checks: names bind the inputs of a      *)
(* model to declarations one to one, and shapes agree along the bindings.  *)
(* The metadata, the suppression and the framing rest on induction along a *)
(* sequence, which is proved with a set of numbers for the predicate.      *)
(***************************************************************************)
EXTENDS DataPaths, SequencesExt, FiniteSetTheorems, SequenceTheorems, TLAPS

-----------------------------------------------------------------------------
(***************************************************************************)
(* The packing of frames. A pixel's three values go where no other value   *)
(* goes, and come from bytes that no other comes from: this is arithmetic  *)
(* of sides and strides, which the step that copies a pixel only cites.    *)
(***************************************************************************)
Pixels == task.width * task.height
Sized == task \in Prep!Tasks /\ task.padding >= 0 /\ task.missing = 0
Value(i, channel) ==
  [byte |-> Prep!Offset(i) + Prep!ComponentOf(channel), range |-> Prep!RangeIndex(channel)]

PackingInv ==
  /\ outcome \in {"idle", "copying", "packed", "error"} /\ (outcome = "idle" => pixel = 0)
  /\ outcome \in {"copying", "packed"} =>
       /\ Sized /\ pixel \in 0..Pixels /\ DOMAIN packed = 0..(Pixels * 3 - 1)
       /\ \A i \in 0..(pixel - 1), channel \in 0..2 :
            packed[Prep!Destination(i, channel)] = Value(i, channel)
       /\ outcome = "packed" => pixel = Pixels

\* Quotient and remainder are what they should be, and only they.
LEMMA DivMod ==
  ASSUME NEW w \in Nat \ {0}, NEW e \in Nat
  PROVE  /\ e \div w \in Nat /\ e % w \in 0..(w - 1)
         /\ e = (e \div w) * w + (e % w)
  OBVIOUS

\* A number splits into a multiple of w and a rest below w in one way only.
LEMMA DivUnique ==
  ASSUME NEW w \in Nat \ {0}, NEW y \in Nat, NEW x \in 0..(w - 1), NEW q \in Nat,
         NEW r \in 0..(w - 1), y * w + x = q * w + r
  PROVE  y = q /\ x = r
  <1>1. ASSUME y < q PROVE FALSE
    <2>1. q * w >= (y + 1) * w
      BY <1>1
    <2> QED BY <2>1
  <1>2. ASSUME q < y PROVE FALSE
    <2>1. y * w >= (q + 1) * w
      BY <1>2
    <2> QED BY <2>1
  <1> QED BY <1>1, <1>2

\* The place of a colour that a sequence has once.
LEMMA PlaceOf ==
  ASSUME NEW s, NEW colour, NEW k \in 1..3, s[k] = colour,
         \A j \in 1..3 : s[j] = colour => j = k
  PROVE  Prep!Place(s, colour) = k
  BY DEF Prep!Place

\* What the checks of preprocess() leave.
LEMMA SizedFacts ==
  ASSUME Sized
  PROVE  /\ task.width \in Nat \ {0} /\ task.height \in Nat \ {0} /\ Pixels \in Nat \ {0}
         /\ Prep!BytesPerPixel \in {3, 4} /\ Prep!Stride \in Nat
         /\ Prep!Stride >= task.width * Prep!BytesPerPixel
         /\ Prep!SourceLen = Prep!Stride * task.height
         /\ \A channel \in 0..2 : Prep!ComponentOf(channel) \in 0..2
         /\ \A b, c \in 0..2 : Prep!ComponentOf(b) = Prep!ComponentOf(c) => b = c
  <1>0. Sides \subseteq Nat \ {0} /\ Paddings \subseteq Int
    BY DataPathsAssumption DEF DataPathsAssumption, Prep!FrameAssumption
  <1>1. /\ task.width \in Nat \ {0} /\ task.height \in Nat \ {0} /\ task.padding \in Nat
        /\ task.missing = 0
    <2>1. task.width \in Sides /\ task.height \in Sides /\ task.padding \in Paddings
      BY DEF Sized, Prep!Tasks
    <2>2. task.width \in Nat \ {0} /\ task.height \in Nat \ {0} /\ task.padding \in Int
      BY <1>0, <2>1
    <2>3. task.padding >= 0 /\ task.missing = 0
      BY DEF Sized
    <2> QED BY <2>2, <2>3
  <1>2. Pixels \in Nat \ {0}
    BY <1>1 DEF Pixels
  <1>3. Prep!BytesPerPixel \in {3, 4}
    BY DEF Prep!BytesPerPixel
  <1>4. task.width * Prep!BytesPerPixel \in Nat
    BY <1>1, <1>3
  <1>5. Prep!Stride \in Nat /\ Prep!Stride >= task.width * Prep!BytesPerPixel
    BY <1>1, <1>4 DEF Prep!Stride
  <1>6. Prep!Stride * task.height \in Nat
    BY <1>1, <1>5
  <1>7. Prep!SourceLen = Prep!Stride * task.height
    BY <1>1, <1>6 DEF Prep!SourceLen
  <1>8. /\ \A channel \in 0..2 : Prep!ComponentOf(channel) \in 0..2
        /\ \A b, c \in 0..2 : Prep!ComponentOf(b) = Prep!ComponentOf(c) => b = c
    BY DEF Prep!ComponentOf
  <1> QED BY <1>1, <1>2, <1>3, <1>5, <1>7, <1>8

\* A destination by its pixel and the channel's place.
LEMMA DestinationIs ==
  ASSUME Sized, NEW i \in Nat, NEW c \in 0..2
  PROVE  /\ Prep!DestinationChannel(c) \in 0..2
         /\ Prep!Destination(i, c) = IF task.first THEN Prep!DestinationChannel(c) * Pixels + i
                                ELSE i * 3 + Prep!DestinationChannel(c)
  <1>1. Prep!DestinationChannel(c) \in 0..2
    BY DEF Prep!DestinationChannel
  <1>2. task.width \in Nat /\ task.height \in Nat
    BY SizedFacts
  <1>3. Prep!DestinationChannel(c) * task.width * task.height = Prep!DestinationChannel(c) * Pixels
    BY <1>1, <1>2 DEF Pixels
  <1> QED BY <1>1, <1>3 DEF Prep!Destination

\* Destinations are in the tensor, apart, and all of it.
LEMMA DestinationsAreTheTensor ==
  ASSUME Sized
  PROVE  /\ \A i \in 0..(Pixels - 1), c \in 0..2 : Prep!Destination(i, c) \in 0..(Pixels * 3 - 1)
         /\ \A i, j \in 0..(Pixels - 1), b, c \in 0..2 :
              Prep!Destination(i, b) = Prep!Destination(j, c) => i = j /\ b = c
         /\ \A d \in 0..(Pixels * 3 - 1) :
              \E i \in 0..(Pixels - 1), c \in 0..2 : Prep!Destination(i, c) = d
  <1> DEFINE N == Pixels
  <1>1. N \in Nat \ {0}
    BY SizedFacts
  <1>2. \A i \in 0..(N - 1), c \in 0..2 :
          /\ Prep!DestinationChannel(c) \in 0..2
          /\ Prep!Destination(i, c) = IF task.first THEN Prep!DestinationChannel(c) * N + i
                                 ELSE i * 3 + Prep!DestinationChannel(c)
    BY <1>1, DestinationIs
  <1>3. /\ \A b, c \in 0..2 : Prep!DestinationChannel(b) = Prep!DestinationChannel(c) => b = c
        /\ \A k \in 0..2 : \E c \in 0..2 : Prep!DestinationChannel(c) = k
    <2>1. \A k \in 0..2 : k \in 0..2 /\ 2 - k \in 0..2 /\ 2 - (2 - k) = k
      OBVIOUS
    <2> QED BY <2>1 DEF Prep!DestinationChannel
  <1> HIDE DEF N
  <1>4. \A i \in 0..(N - 1), c \in 0..2 : Prep!Destination(i, c) \in 0..(N * 3 - 1)
    <2> SUFFICES ASSUME NEW i \in 0..(N - 1), NEW c \in 0..2
                 PROVE  Prep!Destination(i, c) \in 0..(N * 3 - 1)
      OBVIOUS
    <2> DEFINE k == Prep!DestinationChannel(c)
    <2>1. k \in {0, 1, 2}
      BY <1>2
    <2>2. /\ k * N + i \in 0..(N * 3 - 1)
          /\ i * 3 + k \in 0..(N * 3 - 1)
      <3> HIDE DEF k
      <3> QED BY <1>1, <2>1
    <2> QED BY <1>2, <2>2
  <1>5. ASSUME NEW i \in 0..(N - 1), NEW j \in 0..(N - 1), NEW b \in 0..2, NEW c \in 0..2,
               Prep!Destination(i, b) = Prep!Destination(j, c)
        PROVE  i = j /\ b = c
    <2> DEFINE k == Prep!DestinationChannel(b)
               l == Prep!DestinationChannel(c)
    <2>1. k \in {0, 1, 2} /\ l \in {0, 1, 2} /\ (k = l => b = c)
      BY <1>2, <1>3
    <2>2. k * N + i = l * N + j \/ i * 3 + k = j * 3 + l
      BY <1>2, <1>5
    <2>3. i = j /\ k = l
      <3> HIDE DEF k, l
      <3> QED BY <1>1, <2>1, <2>2
    <2> QED BY <2>1, <2>3
  <1>6. ASSUME NEW d \in 0..(N * 3 - 1)
        PROVE  \E i \in 0..(N - 1), c \in 0..2 : Prep!Destination(i, c) = d
    <2>1. CASE task.first
      <3>1. \E k \in 0..2, i \in 0..(N - 1) : k * N + i = d
        <4>1. CASE d < N
          BY <1>1, <4>1
        <4>2. CASE N <= d /\ d < 2 * N
          <5>1. d - N \in 0..(N - 1) /\ 1 * N + (d - N) = d
            BY <1>1, <4>2
          <5> QED BY <5>1
        <4>3. CASE 2 * N <= d
          <5>1. d - 2 * N \in 0..(N - 1) /\ 2 * N + (d - 2 * N) = d
            BY <1>1, <4>3
          <5> QED BY <5>1
        <4> QED BY <1>1, <4>1, <4>2, <4>3
      <3>2. PICK k \in 0..2, i \in 0..(N - 1) : k * N + i = d
        BY <3>1
      <3>3. PICK c \in 0..2 : Prep!DestinationChannel(c) = k
        BY <1>3
      <3> QED BY <1>2, <2>1, <3>2, <3>3
    <2>2. CASE ~task.first
      <3>1. /\ d \div 3 \in 0..(N - 1) /\ d % 3 \in 0..2
            /\ (d \div 3) * 3 + (d % 3) = d
        BY <1>1
      <3>2. PICK c \in 0..2 : Prep!DestinationChannel(c) = d % 3
        BY <1>3, <3>1
      <3> QED BY <1>2, <2>2, <3>1, <3>2
    <2> QED BY <2>1, <2>2
  <1> QED BY <1>4, <1>5, <1>6 DEF N

\* The first byte of a pixel, by its row and column.
LEMMA OffsetIs ==
  ASSUME Sized
  PROVE  /\ \A y \in 0..(task.height - 1), x \in 0..(task.width - 1) :
              /\ y * task.width + x \in 0..(Pixels - 1)
              /\ Prep!Offset(y * task.width + x) = y * Prep!Stride + x * Prep!BytesPerPixel
         /\ \A i \in 0..(Pixels - 1) :
              \E y \in 0..(task.height - 1), x \in 0..(task.width - 1) : i = y * task.width + x
  <1> DEFINE w == task.width
             h == task.height
  <1>1. w \in Nat \ {0} /\ h \in Nat \ {0} /\ Pixels = w * h
    BY SizedFacts DEF Pixels
  <1>2. \A i : Prep!Offset(i) = (i \div w) * Prep!Stride + (i % w) * Prep!BytesPerPixel
    BY DEF Prep!Offset
  <1> HIDE DEF w, h
  <1>3. ASSUME NEW y \in 0..(h - 1), NEW x \in 0..(w - 1)
        PROVE  /\ y * w + x \in 0..(Pixels - 1)
               /\ Prep!Offset(y * w + x) = y * Prep!Stride + x * Prep!BytesPerPixel
    <2>1. y * w + x \in Nat
      BY <1>1
    <2>2. (y + 1) * w <= h * w
      BY <1>1
    <2>3. y * w + x <= w * h - 1
      BY <1>1, <2>2
    <2> DEFINE e == y * w + x
    <2>4. e \div w \in Nat /\ e % w \in 0..(w - 1) /\ e = (e \div w) * w + (e % w)
      BY <1>1, <2>1, DivMod
    <2>5. y = e \div w /\ x = e % w
      <3> y \in Nat
        BY <1>1
      <3> QED BY <1>1, <2>4, DivUnique
    <2> QED BY <1>1, <1>2, <2>1, <2>3, <2>5
  <1>4. ASSUME NEW i \in 0..(Pixels - 1)
        PROVE  \E y \in 0..(h - 1), x \in 0..(w - 1) : i = y * w + x
    <2>1. i \in Nat /\ i < w * h
      BY <1>1
    <2>2. i \div w \in Nat /\ i % w \in 0..(w - 1) /\ i = (i \div w) * w + (i % w)
      BY <1>1, <2>1, DivMod
    <2>3. i \div w < h
      <3> DEFINE q == i \div w
      <3>1. q \in Nat /\ q * w < w * h
        BY <1>1, <2>1, <2>2
      <3> HIDE DEF q
      <3>2. ASSUME q >= h PROVE FALSE
        <4>1. q * w >= h * w
          BY <1>1, <3>1, <3>2
        <4> QED BY <1>1, <3>1, <4>1
      <3>3. q < h
        BY <1>1, <3>1, <3>2
      <3> QED BY <3>3 DEF q
    <2>4. i \div w \in 0..(h - 1)
      BY <1>1, <2>2, <2>3
    <2> QED BY <2>2, <2>4
  <1> QED BY <1>3, <1>4 DEF w, h

\* Bytes are in the frame, and no two values are of one.
LEMMA BytesAreApart ==
  ASSUME Sized
  PROVE  /\ \A i \in 0..(Pixels - 1), c \in 0..2 :
              Prep!Offset(i) + Prep!ComponentOf(c) \in 0..(Prep!SourceLen - 1)
         /\ \A i, j \in 0..(Pixels - 1), b, c \in 0..2 :
              Prep!Offset(i) + Prep!ComponentOf(b) = Prep!Offset(j) + Prep!ComponentOf(c) => i = j /\ b = c
  <1> DEFINE w == task.width
             h == task.height
             s == Prep!Stride
             p == Prep!BytesPerPixel
  <1>1. /\ w \in Nat \ {0} /\ h \in Nat \ {0} /\ s \in Nat \ {0} /\ p \in {3, 4} /\ w * p <= s
        /\ Prep!SourceLen = s * h
    BY SizedFacts
  <1>2. /\ \A c \in 0..2 : Prep!ComponentOf(c) \in 0..2
        /\ \A b, c \in 0..2 : Prep!ComponentOf(b) = Prep!ComponentOf(c) => b = c
    BY SizedFacts
  <1>3. \A i \in 0..(Pixels - 1) : \E y \in 0..(h - 1), x \in 0..(w - 1) :
          i = y * w + x /\ Prep!Offset(i) = y * s + x * p
    BY OffsetIs
  <1> HIDE DEF w, h, s, p
  <1>4. \A x \in 0..(w - 1), k \in 0..2 : x * p + k \in 0..(s - 1)
    <2> SUFFICES ASSUME NEW x \in 0..(w - 1), NEW k \in 0..2
                 PROVE  x * p + k \in 0..(s - 1)
      OBVIOUS
    <2>1. x * p + k \in Nat
      BY <1>1
    <2>2. (x + 1) * p <= w * p
      BY <1>1
    <2> QED BY <1>1, <2>1, <2>2
  <1>5. ASSUME NEW i \in 0..(Pixels - 1), NEW c \in 0..2
        PROVE  Prep!Offset(i) + Prep!ComponentOf(c) \in 0..(Prep!SourceLen - 1)
    <2>1. PICK y \in 0..(h - 1), x \in 0..(w - 1) : Prep!Offset(i) = y * s + x * p
      BY <1>3
    <2>2. x * p + Prep!ComponentOf(c) \in 0..(s - 1)
      BY <1>2, <1>4
    <2>3. x * p \in Nat /\ Prep!ComponentOf(c) \in 0..2 /\ y * s \in Nat
      BY <1>1, <1>2
    <2>4. (y + 1) * s <= h * s
      BY <1>1
    <2>5. (y + 1) * s = y * s + s /\ h * s = s * h
      BY <1>1
    <2> QED BY <1>1, <2>1, <2>2, <2>3, <2>4, <2>5
  <1>6. ASSUME NEW i \in 0..(Pixels - 1), NEW j \in 0..(Pixels - 1), NEW b \in 0..2, NEW c \in 0..2,
               Prep!Offset(i) + Prep!ComponentOf(b) = Prep!Offset(j) + Prep!ComponentOf(c)
        PROVE  i = j /\ b = c
    <2>1. PICK y \in 0..(h - 1), x \in 0..(w - 1) : i = y * w + x /\ Prep!Offset(i) = y * s + x * p
      BY <1>3
    <2>2. PICK v \in 0..(h - 1), u \in 0..(w - 1) : j = v * w + u /\ Prep!Offset(j) = v * s + u * p
      BY <1>3
    <2> DEFINE m == Prep!ComponentOf(b)
               n == Prep!ComponentOf(c)
    <2>3. m \in 0..2 /\ n \in 0..2 /\ (m = n => b = c)
      BY <1>2
    <2>4. y * s + x * p + m = v * s + u * p + n
      BY <1>6, <2>1, <2>2
    <2> HIDE DEF m, n
    <2>5. x * p + m \in 0..(s - 1) /\ u * p + n \in 0..(s - 1)
      BY <1>4, <2>3
    <2>6. y * s + (x * p + m) = v * s + (u * p + n)
      BY <1>1, <2>3, <2>4
    <2>7. y = v /\ x * p + m = u * p + n
      <3> y \in Nat /\ v \in Nat
        BY <1>1
      <3> QED BY <1>1, <2>5, <2>6, DivUnique
    <2>8. x = u /\ m = n
      BY <1>1, <2>3, <2>7
    <2> QED BY <2>1, <2>2, <2>3, <2>7, <2>8
  <1> QED BY <1>5, <1>6

\* A pixel's colour and the channel that carries it: the element that it is due,
\* the byte that it is and the range that scales it.
Channel(colour) == IF colour = "R" THEN 0 ELSE IF colour = "G" THEN 1 ELSE 2

\* The channel of a colour, seen from the tensor's order and from the frame's format.
LEMMA ColourPlaces ==
  ASSUME Sized, NEW colour \in Prep!Colours
  PROVE  /\ Channel(colour) \in 0..2
         /\ Prep!Place(Prep!MemoryOrder["RGB"], colour) - 1 = Channel(colour)
         /\ Prep!Place(Prep!MemoryOrder[task.order], colour) - 1 = Prep!DestinationChannel(Channel(colour))
         /\ Prep!Place(Prep!MemoryOrder[task.format], colour) - 1 = Prep!ComponentOf(Channel(colour))
  <1> DEFINE rgb == <<"R", "G", "B">>
             bgr == <<"B", "G", "R">>
  <1>1. /\ Channel(colour) \in 0..2 /\ Channel(colour) + 1 \in 1..3 /\ 3 - Channel(colour) \in 1..3
        /\ rgb[Channel(colour) + 1] = colour /\ bgr[3 - Channel(colour)] = colour
    BY DEF Channel, Prep!Colours
  <1>2. /\ \A j \in 1..3 : rgb[j] = colour => j = Channel(colour) + 1
        /\ \A j \in 1..3 : bgr[j] = colour => j = 3 - Channel(colour)
    BY DEF Channel, Prep!Colours
  <1>3. /\ Prep!Place(rgb, colour) = Channel(colour) + 1
        /\ Prep!Place(bgr, colour) = 3 - Channel(colour)
    <2> HIDE DEF rgb, bgr
    <2> QED BY <1>1, <1>2, PlaceOf
  <1>4. /\ Prep!MemoryOrder["RGB"] = rgb /\ Prep!MemoryOrder["BGR"] = bgr
        /\ Prep!MemoryOrder["RGBA"] = rgb /\ Prep!MemoryOrder["BGRA"] = bgr
    BY DEF Prep!MemoryOrder
  <1>5. task.order \in {"RGB", "BGR"} /\ task.format \in {"RGB", "BGR", "RGBA", "BGRA"}
    BY DEF Sized, Prep!Tasks, Prep!PixelFormats
  <1> HIDE DEF rgb, bgr
  <1>6. Prep!Place(Prep!MemoryOrder[task.order], colour) - 1 = Prep!DestinationChannel(Channel(colour))
    BY <1>1, <1>3, <1>4, <1>5 DEF Prep!DestinationChannel
  <1>7. Prep!Place(Prep!MemoryOrder[task.format], colour) - 1 = Prep!ComponentOf(Channel(colour))
    BY <1>1, <1>3, <1>4, <1>5 DEF Prep!ComponentOf
  <1> QED BY <1>1, <1>3, <1>4, <1>6, <1>7

\* What the code writes at a pixel is what the tensor's layout wants there.
LEMMA ElementIs ==
  ASSUME Sized, NEW y \in 0..(task.height - 1), NEW x \in 0..(task.width - 1),
         NEW colour \in Prep!Colours
  PROVE  /\ Prep!Element(colour, y, x) = Prep!Destination(y * task.width + x, Channel(colour))
         /\ Value(y * task.width + x, Channel(colour)) =
              [byte |-> y * Prep!Stride + x * Prep!BytesPerPixel
                          + Prep!Place(Prep!MemoryOrder[task.format], colour) - 1,
               range |-> IF task.type = "uint8" THEN Prep!UnscaledRange
                         ELSE IF task.ranges = 1 THEN 0
                         ELSE Prep!Place(Prep!MemoryOrder["RGB"], colour) - 1]
  <1> DEFINE w == task.width
             h == task.height
             i == y * w + x
             k == Prep!DestinationChannel(Channel(colour))
  <1>1. /\ Channel(colour) \in 0..2
        /\ Prep!Place(Prep!MemoryOrder["RGB"], colour) - 1 = Channel(colour)
        /\ Prep!Place(Prep!MemoryOrder[task.order], colour) - 1 = k
        /\ Prep!Place(Prep!MemoryOrder[task.format], colour) - 1 = Prep!ComponentOf(Channel(colour))
    BY ColourPlaces
  <1>2. w \in Nat \ {0} /\ h \in Nat \ {0} /\ Pixels = w * h
    BY SizedFacts DEF Pixels
  <1>3. i \in 0..(Pixels - 1) /\ Prep!Offset(i) = y * Prep!Stride + x * Prep!BytesPerPixel
    BY OffsetIs
  <1>4. i \in Nat
    BY <1>2, <1>3
  <1>5. k \in 0..2 /\ Prep!Destination(i, Channel(colour)) = IF task.first THEN k * Pixels + i ELSE i * 3 + k
    BY <1>1, <1>4, DestinationIs
  <1>6. Prep!Element(colour, y, x) = IF task.first THEN (k * h + y) * w + x ELSE i * 3 + k
    BY <1>1 DEF Prep!Element
  <1>7. (k * h + y) * w + x = k * Pixels + i
    <2> HIDE DEF k, w, h
    <2>1. k \in Nat /\ y \in Nat /\ x \in Nat
      BY <1>2, <1>5
    <2>2. (k * h + y) * w = k * (w * h) + y * w
      BY <1>2, <2>1
    <2> QED BY <1>2, <2>1, <2>2
  <1>8. Prep!Element(colour, y, x) = Prep!Destination(i, Channel(colour))
    BY <1>5, <1>6, <1>7
  <1>9. Prep!Offset(i) + Prep!ComponentOf(Channel(colour)) =
          y * Prep!Stride + x * Prep!BytesPerPixel + Prep!Place(Prep!MemoryOrder[task.format], colour) - 1
    <2> DEFINE q == Prep!Place(Prep!MemoryOrder[task.format], colour)
               o == y * Prep!Stride + x * Prep!BytesPerPixel
    <2>1. q - 1 \in 0..2 /\ o \in Int /\ Prep!Offset(i) + (q - 1) = o + (q - 1)
      <3>1. Prep!ComponentOf(Channel(colour)) \in 0..2 /\ Prep!Stride \in Int /\ Prep!BytesPerPixel \in Int
        BY <1>1, SizedFacts
      <3>2. y \in Int /\ x \in Int
        OBVIOUS
      <3>3. o \in Int
        BY <3>1, <3>2
      <3>4. q - 1 = Prep!ComponentOf(Channel(colour)) /\ Prep!Offset(i) = o
        BY <1>1, <1>3
      <3> HIDE DEF q, o, i
      <3> QED BY <3>1, <3>3, <3>4
    <2>2. q \in Int
      <3>1. \E n \in 1..3 : Prep!MemoryOrder[task.format][n] = colour
        <4>1. task.format \in {"RGB", "BGR", "RGBA", "BGRA"}
          BY DEF Sized, Prep!Tasks, Prep!PixelFormats
        <4> QED BY <4>1 DEF Prep!MemoryOrder, Prep!Colours
      <3> QED BY <3>1 DEF Prep!Place
    <2> HIDE DEF q, o
    <2>3. o + (q - 1) = o + q - 1
      BY <2>1, <2>2
    <2> QED BY <1>1, <2>1, <2>3 DEF q, o
  <1>10. Prep!RangeIndex(Channel(colour)) =
           IF task.type = "uint8" THEN Prep!UnscaledRange ELSE IF task.ranges = 1 THEN 0
           ELSE Prep!Place(Prep!MemoryOrder["RGB"], colour) - 1
    BY <1>1 DEF Prep!RangeIndex
  <1> QED BY <1>8, <1>9, <1>10 DEF Value

\* What the invariant of the packing says of its tensor.
LEMMA PackingIsFaithful ==
  ASSUME PackingInv
  PROVE  Prep!PackingFaithful
  <1>1. ASSUME outcome \in {"copying", "packed"}, NEW y \in 0..(task.height - 1),
               NEW x \in 0..(task.width - 1), NEW colour \in Prep!Colours, y * task.width + x < pixel
        PROVE  packed[Prep!Element(colour, y, x)] =
                 [byte |-> y * Prep!Stride + x * Prep!BytesPerPixel
                             + Prep!Place(Prep!MemoryOrder[task.format], colour) - 1,
                  range |-> IF task.type = "uint8" THEN Prep!UnscaledRange
                            ELSE IF task.ranges = 1 THEN 0
                            ELSE Prep!Place(Prep!MemoryOrder["RGB"], colour) - 1]
    <2>1. Sized /\ pixel \in Nat
      BY <1>1, SizedFacts DEF PackingInv
    <2>2. y * task.width + x \in 0..(pixel - 1)
      <3>1. y * task.width + x \in 0..(Pixels - 1)
        BY <2>1, OffsetIs
      <3> QED BY <1>1, <2>1, <3>1, SizedFacts
    <2>3. Channel(colour) \in 0..2
      BY <2>1, ColourPlaces
    <2>4. packed[Prep!Destination(y * task.width + x, Channel(colour))] =
            Value(y * task.width + x, Channel(colour))
      BY <1>1, <2>2, <2>3 DEF PackingInv
    <2> QED BY <2>1, <2>4, ElementIs
  <1>2. ASSUME outcome = "packed"
        PROVE  /\ \A d \in DOMAIN packed : packed[d] # Prep!Unwritten /\ packed[d].byte < Prep!SourceLen
               /\ Cardinality({packed[d].byte : d \in DOMAIN packed}) = 3 * task.width * task.height
    <2> DEFINE D == 0..(Pixels * 3 - 1)
               T == {packed[d].byte : d \in D}
               f == [d \in D |-> packed[d].byte]
    <2>1. Sized /\ DOMAIN packed = D
      BY <1>2 DEF PackingInv
    <2>2. Pixels \in Nat \ {0} /\ Prep!SourceLen \in Nat
      <3>1. /\ Pixels \in Nat \ {0} /\ Prep!SourceLen = Prep!Stride * task.height
            /\ Prep!Stride \in Nat /\ task.height \in Nat
        BY <2>1, SizedFacts
      <3> QED BY <3>1
    <2>3. \A i \in 0..(Pixels - 1), c \in 0..2 : packed[Prep!Destination(i, c)] = Value(i, c)
      BY <1>2 DEF PackingInv
    <2>4. \A d \in D : \E i \in 0..(Pixels - 1), c \in 0..2 :
            Prep!Destination(i, c) = d /\ packed[d] = Value(i, c)
      BY <2>1, <2>3, DestinationsAreTheTensor
    <2>5. \A d \in D : /\ packed[d].byte \in 0..(Prep!SourceLen - 1)
                       /\ packed[d] # Prep!Unwritten
      <3> SUFFICES ASSUME NEW d \in D
                   PROVE  packed[d].byte \in 0..(Prep!SourceLen - 1) /\ packed[d] # Prep!Unwritten
        OBVIOUS
      <3>1. PICK i \in 0..(Pixels - 1), c \in 0..2 : packed[d] = Value(i, c)
        BY <2>4
      <3>2. packed[d].byte \in 0..(Prep!SourceLen - 1)
        BY <2>1, <3>1, BytesAreApart DEF Value
      <3>3. packed[d].byte # -1
        BY <2>2, <3>2
      <3> QED BY <3>2, <3>3 DEF Prep!Unwritten
    <2>6. ASSUME NEW d \in D, NEW e \in D, packed[d].byte = packed[e].byte
          PROVE  d = e
      <3>1. PICK i \in 0..(Pixels - 1), b \in 0..2 :
              Prep!Destination(i, b) = d /\ packed[d] = Value(i, b)
        BY <2>4
      <3>2. PICK j \in 0..(Pixels - 1), c \in 0..2 :
              Prep!Destination(j, c) = e /\ packed[e] = Value(j, c)
        BY <2>4
      <3>3. Prep!Offset(i) + Prep!ComponentOf(b) = Prep!Offset(j) + Prep!ComponentOf(c)
        BY <2>6, <3>1, <3>2 DEF Value
      <3>4. i = j /\ b = c
        BY <2>1, <3>3, BytesAreApart
      <3> QED BY <3>1, <3>2, <3>4
    <2>7. f \in Bijection(D, T)
      <3>1. f \in [D -> T] /\ \A t \in T : \E d \in D : f[d] = t
        OBVIOUS
      <3>2. \A d, e \in D : f[d] = f[e] => d = e
        BY <2>6
      <3> HIDE DEF f, T, D
      <3>3. f \in Injection(D, T)
        BY <3>1, <3>2 DEF Injection, IsInjective
      <3>4. f \in Surjection(D, T)
        BY <3>1 DEF Surjection
      <3> QED BY <3>3, <3>4 DEF Bijection
    <2>8. IsFiniteSet(D) /\ Cardinality(D) = Pixels * 3
      <3> HIDE DEF D
      <3>1. Pixels * 3 - 1 \in Int /\ 0 <= Pixels * 3 - 1 /\ (Pixels * 3 - 1) - 0 + 1 = Pixels * 3
        BY <2>2
      <3> QED BY <3>1, FS_Interval DEF D
    <2>9. Cardinality(T) = Pixels * 3
      <3> HIDE DEF D, T, f
      <3> QED BY <2>7, <2>8, FS_Bijection DEF ExistsBijection
    <2>10. Pixels * 3 = 3 * task.width * task.height
      <3>1. task.width \in Nat /\ task.height \in Nat
        BY <2>1, SizedFacts
      <3> QED BY <3>1 DEF Pixels
    <2>11. \A d \in D : packed[d].byte < Prep!SourceLen
      BY <2>2, <2>5
    <2> QED BY <2>1, <2>5, <2>9, <2>10, <2>11
  <1>3. outcome \in {"copying", "packed"} =>
          \A y \in 0..(task.height - 1), x \in 0..(task.width - 1), colour \in Prep!Colours :
            y * task.width + x < pixel =>
              packed[Prep!Element(colour, y, x)] =
                [byte |-> y * Prep!Stride + x * Prep!BytesPerPixel
                            + Prep!Place(Prep!MemoryOrder[task.format], colour) - 1,
                 range |-> IF task.type = "uint8" THEN Prep!UnscaledRange
                           ELSE IF task.ranges = 1 THEN 0
                           ELSE Prep!Place(Prep!MemoryOrder["RGB"], colour) - 1]
    BY <1>1
  <1>4. outcome = "packed" =>
          /\ \A d \in DOMAIN packed : packed[d] # Prep!Unwritten /\ packed[d].byte < Prep!SourceLen
          /\ Cardinality({packed[d].byte : d \in DOMAIN packed}) = 3 * task.width * task.height
    BY <1>2
  <1>5. \A S : Prep!Cardinality(S) = Cardinality(S)
    BY DEF Prep!Cardinality, Cardinality
  <1> QED BY <1>3, <1>4, <1>5 DEF Prep!PackingFaithful

\* Before a packing nothing is copied.
LEMMA PackingStarts ==
  Prep!Init => PackingInv
  BY DEF Prep!Init, PackingInv

\* A step of the packing.
LEMMA PackingSteps ==
  PackingInv /\ Prep!Next => PackingInv'
  <1> SUFFICES ASSUME PackingInv, Prep!Next
               PROVE  PackingInv'
    OBVIOUS
  <1>1. CASE Prep!Begin
    <2>1. outcome = "idle" /\ pixel = 0 /\ pixel' = 0
      BY <1>1 DEF Prep!Begin, PackingInv
    <2>2. CASE outcome' = "error"
      BY <2>2 DEF PackingInv
    <2>3. CASE outcome' = "copying"
      <3>1. /\ task' \in Prep!Tasks /\ task'.missing >= 0
            /\ ~(task'.padding < 0 \/ task'.missing > 0)
            /\ packed' = [d \in 0..(task'.width * task'.height * 3 - 1) |-> Prep!Unwritten]
        BY <1>1, <2>3 DEF Prep!Begin
      <3>2. task'.padding \in Int /\ task'.missing \in Int
        <4>1. task'.padding \in Paddings /\ task'.missing \in Paddings
          BY <3>1 DEF Prep!Tasks
        <4> QED BY <4>1, DataPathsAssumption DEF DataPathsAssumption, Prep!FrameAssumption
      <3>3. task'.padding >= 0 /\ task'.missing = 0
        BY <3>1, <3>2
      <3>4. Sized'
        BY <3>1, <3>3 DEF Sized, Prep!Tasks, Prep!PixelFormats
      <3>5. Pixels' \in Nat \ {0}
        <4>1. task'.width \in Nat \ {0} /\ task'.height \in Nat \ {0}
          <5>1. task'.width \in Sides /\ task'.height \in Sides
            BY <3>1 DEF Prep!Tasks
          <5> QED BY <5>1, DataPathsAssumption DEF DataPathsAssumption, Prep!FrameAssumption
        <4> QED BY <4>1 DEF Pixels
      <3>6. pixel' \in 0..Pixels' /\ ~\E i : i \in 0..(pixel' - 1)
        BY <2>1, <3>5
      <3>7. DOMAIN packed' = 0..(Pixels' * 3 - 1)
        BY <3>1 DEF Pixels
      <3> QED BY <2>3, <3>4, <3>6, <3>7 DEF PackingInv
    <2> QED BY <1>1, <2>2, <2>3 DEF Prep!Begin
  <1>2. CASE Prep!CopyPixel
    <2>1. /\ outcome = "copying" /\ outcome' = outcome /\ task' = task /\ pixel' = pixel + 1
          /\ pixel < Pixels
      BY <1>2 DEF Prep!CopyPixel, Pixels
    <2>2. Sized /\ pixel \in 0..Pixels /\ DOMAIN packed = 0..(Pixels * 3 - 1)
      BY <2>1 DEF PackingInv
    <2>3. \A i \in 0..(pixel - 1), c \in 0..2 : packed[Prep!Destination(i, c)] = Value(i, c)
      BY <2>1 DEF PackingInv
    <2>4. Pixels \in Nat
      BY <2>2, SizedFacts
    <2>5. DOMAIN packed' = DOMAIN packed
      BY <1>2 DEF Prep!CopyPixel
    <2>6. ASSUME NEW i \in 0..pixel, NEW c \in 0..2
          PROVE  packed'[Prep!Destination(i, c)] = Value(i, c)
      <3> DEFINE d == Prep!Destination(i, c)
      <3>1. pixel \in 0..(Pixels - 1) /\ i \in 0..(Pixels - 1)
        BY <2>1, <2>2, <2>4
      <3>2. d \in DOMAIN packed
        BY <2>2, <3>1, DestinationsAreTheTensor
      <3>3. packed'[d] =
              IF \E channel \in 0..2 : Prep!Destination(pixel, channel) = d
              THEN Value(pixel, CHOOSE channel \in 0..2 : Prep!Destination(pixel, channel) = d)
              ELSE packed[d]
        <4> HIDE DEF d
        <4> QED BY <1>2, <3>2 DEF Prep!CopyPixel, Value
      <3>4. \A channel \in 0..2 : Prep!Destination(pixel, channel) = d => pixel = i /\ channel = c
        <4>1. \A j, k \in 0..(Pixels - 1), a, b \in 0..2 :
                Prep!Destination(j, a) = Prep!Destination(k, b) => j = k /\ a = b
          BY <2>2, DestinationsAreTheTensor
        <4> QED BY <3>1, <4>1
      <3>5. CASE i = pixel
        <4> DEFINE b == CHOOSE channel \in 0..2 : Prep!Destination(pixel, channel) = d
        <4>1. \E channel \in 0..2 : Prep!Destination(pixel, channel) = d
          BY <3>5
        <4>2. b \in 0..2 /\ Prep!Destination(pixel, b) = d
          <5> HIDE DEF d
          <5> QED BY <4>1
        <4>3. b = c
          <5> HIDE DEF b, d
          <5> QED BY <3>4, <4>2
        <4>4. packed'[d] = Value(pixel, b)
          BY <3>3, <4>1
        <4> HIDE DEF b
        <4> QED BY <3>5, <4>3, <4>4
      <3>6. CASE i # pixel
        <4>1. ~\E channel \in 0..2 : Prep!Destination(pixel, channel) = d
          BY <3>4, <3>6
        <4>2. packed'[d] = packed[d]
          BY <3>3, <4>1
        <4>3. i \in 0..(pixel - 1)
          BY <2>2, <2>4, <3>6
        <4> QED BY <2>3, <4>2, <4>3
      <3> QED BY <3>5, <3>6
    <2>7. Sized' /\ Pixels' = Pixels /\ \A i, c : /\ Prep!Destination(i, c)' = Prep!Destination(i, c)
                                                  /\ Value(i, c)' = Value(i, c)
      BY <2>1, <2>2
        DEF Sized, Prep!Tasks, Prep!PixelFormats, Pixels, Prep!Destination, Prep!DestinationChannel,
            Value, Prep!Offset,
      Prep!ComponentOf, Prep!RangeIndex, Prep!Stride, Prep!BytesPerPixel
    <2>8. pixel' \in 0..Pixels /\ 0..(pixel' - 1) = 0..pixel
      BY <2>1, <2>2, <2>4
    <2>9. \A i \in 0..(pixel' - 1), c \in 0..2 : packed'[Prep!Destination(i, c)'] = Value(i, c)'
      BY <2>6, <2>7, <2>8
    <2> QED BY <2>1, <2>2, <2>5, <2>7, <2>8, <2>9 DEF PackingInv
  <1>3. CASE Prep!Pack
    BY <1>3
      DEF Prep!Pack, PackingInv, Sized, Pixels, Value, Prep!Tasks, Prep!PixelFormats, Prep!Destination,
    Prep!DestinationChannel, Prep!Offset, Prep!ComponentOf, Prep!RangeIndex, Prep!Stride, Prep!BytesPerPixel
  <1> QED BY <1>1, <1>2, <1>3 DEF Prep!Next

-----------------------------------------------------------------------------
(***************************************************************************)
(* The inference elements. A plan binds names one to one, so what comes by *)
(* name into a slot, and by id out of the buffer, is what the model means. *)
(***************************************************************************)
PlanLoaded ==
  /\ plan.engine \in {"tract", "ort"} /\ plan.mode \in {"video", "tensor"}
  /\ plan.model \in Models /\ plan.info \in Infos
  /\ Nets!Binds(plan.model, plan.info) /\ plan.slots = Nets!Slots(plan.model, plan.info)
  /\ plan.mode = "video" => Nets!ParsesImage(plan.info)
  /\ plan.engine = "tract" =>
       ~Nets!Wild(plan.info.inputs \o plan.info.outputs) /\ plan.outputs = plan.info.outputs
  /\ plan.engine = "ort" => plan.outputs = Nets!Constrained(plan.model, plan.info)

EnginesInv ==
  /\ props.engine \in {"tract", "ort"} /\ props.mode \in {"video", "tensor"}
  /\ props.model \in Models /\ props.info \in Infos
  /\ plan = Nets!Unloaded => video = Nets!NoVideo /\ frame = Nets!NoFrame
  /\ plan # Nets!Unloaded => PlanLoaded
  /\ video # Nets!NoVideo =>
       plan.mode = "video" /\ video = [width |-> Nets!Image.width, height |-> Nets!Image.height]
  /\ Nets!InputsByName /\ Nets!OutputsDeclared

\* Sequences as functions.
LEMMA SeqFacts ==
  ASSUME NEW n \in Nat, NEW f, f = [i \in 1..n |-> f[i]]
  PROVE  f \in Seq({f[i] : i \in 1..n}) /\ Len(f) = n
  <1> DEFINE S == {f[i] : i \in 1..n}
  <1>1. f \in [1..n -> S]
    OBVIOUS
  <1> HIDE DEF S
  <1> QED BY <1>1 DEF S

\* A set of no more than one element has only one.
LEMMA AtMostOne ==
  ASSUME NEW S, IsFiniteSet(S), ~(Cardinality(S) > 1), NEW x \in S, NEW y \in S
  PROVE  x = y
  <1> SUFFICES ASSUME x # y PROVE FALSE
    OBVIOUS
  <1>1. Cardinality({x, y}) = 2
    <2>1. IsFiniteSet({x}) /\ Cardinality({x}) = 1
      BY FS_Singleton
    <2>2. Cardinality({x} \union {y}) = Cardinality({x}) + 1
      BY <2>1, FS_AddElement
    <2>3. {x} \union {y} = {x, y}
      OBVIOUS
    <2> QED BY <2>1, <2>2, <2>3
  <1>2. Cardinality({x, y}) <= Cardinality(S)
    BY FS_Subset
  <1>3. Cardinality(S) \in Nat
    BY FS_CardinalityType
  <1> QED BY <1>1, <1>2, <1>3

\* What the models and the model-infos are.
LEMMA EntriesFacts ==
  ASSUME NEW entries, Nets!NamedApart(entries)
  PROVE  /\ Len(entries) \in Nat /\ DOMAIN entries = 1..Len(entries)
         /\ \A i \in DOMAIN entries : entries[i].dims \in Seq(Int)
         /\ \A i, j \in DOMAIN entries : entries[i].name = entries[j].name => i = j
  <1>1. entries \in Seq(Nets!ToSet(entries))
    BY DEF Nets!NamedApart
  <1>2. Len(entries) \in Nat /\ DOMAIN entries = 1..Len(entries)
    BY <1>1
  <1>3. \A i \in DOMAIN entries : entries[i] \in Nets!ToSet(entries)
    BY DEF Nets!ToSet
  <1> QED BY <1>2, <1>3 DEF Nets!NamedApart

\* The names of a loaded plan's model and model-info tell their entries apart.
LEMMA LoadedFacts ==
  ASSUME PlanLoaded
  PROVE  /\ Nets!NamedApart(plan.model.inputs) /\ Nets!NamedApart(plan.model.outputs)
         /\ Nets!NamedApart(plan.info.inputs) /\ Nets!NamedApart(plan.info.outputs)
         /\ \A j \in DOMAIN plan.info.outputs :
              DOMAIN plan.info.outputs[j] = {"name", "id", "type", "dims"}
  <1>1. Nets!ModelsAssumption
    BY DataPathsAssumption DEF DataPathsAssumption
  <1>2. \A j \in DOMAIN plan.info.outputs : plan.info.outputs[j] \in Nets!ToSet(plan.info.outputs)
    BY DEF Nets!ToSet
  <1> QED BY <1>1, <1>2 DEF Nets!ModelsAssumption, PlanLoaded

\* A slot of the plan is the one declaration of its input's name.
LEMMA SlotsAreBound ==
  ASSUME PlanLoaded
  PROVE  /\ DOMAIN plan.slots = DOMAIN plan.model.inputs
         /\ \A i \in DOMAIN plan.model.inputs :
              /\ plan.slots[i] \in DOMAIN Nets!Inputs
              /\ Nets!Inputs[plan.slots[i]].name = plan.model.inputs[i].name
              /\ Nets!Fits(plan.model.inputs[i], Nets!Inputs[plan.slots[i]])
  <1> DEFINE m == plan.model.inputs
             d == plan.info.inputs
  <1>1. Nets!NamedApart(m) /\ Nets!NamedApart(d)
    BY LoadedFacts
  <1>2. DOMAIN d = 1..Len(d) /\ Len(d) \in Nat
        /\ \A i, j \in DOMAIN d : d[i].name = d[j].name => i = j
    BY <1>1, EntriesFacts
  <1>3. plan.slots = [i \in DOMAIN m |->
                        CHOOSE j \in Nets!Named(d, m[i].name) :
                          \A k \in Nets!Named(d, m[i].name) : j <= k]
    BY DEF PlanLoaded, Nets!Slots
  <1>4. \A i \in DOMAIN m : \E j \in Nets!Named(d, m[i].name) : Nets!Fits(m[i], d[j])
    BY DEF PlanLoaded, Nets!Binds
  <1> HIDE DEF m, d
  <1>5. ASSUME NEW i \in DOMAIN m
        PROVE  /\ plan.slots[i] \in DOMAIN d /\ d[plan.slots[i]].name = m[i].name
               /\ Nets!Fits(m[i], d[plan.slots[i]])
    <2> DEFINE N == Nets!Named(d, m[i].name)
               s == CHOOSE j \in N : \A k \in N : j <= k
    <2>1. PICK j \in N : Nets!Fits(m[i], d[j])
      BY <1>4
    <2>2. \A k \in N : k \in DOMAIN d /\ d[k].name = m[i].name
      BY DEF Nets!Named
    <2>3. \A k \in N : k = j
      BY <1>2, <2>2
    <2>4. j <= j
      BY <1>2, <2>2
    <2>5. \E l \in N : \A k \in N : l <= k
      BY <2>3, <2>4
    <2> HIDE DEF N
    <2>6. s \in N
      BY <2>5
    <2>7. plan.slots[i] = s
      BY <1>3 DEF N
    <2> QED BY <2>1, <2>2, <2>3, <2>6, <2>7
  <1> QED BY <1>3, <1>5 DEF m, d, Nets!Inputs

\* As many as the declarations, and each of them once.
LEMMA SlotsAreExact ==
  ASSUME PlanLoaded
  PROVE  /\ plan.slots \in Seq(DOMAIN Nets!Inputs) /\ Len(plan.slots) = Len(Nets!Inputs)
         /\ Nets!ToSet(plan.slots) = DOMAIN Nets!Inputs
         /\ Len(plan.model.inputs) = Len(Nets!Inputs)
  <1> DEFINE m == plan.model.inputs
             d == Nets!Inputs
             s == plan.slots
  <1>1. Nets!NamedApart(m) /\ Nets!NamedApart(d)
    BY LoadedFacts DEF Nets!Inputs
  <1>2. /\ DOMAIN m = 1..Len(m) /\ Len(m) \in Nat
        /\ \A i, j \in DOMAIN m : m[i].name = m[j].name => i = j
        /\ DOMAIN d = 1..Len(d) /\ Len(d) \in Nat
        /\ \A i, j \in DOMAIN d : d[i].name = d[j].name => i = j
    BY <1>1, EntriesFacts
  <1>3. /\ DOMAIN s = DOMAIN m /\ s = [i \in DOMAIN m |-> s[i]]
        /\ \A i \in DOMAIN m : s[i] \in DOMAIN d /\ d[s[i]].name = m[i].name
    BY SlotsAreBound DEF PlanLoaded, Nets!Slots
  <1>4. \A j \in DOMAIN d : \E i \in DOMAIN m : m[i].name = d[j].name
    <2>1. \A j \in DOMAIN plan.info.inputs :
            Nets!Named(plan.model.inputs, plan.info.inputs[j].name) # {}
      BY DEF PlanLoaded, Nets!Binds
    <2> QED BY <2>1 DEF Nets!Inputs, Nets!Named
  <1> HIDE DEF m, d, s
  <1>5. s \in [1..Len(m) -> 1..Len(d)]
    BY <1>2, <1>3
  <1>6. s \in Seq(DOMAIN d) /\ Len(s) = Len(m)
    BY <1>2, <1>5
  <1>7. \A j \in DOMAIN d : \E i \in DOMAIN m : s[i] = j
    <2> SUFFICES ASSUME NEW j \in DOMAIN d
                 PROVE  \E i \in DOMAIN m : s[i] = j
      OBVIOUS
    <2>1. PICK i \in DOMAIN m : m[i].name = d[j].name
      BY <1>4
    <2> QED BY <1>2, <1>3, <2>1
  <1>8. \A i, k \in DOMAIN m : s[i] = s[k] => i = k
    <2> SUFFICES ASSUME NEW i \in DOMAIN m, NEW k \in DOMAIN m, s[i] = s[k]
                 PROVE  i = k
      OBVIOUS
    <2>1. m[i].name = m[k].name
      BY <1>3
    <2> QED BY <1>2, <2>1
  <1>9. Len(m) = Len(d)
    <2>1. s \in Injection(1..Len(m), 1..Len(d))
      BY <1>2, <1>5, <1>8 DEF Injection, IsInjective
    <2>2. s \in Surjection(1..Len(m), 1..Len(d))
      BY <1>2, <1>5, <1>7 DEF Surjection
    <2>3. ExistsBijection(1..Len(m), 1..Len(d))
      BY <2>1, <2>2 DEF Bijection, ExistsBijection
    <2>4. IsFiniteSet(1..Len(m)) /\ Cardinality(1..Len(m)) = Len(m) /\ Cardinality(1..Len(d)) = Len(d)
      <3>1. /\ 1 \in Int /\ Len(m) \in Int /\ Len(d) \in Int
            /\ (IF 1 > Len(m) THEN 0 ELSE Len(m) - 1 + 1) = Len(m)
            /\ (IF 1 > Len(d) THEN 0 ELSE Len(d) - 1 + 1) = Len(d)
        BY <1>2
      <3> QED BY <3>1, FS_Interval
    <2> QED BY <2>3, <2>4, FS_Bijection
  <1>10. Nets!ToSet(s) = DOMAIN d
    <2>1. Nets!ToSet(s) = {s[i] : i \in DOMAIN m}
      BY <1>3 DEF Nets!ToSet
    <2>2. {s[i] : i \in DOMAIN m} = DOMAIN d
      BY <1>3, <1>7
    <2> QED BY <2>1, <2>2
  <1> QED BY <1>6, <1>9, <1>10 DEF m, d, s

\* The tensor that an input's id finds in a buffer that has one of each.
LEMMA CollectedById ==
  ASSUME NEW buffer \in Nets!BoundedSeq(Tensors, MaxTensors), ~Nets!Ambiguous(buffer), Nets!Without(buffer) = {},
         NEW j \in DOMAIN Nets!Inputs
  PROVE  /\ Nets!Collected(buffer)[j] \in DOMAIN buffer
         /\ buffer[Nets!Collected(buffer)[j]].id = Nets!Inputs[j].id
         /\ Nets!Found(buffer, Nets!Inputs[j].id) = {Nets!Collected(buffer)[j]}
  <1> DEFINE F == Nets!Found(buffer, Nets!Inputs[j].id)
             p == CHOOSE p \in F : TRUE
  <1>1. IsFiniteSet(DOMAIN buffer)
    <2>1. PICK n \in 0..MaxTensors : buffer \in [1..n -> Tensors]
      BY DEF Nets!BoundedSeq, Nets!SeqOf
    <2>2. n \in Int
      BY DataPathsAssumption DEF DataPathsAssumption, Nets!ModelsAssumption
    <2>3. IsFiniteSet(1..n)
      BY <2>2, FS_Interval
    <2> QED BY <2>1, <2>3
  <1>2. F \subseteq DOMAIN buffer /\ \A q \in F : buffer[q].id = Nets!Inputs[j].id
    BY DEF Nets!Found
  <1>3. IsFiniteSet(F)
    BY <1>1, <1>2, FS_Subset
  <1>4. \A S : Nets!Cardinality(S) = Cardinality(S)
    BY DEF Nets!Cardinality, Cardinality
  <1>5. ~(Cardinality(F) > 1)
    BY <1>4 DEF Nets!Ambiguous
  <1>6. F # {}
    BY DEF Nets!Without
  <1>7. Nets!Collected(buffer)[j] = p
    BY DEF Nets!Collected
  <1> HIDE DEF F
  <1>8. p \in F
    BY <1>6
  <1>9. F = {p}
    <2> HIDE DEF p
    <2> QED BY <1>3, <1>5, <1>8, AtMostOne
  <1> QED BY <1>2, <1>7, <1>8, <1>9 DEF F

\* A tensor that has the dimensions of the declaration has those of the model,
\* where the model fixes them and the declaration does.
Allows(declared, dims) ==
  /\ Len(dims) = Len(declared) /\ DOMAIN dims = DOMAIN declared
  /\ \A k \in DOMAIN dims : declared[k] \in {Nets!Wildcard, dims[k]}

\* A declaration that fits gives a tensor of the model's shape.
LEMMA ShapesAgree ==
  ASSUME NEW entry, NEW declaration, NEW dims, Nets!Fits(entry, declaration),
         entry.dims \in Seq(Int), declaration.dims \in Seq(Int), dims \in Seq(Int),
         Allows(declaration.dims, dims),
         \/ Nets!Wildcard \notin Nets!ToSet(declaration.dims)
         \/ \A k \in DOMAIN dims : entry.dims[k] > 0 => entry.dims[k] = dims[k]
  PROVE  /\ Len(dims) = Len(entry.dims)
         /\ \A k \in DOMAIN dims : entry.dims[k] > 0 => entry.dims[k] = dims[k]
  <1> DEFINE e == entry.dims
             d == declaration.dims
  <1>1. Len(e) = Len(d) /\ \A k \in DOMAIN e : d[k] = Nets!Wildcard \/ e[k] <= 0 \/ e[k] = d[k]
    BY DEF Nets!Fits, Nets!DimsMatch
  <1>2. DOMAIN e = 1..Len(e) /\ DOMAIN d = 1..Len(d) /\ \A k \in DOMAIN e : e[k] \in Int
    OBVIOUS
  <1>3. /\ Len(dims) = Len(d) /\ DOMAIN dims = DOMAIN d
        /\ \A k \in DOMAIN dims : d[k] \in {Nets!Wildcard, dims[k]}
    BY DEF Allows
  <1>4. CASE \A k \in DOMAIN dims : e[k] > 0 => e[k] = dims[k]
    BY <1>1, <1>3, <1>4
  <1>5. CASE Nets!Wildcard \notin Nets!ToSet(d)
    <2>1. \A k \in DOMAIN d : d[k] # Nets!Wildcard
      BY <1>5 DEF Nets!ToSet
    <2>2. Len(dims) = Len(e) /\ \A k \in DOMAIN dims : e[k] > 0 => e[k] = dims[k]
      <3> HIDE DEF e, d
      <3> QED BY <1>1, <1>2, <1>3, <2>1
    <2> QED BY <2>2
  <1> QED BY <1>4, <1>5

\* What ORT checks of the inputs, pair by pair.
LEMMA SymbolsFix ==
  ASSUME NEW buffer, NEW fed, Nets!SymbolsAgree(buffer, fed), NEW i \in DOMAIN fed,
         NEW k \in DOMAIN buffer[fed[i]].dims, plan.model.inputs[i].dims[k] > 0
  PROVE  plan.model.inputs[i].dims[k] = buffer[fed[i]].dims[k]
  <1> DEFINE pairs(n) == {<<plan.model.inputs[n].dims[l], buffer[fed[n]].dims[l]>> :
                            l \in DOMAIN buffer[fed[n]].dims}
             axes == UNION {pairs(n) : n \in DOMAIN fed}
             axis == <<plan.model.inputs[i].dims[k], buffer[fed[i]].dims[k]>>
  <1>1. axis \in pairs(i)
    OBVIOUS
  <1>2. axis \in axes
    BY <1>1
  <1>3. \A a \in axes : a[1] > 0 => a[1] = a[2]
    BY DEF Nets!SymbolsAgree
  <1>4. axis[1] > 0 => axis[1] = axis[2]
    <2> HIDE DEF axes, axis
    <2> QED BY <1>2, <1>3
  <1> QED BY <1>4

\* A declaration of a plan without wildcards has none.
LEMMA NotWild ==
  ASSUME PlanLoaded, ~Nets!Wild(plan.info.inputs \o plan.info.outputs), NEW j \in DOMAIN Nets!Inputs
  PROVE  Nets!Wildcard \notin Nets!ToSet(Nets!Inputs[j].dims)
  <1> DEFINE a == plan.info.inputs
             b == plan.info.outputs
             S == Nets!ToSet(a) \union Nets!ToSet(b)
  <1>1. a \in Seq(Nets!ToSet(a)) /\ b \in Seq(Nets!ToSet(b))
    BY LoadedFacts DEF Nets!NamedApart
  <1>2. a \in Seq(S) /\ b \in Seq(S)
    <2> HIDE DEF a, b
    <2> DEFINE A == Nets!ToSet(a)
               B == Nets!ToSet(b)
    <2>1. a \in Seq(A) /\ b \in Seq(B) /\ A \subseteq S /\ B \subseteq S
      BY <1>1
    <2> HIDE DEF A, B, S
    <2> QED BY <2>1
  <1> HIDE DEF a, b, S
  <1>3. j \in DOMAIN a => j \in DOMAIN (a \o b) /\ (a \o b)[j] = a[j]
    BY <1>2
  <1>4. j \in DOMAIN (a \o b) /\ (a \o b)[j] = Nets!Inputs[j]
    BY <1>3 DEF a, Nets!Inputs
  <1> QED BY <1>4 DEF Nets!Wild, a, b

\* A run of tensors or of a frame that got so far has its inputs by name.
GivenByName(buffer, fed) ==
  \A i \in DOMAIN plan.model.inputs :
    LET given == buffer[fed[i]]
    IN /\ \E j \in Nets!Named(Nets!Inputs, plan.model.inputs[i].name) :
            /\ Nets!Inputs[j].id = given.id
            /\ Nets!Found(buffer, given.id) = {fed[i]}
       /\ given.whole /\ given.type = plan.model.inputs[i].type
       /\ Len(given.dims) = Len(plan.model.inputs[i].dims)
       /\ \A k \in DOMAIN given.dims :
            plan.model.inputs[i].dims[k] > 0 => plan.model.inputs[i].dims[k] = given.dims[k]

\* A buffer's tensors that pass the checks reach the inputs named for them.
LEMMA TensorsByName ==
  ASSUME PlanLoaded, NEW buffer \in Nets!BoundedSeq(Tensors, MaxTensors), ~Nets!Ambiguous(buffer),
         Nets!Without(buffer) = {},
         \A j \in DOMAIN Nets!Inputs : Nets!Matches(buffer[Nets!Collected(buffer)[j]], Nets!Inputs[j]),
         plan.engine = "ort" => Nets!SymbolsAgree(buffer, Nets!Fed(Nets!Collected(buffer)))
  PROVE  GivenByName(buffer, Nets!Fed(Nets!Collected(buffer)))
  <1> DEFINE fed == Nets!Fed(Nets!Collected(buffer))
  <1> SUFFICES ASSUME NEW i \in DOMAIN plan.model.inputs
               PROVE  /\ \E j \in Nets!Named(Nets!Inputs, plan.model.inputs[i].name) :
                           /\ Nets!Inputs[j].id = buffer[fed[i]].id
                           /\ Nets!Found(buffer, buffer[fed[i]].id) = {fed[i]}
                      /\ buffer[fed[i]].whole /\ buffer[fed[i]].type = plan.model.inputs[i].type
                      /\ Len(buffer[fed[i]].dims) = Len(plan.model.inputs[i].dims)
                      /\ \A k \in DOMAIN buffer[fed[i]].dims :
                           plan.model.inputs[i].dims[k] > 0 =>
                             plan.model.inputs[i].dims[k] = buffer[fed[i]].dims[k]
    BY DEF GivenByName
  <1> DEFINE entry == plan.model.inputs[i]
             j == plan.slots[i]
             given == buffer[fed[i]]
  <1>1. fed[i] = Nets!Collected(buffer)[j] /\ DOMAIN fed = DOMAIN plan.model.inputs
    BY DEF Nets!Fed
  <1>2. j \in DOMAIN Nets!Inputs /\ Nets!Inputs[j].name = entry.name /\ Nets!Fits(entry, Nets!Inputs[j])
    BY SlotsAreBound
  <1>3. /\ fed[i] \in DOMAIN buffer /\ given.id = Nets!Inputs[j].id
        /\ Nets!Found(buffer, Nets!Inputs[j].id) = {fed[i]}
    BY <1>1, <1>2, CollectedById
  <1>4. j \in Nets!Named(Nets!Inputs, entry.name)
    BY <1>2 DEF Nets!Named
  <1>5. /\ given.type = Nets!Inputs[j].type /\ given.whole
        /\ Nets!ValidateDims(given.dims, Nets!Inputs[j].dims)
    BY <1>1, <1>2 DEF Nets!Matches
  <1>6. given.type = entry.type
    BY <1>2, <1>5 DEF Nets!Fits
  <1>7. entry.dims \in Seq(Int) /\ Nets!Inputs[j].dims \in Seq(Int) /\ given.dims \in Seq(Int)
    <2>1. given \in Tensors
      <3>1. PICK n \in 0..MaxTensors : buffer \in [1..n -> Tensors]
        BY DEF Nets!BoundedSeq, Nets!SeqOf
      <3> QED BY <1>3, <3>1
    <2>2. Nets!ModelsAssumption
      BY DataPathsAssumption DEF DataPathsAssumption
    <2>3. given.dims \in Seq(Int)
      BY <2>1, <2>2 DEF Nets!ModelsAssumption
    <2>4. entry.dims \in Seq(Int) /\ Nets!Inputs[j].dims \in Seq(Int)
      BY <1>2, LoadedFacts, EntriesFacts DEF Nets!Inputs
    <2> QED BY <2>3, <2>4
  <1>8. Allows(Nets!Inputs[j].dims, given.dims)
    <2>1. Len(given.dims) = Len(Nets!Inputs[j].dims)
          /\ \A k \in DOMAIN given.dims : Nets!Inputs[j].dims[k] \in {Nets!Wildcard, given.dims[k]}
      BY <1>5 DEF Nets!ValidateDims
    <2> HIDE DEF given, j
    <2> QED BY <1>7, <2>1 DEF Allows
  <1>9. \/ Nets!Wildcard \notin Nets!ToSet(Nets!Inputs[j].dims)
        \/ \A k \in DOMAIN given.dims : entry.dims[k] > 0 => entry.dims[k] = given.dims[k]
    <2>1. CASE plan.engine = "tract"
      BY <1>2, <2>1, NotWild DEF PlanLoaded
    <2>2. CASE plan.engine = "ort"
      <3>1. Nets!SymbolsAgree(buffer, fed)
        BY <2>2
      <3>2. i \in DOMAIN fed
        BY <1>1
      <3> HIDE DEF fed
      <3> QED BY <3>1, <3>2, SymbolsFix
    <2> QED BY <2>1, <2>2 DEF PlanLoaded
  <1>10. /\ Len(given.dims) = Len(entry.dims)
         /\ \A k \in DOMAIN given.dims : entry.dims[k] > 0 => entry.dims[k] = given.dims[k]
    <2> HIDE DEF given, entry, j
    <2> QED BY <1>2, <1>7, <1>8, <1>9, ShapesAgree
  <1>11. \E l \in Nets!Named(Nets!Inputs, entry.name) :
           Nets!Inputs[l].id = given.id /\ Nets!Found(buffer, given.id) = {fed[i]}
    BY <1>3, <1>4
  <1> QED BY <1>5, <1>6, <1>10, <1>11

\* The tensor that a frame is packed into.
Packed(declaration) ==
  [id |-> declaration.id, type |-> declaration.type, dims |-> declaration.dims, whole |-> TRUE]

\* So does a video frame, packed to the image the model-info declares.
LEMMA FrameByName ==
  ASSUME PlanLoaded, plan.mode = "video"
  PROVE  GivenByName(<<Packed(Nets!Inputs[1])>>, <<1>>)
  <1> DEFINE t == Packed(Nets!Inputs[1])
             buffer == <<t>>
  <1>1. /\ Len(Nets!Inputs) = 1 /\ ~Nets!Wild(plan.info.inputs \o plan.info.outputs)
    BY DEF PlanLoaded, Nets!ParsesImage, Nets!Inputs
  <1>2. DOMAIN Nets!Inputs = {1} /\ DOMAIN plan.model.inputs = {1}
    <2>1. /\ DOMAIN plan.model.inputs = 1..Len(plan.model.inputs)
          /\ DOMAIN Nets!Inputs = 1..Len(Nets!Inputs)
      BY LoadedFacts, EntriesFacts DEF Nets!Inputs
    <2>2. Len(plan.model.inputs) = 1
      BY <1>1, SlotsAreExact
    <2> QED BY <1>1, <2>1, <2>2
  <1> DEFINE entry == plan.model.inputs[1]
  <1>3. plan.slots[1] = 1 /\ Nets!Inputs[1].name = entry.name /\ Nets!Fits(entry, Nets!Inputs[1])
    BY <1>2, SlotsAreBound
  <1>4. entry.dims \in Seq(Int) /\ Nets!Inputs[1].dims \in Seq(Int)
    BY <1>2, LoadedFacts, EntriesFacts DEF Nets!Inputs
  <1>5. t.id = Nets!Inputs[1].id /\ t.type = Nets!Inputs[1].type /\ t.dims = Nets!Inputs[1].dims /\ t.whole
    BY DEF Packed
  <1>6. Allows(Nets!Inputs[1].dims, Nets!Inputs[1].dims)
    BY DEF Allows
  <1>7. Nets!Wildcard \notin Nets!ToSet(Nets!Inputs[1].dims)
    BY <1>1, <1>2, NotWild
  <1>8. /\ Len(Nets!Inputs[1].dims) = Len(entry.dims)
        /\ \A k \in DOMAIN Nets!Inputs[1].dims : entry.dims[k] > 0 => entry.dims[k] = Nets!Inputs[1].dims[k]
    <2> HIDE DEF entry
    <2> QED BY <1>3, <1>4, <1>6, <1>7, ShapesAgree
  <1>9. entry.type = t.type
    BY <1>3, <1>5 DEF Nets!Fits
  <1> HIDE DEF t
  <1>10. Nets!Found(buffer, t.id) = {1}
    BY DEF Nets!Found
  <1>11. 1 \in Nets!Named(Nets!Inputs, entry.name)
    BY <1>2, <1>3 DEF Nets!Named
  <1>12. buffer[<<1>>[1]] = t
    OBVIOUS
  <1> HIDE DEF buffer
  <1> QED BY <1>2, <1>5, <1>8, <1>9, <1>10, <1>11, <1>12 DEF GivenByName, t, buffer

\* The outputs that a plan asks for are the declared ones, the shapes no wider.
LEMMA PlannedOutputs ==
  ASSUME PlanLoaded
  PROVE  /\ DOMAIN plan.outputs = 1..Len(plan.info.outputs) /\ Len(plan.info.outputs) \in Nat
         /\ \A j \in DOMAIN plan.outputs :
              /\ plan.outputs[j].id = plan.info.outputs[j].id
              /\ \A dims : DOMAIN dims = 1..Len(dims) /\ Nets!ValidateDims(dims, plan.outputs[j].dims) =>
                             Nets!ValidateDims(dims, plan.info.outputs[j].dims)
  <1> DEFINE d == plan.info.outputs
             o == plan.outputs
  <1>1. /\ DOMAIN d = 1..Len(d) /\ Len(d) \in Nat /\ \A j \in DOMAIN d : d[j].dims \in Seq(Int)
        /\ \A j \in DOMAIN d : DOMAIN d[j] = {"name", "id", "type", "dims"}
    BY LoadedFacts, EntriesFacts
  <1>2. CASE plan.engine = "tract"
    BY <1>1, <1>2 DEF PlanLoaded
  <1>3. CASE plan.engine = "ort"
    <2>1. o = Nets!Constrained(plan.model, plan.info)
      BY <1>3 DEF PlanLoaded
    <2> DEFINE axes(j) == plan.model.outputs[CHOOSE i \in Nets!Named(plan.model.outputs, d[j].name) : TRUE].dims
               bound(j) == [k \in DOMAIN d[j].dims |-> Nets!Bound(axes(j)[k], d[j].dims[k])]
    <2>2. DOMAIN o = DOMAIN d /\ \A j \in DOMAIN d : o[j] = [d[j] EXCEPT !.dims = bound(j)]
      BY <2>1 DEF Nets!Constrained
    <2> HIDE DEF o
    <2>3. \A j \in DOMAIN d : o[j].id = d[j].id /\ o[j].dims = bound(j)
      <3> SUFFICES ASSUME NEW j \in DOMAIN d PROVE o[j].id = d[j].id /\ o[j].dims = bound(j)
        OBVIOUS
      <3> DEFINE e == d[j]
                 b == bound(j)
      <3>1. o[j] = [e EXCEPT !.dims = b] /\ DOMAIN e = {"name", "id", "type", "dims"}
        BY <1>1, <2>2
      <3> HIDE DEF e, b
      <3>2. o[j].id = e.id /\ o[j].dims = b
        BY <3>1
      <3> QED BY <3>2 DEF e, b
    <2>4. ASSUME NEW j \in DOMAIN d, NEW dims, DOMAIN dims = 1..Len(dims), Nets!ValidateDims(dims, bound(j))
          PROVE  Nets!ValidateDims(dims, d[j].dims)
      <3> DEFINE e == d[j].dims
                 b == bound(j)
      <3>1. e \in Seq(Int) /\ DOMAIN e = 1..Len(e) /\ Len(e) \in Nat
        BY <1>1
      <3>2. /\ b = [k \in DOMAIN e |-> b[k]]
            /\ \A k \in DOMAIN e : b[k] = Nets!Bound(axes(j)[k], e[k])
        <4> DEFINE a == axes(j)
        <4>1. b = [k \in DOMAIN e |-> Nets!Bound(a[k], e[k])]
          OBVIOUS
        <4> HIDE DEF a, b, e
        <4>2. b = [k \in DOMAIN e |-> b[k]] /\ \A k \in DOMAIN e : b[k] = Nets!Bound(a[k], e[k])
          BY <4>1
        <4> QED BY <4>2 DEF a
      <3>3. Len(dims) = Len(b) /\ dims # <<>>
            /\ \A k \in DOMAIN dims : dims[k] > 0 /\ b[k] \in {Nets!Wildcard, dims[k]}
        BY <2>4 DEF Nets!ValidateDims
      <3> HIDE DEF e, b
      <3>4. Len(b) = Len(e)
        BY <3>1, <3>2, SeqFacts
      <3>5. \A k \in DOMAIN e : e[k] = Nets!Wildcard \/ e[k] = b[k]
        BY <3>2 DEF Nets!Bound
      <3>6. DOMAIN dims = DOMAIN e
        BY <2>4, <3>1, <3>3, <3>4
      <3>7. Nets!ValidateDims(dims, e)
        BY <3>3, <3>4, <3>5, <3>6 DEF Nets!ValidateDims
      <3> QED BY <3>7 DEF e
    <2> QED BY <1>1, <2>2, <2>3, <2>4 DEF o
  <1> QED BY <1>2, <1>3 DEF PlanLoaded

\* What comes back is of the planned outputs, in their order.
LEMMA ResultsAreDeclared ==
  ASSUME PlanLoaded, NEW result \in Nets!Results, Nets!Valid(result)
  PROVE  /\ Len(result) = Len(plan.info.outputs)
         /\ \A j \in DOMAIN result :
              /\ result[j].id = plan.info.outputs[j].id
              /\ Nets!ValidateDims(result[j].dims, plan.info.outputs[j].dims)
  <1> DEFINE o == plan.outputs
             m == plan.model.outputs
  <1>1. PICK dims : /\ result = [j \in DOMAIN o |-> [id |-> o[j].id, dims |-> dims[j]]]
                    /\ \A j \in DOMAIN o : \E i \in Nets!Named(m, o[j].name) : dims[j] \in Nets!Returned(m[i])
    BY DEF Nets!Results
  <1>2. DOMAIN o = 1..Len(plan.info.outputs) /\ Len(plan.info.outputs) \in Nat
    BY PlannedOutputs
  <1>3. Len(result) = Len(plan.info.outputs) /\ DOMAIN result = DOMAIN o
    <2> DEFINE n == Len(plan.info.outputs)
    <2>1. n \in Nat /\ result = [j \in 1..n |-> result[j]]
      BY <1>1, <1>2
    <2> HIDE DEF n
    <2>2. Len(result) = n
      BY <2>1, SeqFacts
    <2> QED BY <1>1, <2>2 DEF n
  <1>4. ASSUME NEW j \in DOMAIN o
        PROVE  /\ result[j].id = plan.info.outputs[j].id
               /\ Nets!ValidateDims(result[j].dims, plan.info.outputs[j].dims)
    <2>1. result[j].id = o[j].id /\ result[j].dims = dims[j]
      BY <1>1
    <2>2. PICK i \in Nets!Named(m, o[j].name) : dims[j] \in Nets!Returned(m[i])
      BY <1>1
    <2>3. DOMAIN m[i].dims = 1..Len(m[i].dims) /\ Len(m[i].dims) \in Nat
      <3>1. i \in DOMAIN m
        BY DEF Nets!Named
      <3>2. m[i].dims \in Seq(Int)
        BY <3>1, LoadedFacts, EntriesFacts
      <3> QED BY <3>2
    <2>4. dims[j] = [k \in DOMAIN m[i].dims |-> dims[j][k]]
      BY <2>2 DEF Nets!Returned
    <2>5. DOMAIN dims[j] = 1..Len(dims[j])
      <3> DEFINE n == Len(m[i].dims)
                 f == dims[j]
      <3>1. n \in Nat /\ f = [k \in 1..n |-> f[k]]
        BY <2>3, <2>4
      <3> HIDE DEF n, f
      <3>2. Len(f) = n /\ DOMAIN f = 1..n
        BY <3>1, SeqFacts
      <3> QED BY <3>2 DEF f
    <2>6. Nets!ValidateDims(dims[j], o[j].dims)
      BY <1>3, <2>1 DEF Nets!Valid
    <2> QED BY <2>1, <2>5, <2>6, PlannedOutputs
  <1> QED BY <1>3, <1>4

\* Caps of any peer, one way and the other.
CapsFields == {"format", "width", "height", "groups"}
FormatFits(caps) == plan.mode = "video" => caps.format \in Nets!Formats

\* What the input side offers, whatever the caps it starts from.
LEMMA SinkCaps ==
  ASSUME NEW from, DOMAIN from = CapsFields, NEW c \in Nets!TransformCaps("sink", from)
  PROVE  /\ DOMAIN c = CapsFields /\ FormatFits(c)
         /\ c.groups = IF Nets!Own \in from.groups THEN {Nets!Own} ELSE from.groups \union {Nets!Own}
         /\ plan.mode = "video" => c.width = Nets!Image.width /\ c.height = Nets!Image.height
  BY DEF Nets!TransformCaps, CapsFields, FormatFits

\* From any caps that fit, the output side offers caps without tensor groups.
LEMMA SrcCaps ==
  ASSUME NEW from, DOMAIN from = CapsFields, FormatFits(from)
  PROVE  /\ Nets!TransformCaps("src", from) # {}
         /\ \A back \in Nets!TransformCaps("src", from) : back.groups = {}
  BY DEF Nets!TransformCaps, CapsFields, FormatFits

\* The two directions of transform_caps agree.
LEMMA CapsAreHonest ==
  Nets!CapsHonest
  <1> SUFFICES ASSUME NEW caps \in Nets!Structures
               PROVE  /\ \A c \in Nets!TransformCaps("sink", caps) :
                           /\ Nets!Own \in c.groups
                           /\ Nets!TransformCaps("src", c) # {}
                           /\ \A back \in Nets!TransformCaps("src", c) : back.groups = {}
                           /\ \A again \in Nets!TransformCaps("sink", c) : again.groups = {Nets!Own}
                           /\ plan.mode = "video" =>
                                c.width = Nets!Image.width /\ c.height = Nets!Image.height
                      /\ \A c \in Nets!FixateCaps(caps, Nets!Structures) :
                           c.groups \subseteq caps.groups \union {Nets!Own}
    BY DEF Nets!CapsHonest
  <1>1. DOMAIN caps = CapsFields
    BY DEF Nets!Structures, CapsFields
  <1>2. ASSUME NEW c \in Nets!TransformCaps("sink", caps)
        PROVE  /\ Nets!Own \in c.groups
               /\ Nets!TransformCaps("src", c) # {}
               /\ \A back \in Nets!TransformCaps("src", c) : back.groups = {}
               /\ \A again \in Nets!TransformCaps("sink", c) : again.groups = {Nets!Own}
               /\ plan.mode = "video" => c.width = Nets!Image.width /\ c.height = Nets!Image.height
    <2>1. /\ DOMAIN c = CapsFields /\ FormatFits(c)
          /\ c.groups = IF Nets!Own \in caps.groups THEN {Nets!Own} ELSE caps.groups \union {Nets!Own}
          /\ plan.mode = "video" => c.width = Nets!Image.width /\ c.height = Nets!Image.height
      BY <1>1, SinkCaps
    <2>2. Nets!Own \in c.groups
      BY <2>1
    <2>3. /\ Nets!TransformCaps("src", c) # {}
          /\ \A back \in Nets!TransformCaps("src", c) : back.groups = {}
      BY <2>1, SrcCaps
    <2>4. \A again \in Nets!TransformCaps("sink", c) : again.groups = {Nets!Own}
      BY <2>1, <2>2, SinkCaps
    <2> QED BY <2>1, <2>2, <2>3, <2>4
  <1>3. ASSUME NEW c \in Nets!FixateCaps(caps, Nets!Structures)
        PROVE  c.groups \subseteq caps.groups \union {Nets!Own}
    <2>1. PICK expected \in Nets!TransformCaps("sink", caps) : c.groups = expected.groups
      BY DEF Nets!FixateCaps
    <2>2. expected.groups = IF Nets!Own \in caps.groups THEN {Nets!Own} ELSE caps.groups \union {Nets!Own}
      BY <1>1, SinkCaps
    <2> QED BY <2>1, <2>2
  <1> QED BY <1>2, <1>3

\* An element that is not started answers nothing.
LEMMA EnginesStart ==
  Nets!Init => EnginesInv
  <1> SUFFICES ASSUME Nets!Init PROVE EnginesInv
    OBVIOUS
  <1>1. Nets!ModelsAssumption
    BY DataPathsAssumption DEF DataPathsAssumption
  <1>2. Models # {} /\ Infos # {}
    BY <1>1 DEF Nets!ModelsAssumption
  <1>3. props.model \in Models /\ props.info \in Infos
    BY <1>2 DEF Nets!Init
  <1>4. props.engine = "tract" /\ props.mode = "video" /\ plan = Nets!Unloaded /\ video = Nets!NoVideo
        /\ frame = Nets!NoFrame
    BY DEF Nets!Init
  <1> QED BY <1>3, <1>4 DEF EnginesInv, Nets!InputsByName, Nets!OutputsDeclared, Nets!NoFrame

\* A plan is not the lack of one.
LEMMA LoadedIs ==
  plan.engine \in {"tract", "ort"} => plan # Nets!Unloaded
  BY DEF Nets!Unloaded

\* An answer to a buffer.
LEMMA Answered ==
  ASSUME NEW buffer, NEW outcome_, NEW fed, NEW result, PlanLoaded, plan' = plan,
         Nets!Answer(buffer, outcome_, fed, result),
         \/ outcome_ = "error" /\ result = <<>>
         \/ outcome_ = "pass" /\ result = <<>> /\ Nets!Without(buffer) = DOMAIN Nets!Inputs
         \/ /\ outcome_ = "ran" /\ result \in Nets!Results /\ Nets!Valid(result)
            /\ GivenByName(buffer, fed) /\ (plan.engine = "ort" => Nets!SymbolsAgree(buffer, fed))
  PROVE  Nets!InputsByName' /\ Nets!OutputsDeclared'
  <1>1. frame' = [buffer |-> buffer, outcome |-> outcome_, fed |-> fed, attached |-> result]
    BY DEF Nets!Answer
  <1>2. /\ frame'.buffer = buffer /\ frame'.outcome = outcome_ /\ frame'.fed = fed
        /\ frame'.attached = result
    BY <1>1
  <1>3. outcome_ = "ran" =>
          /\ GivenByName(buffer, fed) /\ (plan.engine = "ort" => Nets!SymbolsAgree(buffer, fed))
          /\ Len(result) = Len(plan.info.outputs)
          /\ \A j \in DOMAIN result :
               /\ result[j].id = plan.info.outputs[j].id
               /\ Nets!ValidateDims(result[j].dims, plan.info.outputs[j].dims)
    BY ResultsAreDeclared
  <1>4. outcome_ # "ran" => result = <<>>
    OBVIOUS
  <1>5. outcome_ = "pass" => \A j \in DOMAIN Nets!Inputs : Nets!Found(buffer, Nets!Inputs[j].id) = {}
    BY DEF Nets!Without
  <1>6. Nets!Inputs' = Nets!Inputs
    BY DEF Nets!Inputs
  <1>7. Nets!InputsByName'
    <2>1. /\ Nets!SymbolsAgree(buffer, fed)' = Nets!SymbolsAgree(buffer, fed)
          /\ Nets!SymbolsAgree(frame.buffer, frame.fed)' = Nets!SymbolsAgree(buffer, fed)'
      <3>1. Nets!SymbolsAgree(buffer, fed)' = Nets!SymbolsAgree(buffer, fed)
        BY DEF Nets!SymbolsAgree
      <3>2. Nets!SymbolsAgree(frame.buffer, frame.fed)' = Nets!SymbolsAgree(buffer, fed)'
        BY <1>2
      <3> QED BY <3>1, <3>2
    <2> QED BY <1>2, <1>3, <1>6, <2>1 DEF Nets!InputsByName, GivenByName
  <1>8. Nets!OutputsDeclared'
    BY <1>2, <1>3, <1>4, <1>5, <1>6 DEF Nets!OutputsDeclared
  <1> QED BY <1>7, <1>8

\* A run of inputs that are given by name.
LEMMA RunAnswers ==
  ASSUME NEW buffer, NEW fed, PlanLoaded, plan' = plan, Nets!Run(buffer, fed),
         (plan.engine = "ort" => Nets!SymbolsAgree(buffer, fed)) => GivenByName(buffer, fed)
  PROVE  Nets!InputsByName' /\ Nets!OutputsDeclared'
  <1>1. CASE Nets!Answer(buffer, "error", <<>>, <<>>)
    BY <1>1, Answered
  <1>2. ASSUME plan.engine = "ort" => Nets!SymbolsAgree(buffer, fed), NEW result \in Nets!Results,
               IF Nets!Valid(result) THEN Nets!Answer(buffer, "ran", fed, result)
               ELSE Nets!Answer(buffer, "error", fed, <<>>)
        PROVE  Nets!InputsByName' /\ Nets!OutputsDeclared'
    <2>1. CASE Nets!Valid(result)
      BY <1>2, <2>1, Answered
    <2>2. CASE ~Nets!Valid(result)
      BY <1>2, <2>2, Answered
    <2> QED BY <2>1, <2>2
  <1> QED BY <1>1, <1>2 DEF Nets!Run

\* What was said of the last buffer holds while it and the plan are the same.
LEMMA SameAnswers ==
  ASSUME plan' = plan, frame' = frame, Nets!InputsByName, Nets!OutputsDeclared
  PROVE  Nets!InputsByName' /\ Nets!OutputsDeclared'
  <1>1. Nets!Inputs' = Nets!Inputs
    BY DEF Nets!Inputs
  <1>2. Nets!SymbolsAgree(frame.buffer, frame.fed)' = Nets!SymbolsAgree(frame.buffer, frame.fed)
    BY DEF Nets!SymbolsAgree
  <1>3. Nets!InputsByName'
    BY <1>1, <1>2 DEF Nets!InputsByName
  <1>4. Nets!OutputsDeclared'
    BY <1>1 DEF Nets!OutputsDeclared
  <1> QED BY <1>3, <1>4

\* A step of the inference elements.
LEMMA EnginesStep ==
  EnginesInv /\ Nets!Next => EnginesInv'
  <1> SUFFICES ASSUME EnginesInv, Nets!Next PROVE EnginesInv'
    OBVIOUS
  <1> DEFINE PropsKept == /\ props.engine \in {"tract", "ort"} /\ props.mode \in {"video", "tensor"}
                          /\ props.model \in Models /\ props.info \in Infos
  <1>1. PropsKept
    BY DEF EnginesInv
  <1>2. ASSUME plan = Nets!Unloaded, NEW engine \in {"tract", "ort"}, Nets!SetProperty(engine)
        PROVE  EnginesInv'
    <2>1. PropsKept'
      BY <1>2 DEF Nets!SetProperty
    <2>2. plan' = plan /\ video' = video /\ frame' = frame
      BY <1>2 DEF Nets!SetProperty
    <2>3. video = Nets!NoVideo /\ frame = Nets!NoFrame
      BY <1>2 DEF EnginesInv
    <2> QED
      BY <1>2, <2>1, <2>2, <2>3
        DEF EnginesInv, Nets!InputsByName, Nets!OutputsDeclared, Nets!NoFrame, Nets!NoVideo
  <1>3. ASSUME plan = Nets!Unloaded, PlanLoaded', UNCHANGED <<props, video, frame, frames>>
        PROVE  EnginesInv'
    <2>1. video' = Nets!NoVideo /\ frame' = Nets!NoFrame
      BY <1>3 DEF EnginesInv
    <2>2. plan' # Nets!Unloaded
      <3>1. plan'.engine \in {"tract", "ort"}
        BY <1>3 DEF PlanLoaded
      <3> QED BY <3>1 DEF Nets!Unloaded
    <2>3. Nets!InputsByName' /\ Nets!OutputsDeclared'
      BY <2>1 DEF Nets!InputsByName, Nets!OutputsDeclared, Nets!NoFrame
    <2>4. PropsKept'
      BY <1>1, <1>3
    <2>5. (video # Nets!NoVideo)' = FALSE
      BY <2>1 DEF Nets!NoVideo
    <2> QED BY <1>3, <2>2, <2>3, <2>4, <2>5 DEF EnginesInv
  <1>4. CASE Nets!SetTract
    <2>1. Nets!SetProperty("tract")
      BY <1>4 DEF Nets!SetTract
    <2> QED BY <1>2, <2>1 DEF Nets!SetProperty
  <1>5. CASE Nets!SetOrt
    <2>1. Nets!SetProperty("ort")
      BY <1>5 DEF Nets!SetOrt
    <2> QED BY <1>2, <2>1 DEF Nets!SetProperty
  <1>6. CASE Nets!StartTract
    <2>1. /\ plan = Nets!Unloaded /\ props.engine = "tract"
          /\ Nets!Readable /\ Nets!Binds(props.model, props.info)
          /\ ~Nets!Wild(props.info.inputs \o props.info.outputs)
          /\ plan' = [engine |-> props.engine, mode |-> props.mode, model |-> props.model,
                      info |-> props.info, slots |-> Nets!Slots(props.model, props.info),
                      outputs |-> props.info.outputs]
          /\ UNCHANGED <<props, video, frame, frames>>
      BY <1>6 DEF Nets!StartTract, Nets!Load
    <2>2. /\ plan'.engine = "tract" /\ plan'.mode = props.mode /\ plan'.model = props.model
          /\ plan'.info = props.info /\ plan'.slots = Nets!Slots(props.model, props.info)
          /\ plan'.outputs = props.info.outputs
      BY <2>1
    <2>3. props.mode = "video" => Nets!ParsesImage(props.info)
      BY <2>1 DEF Nets!Readable
    <2>4. PlanLoaded'
      BY <1>1, <2>1, <2>2, <2>3 DEF PlanLoaded
    <2> QED BY <1>3, <2>1, <2>4
  <1>7. CASE Nets!StartOrt
    <2>1. /\ plan = Nets!Unloaded /\ props.engine = "ort"
          /\ Nets!Readable /\ Nets!Binds(props.model, props.info)
          /\ plan' = [engine |-> props.engine, mode |-> props.mode, model |-> props.model,
                      info |-> props.info, slots |-> Nets!Slots(props.model, props.info),
                      outputs |-> Nets!Constrained(props.model, props.info)]
          /\ UNCHANGED <<props, video, frame, frames>>
      BY <1>7 DEF Nets!StartOrt, Nets!Load
    <2>2. /\ plan'.engine = "ort" /\ plan'.mode = props.mode /\ plan'.model = props.model
          /\ plan'.info = props.info /\ plan'.slots = Nets!Slots(props.model, props.info)
          /\ plan'.outputs = Nets!Constrained(props.model, props.info)
      BY <2>1
    <2>3. props.mode = "video" => Nets!ParsesImage(props.info)
      BY <2>1 DEF Nets!Readable
    <2>4. PlanLoaded'
      BY <1>1, <2>1, <2>2, <2>3 DEF PlanLoaded
    <2> QED BY <1>3, <2>1, <2>4
  <1>8. CASE Nets!Stop
    <2>1. plan' = Nets!Unloaded /\ video' = Nets!NoVideo /\ frame' = Nets!NoFrame /\ props' = props
      BY <1>8 DEF Nets!Stop
    <2>2. Nets!InputsByName' /\ Nets!OutputsDeclared'
      BY <2>1 DEF Nets!InputsByName, Nets!OutputsDeclared, Nets!NoFrame
    <2> QED BY <1>1, <2>1, <2>2 DEF EnginesInv, Nets!NoVideo, Nets!NoFrame, Nets!Unloaded
  <1>9. ASSUME plan # Nets!Unloaded, props' = props, plan' = plan,
               Nets!InputsByName' /\ Nets!OutputsDeclared',
               \/ video' = video
               \/ plan.mode = "video" /\ video' = [width |-> Nets!Image.width, height |-> Nets!Image.height]
        PROVE  EnginesInv'
    <2>1. PlanLoaded' /\ (plan # Nets!Unloaded)'
      BY <1>9 DEF EnginesInv, PlanLoaded, Nets!Unloaded
    <2>2. Nets!Image' = Nets!Image
      BY <1>9 DEF Nets!Image
    <2>3. (video # Nets!NoVideo => plan.mode = "video"
            /\ video = [width |-> Nets!Image.width, height |-> Nets!Image.height])'
      BY <1>9, <2>2 DEF EnginesInv, Nets!NoVideo
    <2> QED BY <1>1, <1>9, <2>1, <2>3 DEF EnginesInv
  <1>10. CASE Nets!SetCaps
    <2>1. /\ plan # Nets!Unloaded /\ plan.mode = "video" /\ props' = props /\ plan' = plan /\ frame' = frame
          /\ video' = [width |-> Nets!Image.width, height |-> Nets!Image.height]
      BY <1>10 DEF Nets!SetCaps
    <2>2. Nets!InputsByName' /\ Nets!OutputsDeclared'
      BY <2>1, SameAnswers DEF EnginesInv
    <2> QED BY <1>9, <2>1, <2>2
  <1>11. CASE Nets!TransformTensors
    <2>1. plan # Nets!Unloaded /\ props' = props /\ plan' = plan /\ video' = video
      BY <1>11 DEF Nets!TransformTensors
    <2>2. PlanLoaded
      BY <2>1 DEF EnginesInv
    <2>3. PICK buffer \in Nets!BoundedSeq(Tensors, MaxTensors) :
            IF Nets!Ambiguous(buffer) THEN Nets!Answer(buffer, "error", <<>>, <<>>)
            ELSE IF Nets!Without(buffer) = DOMAIN Nets!Inputs THEN Nets!Answer(buffer, "pass", <<>>, <<>>)
            ELSE IF Nets!Without(buffer) # {} THEN Nets!Answer(buffer, "error", <<>>, <<>>)
            ELSE IF \E j \in DOMAIN Nets!Inputs : ~Nets!Matches(buffer[Nets!Collected(buffer)[j]], Nets!Inputs[j])
                 THEN Nets!Answer(buffer, "error", <<>>, <<>>)
                 ELSE Nets!Run(buffer, Nets!Fed(Nets!Collected(buffer)))
      BY <1>11 DEF Nets!TransformTensors
    <2>4. CASE Nets!Answer(buffer, "error", <<>>, <<>>)
      BY <1>9, <2>1, <2>2, <2>4, Answered
    <2>5. CASE Nets!Answer(buffer, "pass", <<>>, <<>>) /\ Nets!Without(buffer) = DOMAIN Nets!Inputs
      BY <1>9, <2>1, <2>2, <2>5, Answered
    <2>6. ASSUME ~Nets!Ambiguous(buffer), Nets!Without(buffer) = {},
                 \A j \in DOMAIN Nets!Inputs : Nets!Matches(buffer[Nets!Collected(buffer)[j]], Nets!Inputs[j]),
                 Nets!Run(buffer, Nets!Fed(Nets!Collected(buffer)))
          PROVE  EnginesInv'
      <3> DEFINE fed == Nets!Fed(Nets!Collected(buffer))
      <3>1. (plan.engine = "ort" => Nets!SymbolsAgree(buffer, fed)) => GivenByName(buffer, fed)
        BY <2>2, <2>6, TensorsByName
      <3>2. Nets!InputsByName' /\ Nets!OutputsDeclared'
        <4> HIDE DEF fed
        <4>1. Nets!Run(buffer, fed)
          BY <2>6 DEF fed
        <4> QED BY <2>1, <2>2, <3>1, <4>1, RunAnswers
      <3> QED BY <1>9, <2>1, <3>2
    <2> QED BY <2>3, <2>4, <2>5, <2>6
  <1>12. CASE Nets!TransformVideo
    <2>1. plan # Nets!Unloaded /\ plan.mode = "video" /\ props' = props /\ plan' = plan /\ video' = video
      BY <1>12 DEF Nets!TransformVideo
    <2>2. PlanLoaded
      BY <2>1 DEF EnginesInv
    <2>3. \/ Nets!Answer(<<>>, "error", <<>>, <<>>)
          \/ Nets!Run(<<Packed(Nets!Inputs[1])>>, <<1>>)
      BY <1>12 DEF Nets!TransformVideo, Packed
    <2>4. CASE Nets!Answer(<<>>, "error", <<>>, <<>>)
      BY <1>9, <2>1, <2>2, <2>4, Answered
    <2>5. CASE Nets!Run(<<Packed(Nets!Inputs[1])>>, <<1>>)
      <3>1. GivenByName(<<Packed(Nets!Inputs[1])>>, <<1>>)
        BY <2>1, <2>2, FrameByName
      <3>2. Nets!InputsByName' /\ Nets!OutputsDeclared'
        BY <2>1, <2>2, <2>5, <3>1, RunAnswers
      <3> QED BY <1>9, <2>1, <3>2
    <2> QED BY <2>3, <2>4, <2>5
  <1> QED BY <1>4, <1>5, <1>6, <1>7, <1>8, <1>10, <1>11, <1>12 DEF Nets!Next

\* The invariant gives the property of the inference elements.
LEMMA EnginesAreConsistent ==
  ASSUME EnginesInv
  PROVE  Nets!InferenceConsistent
  <1>1. Nets!BindingExact
    <2>1. plan # Nets!Unloaded =>
            Len(plan.slots) = Len(Nets!Inputs) /\ Nets!ToSet(plan.slots) = DOMAIN Nets!Inputs
      BY SlotsAreExact DEF EnginesInv
    <2> QED BY <2>1 DEF EnginesInv, Nets!BindingExact
  <1> QED BY <1>1, CapsAreHonest DEF EnginesInv, Nets!InferenceConsistent

-----------------------------------------------------------------------------
(***************************************************************************)
(* The sum: a step of another part leaves both alone.                      *)
(***************************************************************************)
LEMMA PackingKept ==
  ASSUME PackingInv, UNCHANGED packingVars
  PROVE  PackingInv'
  <1>1. task' = task /\ outcome' = outcome /\ pixel' = pixel /\ packed' = packed
    BY DEF packingVars
  <1>2. /\ Sized' <=> Sized
        /\ Pixels' = Pixels
    BY <1>1 DEF Sized, Prep!Tasks, Prep!PixelFormats, Pixels
  <1>3. \A i, c : Prep!Destination(i, c)' = Prep!Destination(i, c) /\ Value(i, c)' = Value(i, c)
    BY <1>1 DEF Prep!Destination, Prep!DestinationChannel, Value, Prep!Offset,
    Prep!ComponentOf, Prep!RangeIndex, Prep!Stride, Prep!BytesPerPixel
  <1>4. /\ outcome' \in {"idle", "copying", "packed", "error"}
        /\ (outcome' = "idle" => pixel' = 0)
    BY <1>1 DEF PackingInv
  <1>5. ASSUME outcome' \in {"copying", "packed"}
        PROVE  /\ Sized' /\ pixel' \in 0..Pixels' /\ DOMAIN packed' = 0..(Pixels' * 3 - 1)
               /\ \A i \in 0..(pixel' - 1), c \in 0..2 :
                    packed'[Prep!Destination(i, c)'] = Value(i, c)'
               /\ outcome' = "packed" => pixel' = Pixels'
    BY <1>1, <1>2, <1>3, <1>5 DEF PackingInv
  <1> QED BY <1>4, <1>5 DEF PackingInv

\* The steps of other components leave the inference elements as they are.
LEMMA EnginesKept ==
  ASSUME EnginesInv, UNCHANGED engineVars
  PROVE  EnginesInv'
  <1>1. /\ props' = props /\ plan' = plan /\ video' = video /\ frame' = frame
    BY DEF engineVars
  <1>2. Nets!InputsByName' /\ Nets!OutputsDeclared'
    BY <1>1, SameAnswers DEF EnginesInv
  <1>3. Nets!Image' = Nets!Image
    BY <1>1 DEF Nets!Image
  <1>4. plan # Nets!Unloaded => PlanLoaded'
    BY <1>1 DEF EnginesInv, PlanLoaded
  <1> QED BY <1>1, <1>2, <1>3, <1>4 DEF EnginesInv, Nets!Unloaded, Nets!NoVideo, Nets!NoFrame

\* In every behaviour of the sum, for any models, model-infos and tensors whose names
\* tell them apart, and frames of any size and stride: each input of the model is the
\* one tensor that its declaration names by id, of the model's shape and under ORT one
\* size to a symbol; what is attached is what is declared; caps tell of it (start,
\* collect_inputs and run of tractinference and ortinference); and a packed frame has
\* every pixel's colours where the model wants them, no byte twice (preprocess).
THEOREM InferenceStaysConsistent ==
  Spec => []InferenceConsistent
  <1>1. Init => EnginesInv /\ PackingInv
    BY EnginesStart, PackingStarts DEF Init
  <1>2. EnginesInv /\ PackingInv /\ [Next]_dataVars => (EnginesInv /\ PackingInv)'
    <2> SUFFICES ASSUME EnginesInv, PackingInv, [Next]_dataVars
                 PROVE  EnginesInv' /\ PackingInv'
      OBVIOUS
    <2>1. CASE OnlyOf("engines") /\ Nets!Next
      <3>1. UNCHANGED packingVars
        BY <2>1 DEF OnlyOf
      <3> QED BY <2>1, <3>1, EnginesStep, PackingKept
    <2>2. CASE OnlyOf("packing") /\ Prep!Next
      <3>1. UNCHANGED engineVars
        BY <2>2 DEF OnlyOf
      <3> QED BY <2>2, <3>1, EnginesKept, PackingSteps
    <2>3. CASE OnlyOf("lines") \/ OnlyOf("boxes") \/ OnlyOf("meta")
      <3>1. UNCHANGED engineVars /\ UNCHANGED packingVars
        BY <2>3 DEF OnlyOf
      <3> QED BY <3>1, EnginesKept, PackingKept
    <2>4. CASE UNCHANGED dataVars
      <3>1. UNCHANGED engineVars /\ UNCHANGED packingVars
        BY <2>4 DEF dataVars
      <3> QED BY <3>1, EnginesKept, PackingKept
    <2> QED BY <2>1, <2>2, <2>3, <2>4 DEF Next
  <1>3. EnginesInv /\ PackingInv => InferenceConsistent
    BY EnginesAreConsistent, PackingIsFaithful DEF InferenceConsistent
  <1> QED BY <1>1, <1>2, <1>3, PTL DEF Spec

-----------------------------------------------------------------------------
(***************************************************************************)
(* Induction with a set for the predicate, and what recursion along the    *)
(* numbers and the flattening of sequences are by it.                      *)
(***************************************************************************)

\* A set that has zero and the successor of each number it has has them all:
\* the least number outside it would make the numbers before it map into
\* themselves one to one without reaching zero.
LEMMA NatSets ==
  ASSUME NEW S, 0 \in S, \A n \in Nat : n \in S => n + 1 \in S
  PROVE  Nat \subseteq S
  <1> SUFFICES ASSUME NEW m \in Nat, m \notin S PROVE FALSE
    OBVIOUS
  <1> DEFINE U == {i \in 0..m : \A j \in 0..i : j \in S}
             W == U \ {0}
             f == [i \in U |-> i + 1]
  <1>1. U \subseteq 0..m /\ 0 \in U
    OBVIOUS
  <1>2. IsFiniteSet(U) /\ Cardinality(U) \in Nat
    <2> HIDE DEF U
    <2>1. IsFiniteSet(0..m)
      BY FS_Interval
    <2> QED BY <1>1, <2>1, FS_Subset, FS_CardinalityType
  <1>3. \A i \in U : i + 1 \in W
    OBVIOUS
  <1>4. f \in [U -> W] /\ (\A i, j \in U : f[i] = f[j] => i = j)
    BY <1>3
  <1>5. IsFiniteSet(W) /\ Cardinality(W) = Cardinality(U) - 1
    BY <1>1, <1>2, FS_RemoveElement
  <1>6. f \in Injection(U, W)
    <2> HIDE DEF f, U, W
    <2> QED BY <1>4 DEF Injection, IsInjective
  <1>7. Cardinality(U) <= Cardinality(W)
    <2> HIDE DEF f, U, W
    <2> QED BY <1>2, <1>5, <1>6, FS_Injection DEF ExistsInjection
  <1> QED BY <1>2, <1>5, <1>7

\* The same up to a bound.
LEMMA UpTo ==
  ASSUME NEW S, NEW m \in Nat, 0 \in S, \A n \in 0..(m - 1) : n \in S => n + 1 \in S
  PROVE  0..m \subseteq S
  <1> DEFINE U == {n \in Nat : n <= m => n \in S}
  <1>1. 0 \in U
    OBVIOUS
  <1>2. \A n \in Nat : n \in U => n + 1 \in U
    OBVIOUS
  <1>3. Nat \subseteq U
    <2> HIDE DEF U
    <2> QED BY <1>1, <1>2, NatSets
  <1> QED BY <1>3

\* The same downward from the bound, from all the numbers above.
LEMMA DownFrom ==
  ASSUME NEW S, NEW m \in Nat,
         \A n \in 0..m : (\A k \in (n + 1)..m : k \in S) => n \in S
  PROVE  0..m \subseteq S
  <1> DEFINE U == {n \in Nat : n <= m + 1 => \A k \in (m + 1 - n)..m : k \in S}
  <1>1. 0 \in U
    OBVIOUS
  <1>2. ASSUME NEW n \in Nat, n \in U PROVE n + 1 \in U
    <2> SUFFICES ASSUME n + 1 <= m + 1 PROVE \A k \in (m + 1 - (n + 1))..m : k \in S
      OBVIOUS
    <2>1. m - n \in 0..m /\ \A k \in (m - n + 1)..m : k \in S
      BY <1>2
    <2>2. m - n \in S
      BY <2>1
    <2> QED BY <2>1, <2>2
  <1>3. Nat \subseteq U
    <2> HIDE DEF U
    <2> QED BY <1>1, <1>2, NatSets
  <1>4. m + 1 \in U
    BY <1>3
  <1> QED BY <1>4

\* A set that has the empty sequence and each sequence longer by one than one
\* it has has them all.
LEMMA SeqSets ==
  ASSUME NEW S, NEW U, <<>> \in U,
         \A s \in Seq(S), e \in S : s \in U => Append(s, e) \in U
  PROVE  Seq(S) \subseteq U
  <1> DEFINE N == {n \in Nat : \A s \in Seq(S) : Len(s) = n => s \in U}
  <1>1. 0 \in N
    BY EmptySeq
  <1>2. ASSUME NEW n \in Nat, n \in N PROVE n + 1 \in N
    <2> SUFFICES ASSUME NEW s \in Seq(S), Len(s) = n + 1 PROVE s \in U
      OBVIOUS
    <2>1. s # <<>>
      OBVIOUS
    <2>2. PICK t \in Seq(S), e \in S : s = Append(t, e)
      BY <2>1, SequenceEmptyOrAppend
    <2>3. Len(t) = n
      BY <2>2, AppendProperties, LenProperties
    <2> QED BY <1>2, <2>2, <2>3
  <1>3. Nat \subseteq N
    <2> HIDE DEF N
    <2> QED BY <1>1, <1>2, NatSets
  <1> QED BY <1>3, LenProperties

\* Recursion along an interval: the values exist when each step is a function.
Steps(T, m, x, g) == {f \in [0..m -> T] : f[0] = x /\ \A i \in 1..m : f[i] = g[i][f[i - 1]]}

\* Recursion along the numbers has a value, by induction along them.
LEMMA StepsExist ==
  ASSUME NEW T, NEW m \in Nat, NEW x \in T, NEW g,
         \A i \in 1..m, t \in T : g[i][t] \in T
  PROVE  Steps(T, m, x, g) # {}
  <1> DEFINE U == {n \in 0..m : \E f \in [0..n -> T] : f[0] = x /\ \A i \in 1..n : f[i] = g[i][f[i - 1]]}
  <1>1. 0 \in U
    <2> DEFINE f == [i \in 0..0 |-> x]
    <2>1. f \in [0..0 -> T] /\ f[0] = x /\ 1..0 = {}
      OBVIOUS
    <2> HIDE DEF f
    <2> QED BY <2>1
  <1>2. ASSUME NEW n \in 0..(m - 1), n \in U PROVE n + 1 \in U
    <2>1. PICK f \in [0..n -> T] : f[0] = x /\ \A i \in 1..n : f[i] = g[i][f[i - 1]]
      BY <1>2
    <2> DEFINE h == [i \in 0..(n + 1) |-> IF i <= n THEN f[i] ELSE g[n + 1][f[n]]]
    <2>2. n + 1 \in 1..m /\ f[n] \in T /\ g[n + 1][f[n]] \in T
      OBVIOUS
    <2>3. h \in [0..(n + 1) -> T]
      BY <2>2
    <2>4. h[0] = x /\ \A i \in 1..(n + 1) : h[i] = g[i][h[i - 1]]
      <3>1. ASSUME NEW i \in 1..(n + 1) PROVE h[i] = g[i][h[i - 1]]
        <4>1. CASE i <= n
          BY <2>1, <4>1
        <4>2. CASE i = n + 1
          BY <4>2
        <4> QED BY <4>1, <4>2
      <3> QED BY <2>1, <3>1
    <2> HIDE DEF h
    <2> QED BY <2>3, <2>4
  <1>3. 0..m \subseteq U
    <2> HIDE DEF U
    <2> QED BY <1>1, <1>2, UpTo
  <1>4. m \in U
    BY <1>3
  <1> QED BY <1>4 DEF Steps

\* Flattening nothing gives nothing.
LEMMA FlattenEmpty ==
  FlattenSeq(<<>>) = <<>>
  BY DEF FlattenSeq

\* Flattening is a function of the prefixes: each adds one sequence to the last.
Sums(T, m, s) == {f \in [0..m -> T] : f[0] = <<>> /\ \A i \in 1..m : f[i] = f[i - 1] \o s[i]}

\* The fold that flattens a sequence is this function of its prefixes.
LEMMA FlattenIs ==
  ASSUME NEW S, NEW T, T = Seq(S), NEW m \in Nat, NEW s \in [1..m -> T], Len(s) = m,
         NEW f \in Sums(T, m, s)
  PROVE  FlattenSeq(s) = f[m]
  <1>f. f \in [0..m -> T] /\ f[0] = <<>> /\ \A i \in 1..m : f[i] = f[i - 1] \o s[i]
    BY DEF Sums
  <1>1. CASE m = 0
    <2>1. s = <<>>
      BY <1>1
    <2> QED BY <1>1, <1>f, <2>1 DEF FlattenSeq
  <1>2. CASE m # 0
    <2> DEFINE R(h) == h = [i \in 1..m |-> IF i = 1 THEN s[i] ELSE h[i - 1] \o s[i]]
               flatten == CHOOSE h : R(h)
    <2>1. FlattenSeq(s) = flatten[m]
      BY <1>2 DEF FlattenSeq
    <2> DEFINE h == [i \in 1..m |-> f[i]]
    <2>2. \A i \in 1..m : f[i] = IF i = 1 THEN s[i] ELSE f[i - 1] \o s[i]
      <3> SUFFICES ASSUME NEW i \in 1..m PROVE f[i] = IF i = 1 THEN s[i] ELSE f[i - 1] \o s[i]
        OBVIOUS
      <3>1. f[i] = f[i - 1] \o s[i] /\ s[i] \in Seq(S)
        BY <1>f
      <3>2. CASE i = 1
        <4>1. f[i - 1] = <<>>
          BY <1>f, <3>2
        <4>2. <<>> \o s[i] = s[i]
          BY <3>1, ConcatEmptySeq
        <4> QED BY <3>1, <3>2, <4>1, <4>2
      <3> QED BY <3>1, <3>2
    <2>3. R(h)
      <3>1. \A i \in 1..m : i # 1 => i - 1 \in 1..m /\ h[i - 1] = f[i - 1]
        OBVIOUS
      <3> QED BY <2>2, <3>1
    <2>4. R(flatten)
      <3> HIDE DEF R, h
      <3> QED BY <2>3
    <2>5. \A i \in 1..m : flatten[i] = IF i = 1 THEN s[i] ELSE flatten[i - 1] \o s[i]
      <3> HIDE DEF flatten
      <3> QED BY <2>4
    <2> DEFINE U == {n \in 0..m : n # 0 => flatten[n] = f[n]}
    <2> HIDE DEF flatten
    <2>6. 0 \in U
      OBVIOUS
    <2>7. ASSUME NEW n \in 0..(m - 1), n \in U PROVE n + 1 \in U
      <3>1. n + 1 \in 1..m /\ (n + 1) - 1 = n
        OBVIOUS
      <3>2. n # 0 => flatten[n] = f[n]
        BY <2>7
      <3>3. flatten[n + 1] = IF n = 0 THEN s[n + 1] ELSE flatten[n] \o s[n + 1]
        <4>1. flatten[n + 1] = IF n + 1 = 1 THEN s[n + 1] ELSE flatten[(n + 1) - 1] \o s[n + 1]
          BY <2>5, <3>1, Zenon
        <4>2. n + 1 = 1 <=> n = 0
          OBVIOUS
        <4> QED BY <3>1, <4>1, <4>2, Zenon
      <3>4. f[n + 1] = IF n = 0 THEN s[n + 1] ELSE f[n] \o s[n + 1]
        <4>1. f[n + 1] = IF n + 1 = 1 THEN s[n + 1] ELSE f[(n + 1) - 1] \o s[n + 1]
          BY <2>2, <3>1, Zenon
        <4>2. n + 1 = 1 <=> n = 0
          OBVIOUS
        <4> QED BY <3>1, <4>1, <4>2, Zenon
      <3>5. flatten[n + 1] = f[n + 1]
        BY <3>2, <3>3, <3>4
      <3> QED BY <3>1, <3>5
    <2>8. 0..m \subseteq U
      <3> HIDE DEF U
      <3> QED BY <2>6, <2>7, UpTo
    <2>9. m \in U
      BY <2>8
    <2> QED BY <1>2, <2>1, <2>9
  <1> QED BY <1>1, <1>2

\* Such a function exists.
LEMMA FlattenSteps ==
  ASSUME NEW S, NEW T, T = Seq(S), NEW m \in Nat, NEW s \in [1..m -> T]
  PROVE  Sums(T, m, s) # {}
  <1> DEFINE g == [i \in 1..m |-> [t \in T |-> t \o s[i]]]
  <1>1. <<>> \in T /\ \A t, u \in T : t \o u \in T
    BY EmptySeq, ConcatProperties
  <1>3. \A i \in 1..m, t \in T : g[i][t] \in T
    BY <1>1
  <1>4. \A i \in 1..m, t \in T : g[i][t] = t \o s[i]
    OBVIOUS
  <1>5. PICK f \in Steps(T, m, <<>>, g) : TRUE
    <2> DEFINE x == <<>>
    <2> HIDE DEF g, x
    <2>1. x \in T
      BY <1>1 DEF x
    <2>2. Steps(T, m, x, g) # {}
      BY <1>3, <2>1, StepsExist
    <2> QED BY <2>2 DEF x
  <1>6. f \in [0..m -> T] /\ f[0] = <<>> /\ \A i \in 1..m : f[i] = g[i][f[i - 1]]
    BY <1>5 DEF Steps
  <1>7. \A i \in 1..m : f[i - 1] \in T
    BY <1>6
  <1>8. \A i \in 1..m : f[i] = f[i - 1] \o s[i]
    BY <1>4, <1>6, <1>7
  <1> QED BY <1>6, <1>8 DEF Sums

\* Flattening sequences of a set gives a sequence of the set.
LEMMA FlattenType ==
  ASSUME NEW S, NEW s \in Seq(Seq(S))
  PROVE  FlattenSeq(s) \in Seq(S)
  <1> DEFINE m == Len(s)
             T == Seq(S)
  <1>1. m \in Nat /\ s \in [1..m -> T] /\ Len(s) = m /\ T = Seq(S)
    BY LenProperties
  <1> HIDE DEF m, T
  <1>2. PICK f \in Sums(T, m, s) : TRUE
    BY <1>1, FlattenSteps
  <1>3. FlattenSeq(s) = f[m]
    BY <1>1, FlattenIs
  <1>4. f[m] \in T
    BY <1>1 DEF Sums
  <1> QED BY <1>3, <1>4 DEF T

\* One sequence more adds its elements at the end.
LEMMA FlattenAppend ==
  ASSUME NEW S, NEW s \in Seq(Seq(S)), NEW x \in Seq(S)
  PROVE  FlattenSeq(Append(s, x)) = FlattenSeq(s) \o x
  <1> DEFINE m == Len(s)
             t == Append(s, x)
             T == Seq(S)
  <1>1. /\ m \in Nat /\ s \in [1..m -> T] /\ Len(s) = m /\ T = Seq(S)
        /\ t \in [1..(m + 1) -> T] /\ Len(t) = m + 1
        /\ \A i \in 1..m : t[i] = s[i]
        /\ t[m + 1] = x
    <2>1. t \in Seq(T) /\ Len(t) = m + 1
      BY AppendProperties
    <2>2. t \in [1..(m + 1) -> T]
      BY <2>1, LenProperties
    <2> QED BY <2>1, <2>2, AppendProperties, LenProperties
  <1>2. PICK f \in Sums(T, m, s) : TRUE
    <2> HIDE DEF m, T
    <2> QED BY <1>1, FlattenSteps
  <1>f. f \in [0..m -> T] /\ f[0] = <<>> /\ \A i \in 1..m : f[i] = f[i - 1] \o s[i]
    BY DEF Sums
  <1>3. f[m] \in T /\ f[m] \o x \in T
    <2> HIDE DEF m
    <2>1. f[m] \in T
      BY <1>1, <1>f
    <2> QED BY <1>1, <2>1, ConcatProperties
  <1>4. FlattenSeq(s) = f[m]
    <2>1. m \in Nat /\ s \in [1..m -> T] /\ Len(s) = m /\ T = Seq(S)
      BY <1>1
    <2> HIDE DEF m, T
    <2> QED BY <2>1, <1>2, FlattenIs
  <1> HIDE DEF m, t, T
  <1> DEFINE h == [i \in 0..(m + 1) |-> IF i <= m THEN f[i] ELSE f[m] \o x]
  <1>5. h \in [0..(m + 1) -> T]
    BY <1>1, <1>3, <1>f
  <1>6. ASSUME NEW i \in 1..(m + 1) PROVE h[i] = h[i - 1] \o t[i]
    <2>1. CASE i <= m
      <3>1. h[i] = f[i] /\ h[i - 1] = f[i - 1] /\ t[i] = s[i] /\ i \in 1..m
        BY <1>1, <2>1
      <3> QED BY <1>f, <3>1
    <2>2. CASE i = m + 1
      <3>1. h[i] = f[m] \o x /\ h[i - 1] = f[m] /\ t[i] = x
        BY <1>1, <2>2
      <3> QED BY <3>1
    <2>3. i <= m \/ i = m + 1
      BY <1>1
    <2> QED BY <2>1, <2>2, <2>3
  <1>7. h[0] = <<>> /\ h[m + 1] = f[m] \o x /\ m + 1 \in Nat
    BY <1>1, <1>f
  <1>8. FlattenSeq(t) = h[m + 1]
    <2> DEFINE k == m + 1
    <2>1. k \in Nat /\ t \in [1..k -> T] /\ Len(t) = k /\ h \in [0..k -> T] /\ h[0] = <<>>
      BY <1>1, <1>5, <1>7
    <2>2. \A i \in 1..k : h[i] = h[i - 1] \o t[i]
      BY <1>6
    <2>3. h \in Sums(T, k, t)
      <3> HIDE DEF h, k
      <3> QED BY <2>1, <2>2 DEF Sums
    <2> HIDE DEF h, k
    <2>4. k \in Nat /\ t \in [1..k -> T] /\ Len(t) = k /\ T = Seq(S)
      BY <1>1, <2>1
    <2>5. FlattenSeq(t) = h[k]
      BY <2>4, <2>3, FlattenIs
    <2> QED BY <2>5 DEF k
  <1> QED BY <1>4, <1>7, <1>8 DEF t

\* Flattening two sequences after each other is flattening each.
LEMMA FlattenConcat ==
  ASSUME NEW S, NEW s \in Seq(Seq(S)), NEW t \in Seq(Seq(S))
  PROVE  FlattenSeq(s \o t) = FlattenSeq(s) \o FlattenSeq(t)
  <1> DEFINE U == {u \in Seq(Seq(S)) : FlattenSeq(s \o u) = FlattenSeq(s) \o FlattenSeq(u)}
  <1>1. <<>> \in U
    <2>1. FlattenSeq(s) \in Seq(S) /\ <<>> \in Seq(Seq(S)) /\ s \o <<>> = s
      BY FlattenType, EmptySeq, ConcatEmptySeq
    <2>2. FlattenSeq(s) \o <<>> = FlattenSeq(s)
      BY <2>1, ConcatEmptySeq
    <2> QED BY <2>1, <2>2, FlattenEmpty
  <1>2. ASSUME NEW u \in Seq(Seq(S)), NEW x \in Seq(S), u \in U PROVE Append(u, x) \in U
    <2>1. /\ s \o u \in Seq(Seq(S)) /\ Append(u, x) \in Seq(Seq(S))
          /\ FlattenSeq(u) \in Seq(S) /\ FlattenSeq(s) \in Seq(S)
      BY ConcatProperties, AppendProperties, FlattenType
    <2>2. s \o Append(u, x) = Append(s \o u, x)
      OBVIOUS
    <2>3. FlattenSeq(Append(s \o u, x)) = (FlattenSeq(s) \o FlattenSeq(u)) \o x
      BY <1>2, <2>1, FlattenAppend
    <2>4. FlattenSeq(s) \o FlattenSeq(Append(u, x)) = FlattenSeq(s) \o (FlattenSeq(u) \o x)
      BY FlattenAppend
    <2>5. (FlattenSeq(s) \o FlattenSeq(u)) \o x = FlattenSeq(s) \o (FlattenSeq(u) \o x)
      BY <2>1, ConcatAssociative
    <2> QED BY <2>1, <2>2, <2>3, <2>4, <2>5
  <1>3. Seq(Seq(S)) \subseteq U
    <2> HIDE DEF U
    <2> QED BY <1>1, <1>2, SeqSets
  <1> QED BY <1>3

-----------------------------------------------------------------------------
(***************************************************************************)
(* The metadata. A header map written as an array and read back is the map *)
(* it was: by induction along the array, a name's values are those of the  *)
(* headers with it, and the block of one name has none of another.         *)
(***************************************************************************)
Header(name, value) == [name |-> name, value |-> value]
HeadersOf(N, W) == [name: N, value: W]
Piece(header, name) == IF header.name = name THEN <<header.value>> ELSE <<>>
Pieces(headers, name) == [i \in DOMAIN headers |-> Piece(headers[i], name)]
HaveValues(H, W) == \A h \in H : h.value \in W
Block(name, values) == [i \in DOMAIN values |-> Header(name, values[i])]

\* What the module's library operators are.
LEMMA MetaLibrary ==
  /\ \A s : Meta!FlattenSeq(s) = FlattenSeq(s)
  /\ \A s : Meta!ToSet(s) = {s[i] : i \in DOMAIN s}
  /\ \A S : Meta!Cardinality(S) = Cardinality(S)
  /\ \A s, t : Meta!IsPrefix(s, t) <=> Len(s) <= Len(t) /\ SubSeq(s, 1, Len(s)) = SubSeq(t, 1, Len(s))
  /\ \A S, n : \A s \in Meta!BoundedSeq(S, n) : s \in Seq(S)
  <1>1. ASSUME NEW S, NEW n, NEW s \in Meta!BoundedSeq(S, n) PROVE s \in Seq(S)
    <2>1. PICK m \in 0..n : s \in [1..m -> S]
      BY DEF Meta!BoundedSeq, Meta!SeqOf
    <2>2. m \in Nat
      OBVIOUS
    <2> QED BY <2>1, <2>2, SeqDef
  <1>2. \A s : Meta!FlattenSeq(s) = FlattenSeq(s)
    BY DEF Meta!FlattenSeq, FlattenSeq
  <1>3. \A S : Meta!Cardinality(S) = Cardinality(S)
    BY DEF Meta!Cardinality, Cardinality
  <1>4. \A s : Meta!ToSet(s) = {s[i] : i \in DOMAIN s}
    BY DEF Meta!ToSet
  <1>5. \A s, t : Meta!IsPrefix(s, t) <=> Len(s) <= Len(t) /\ SubSeq(s, 1, Len(s)) = SubSeq(t, 1, Len(s))
    BY DEF Meta!IsPrefix
  <1> QED BY <1>1, <1>2, <1>3, <1>4, <1>5

\* The values of a name are its pieces, flattened.
LEMMA ValuesOfIs ==
  ASSUME NEW s, NEW name
  PROVE  Meta!ValuesOf(s, name) = FlattenSeq(Pieces(s, name))
  BY MetaLibrary DEF Meta!ValuesOf, Pieces, Piece

\* The pieces of a sequence that grows by one header, and of two after each other.
LEMMA PiecesOf ==
  ASSUME NEW H, NEW W, HaveValues(H, W), NEW s \in Seq(H), NEW name
  PROVE  /\ Pieces(s, name) \in Seq(Seq(W))
         /\ \A h \in H :
              Pieces(Append(s, h), name) = Append(Pieces(s, name), Piece(h, name))
         /\ \A t \in Seq(H) : Pieces(s \o t, name) = Pieces(s, name) \o Pieces(t, name)
  <1> DEFINE T == Seq(W)
  <1>1. \A h \in H : Piece(h, name) \in T
    <2> SUFFICES ASSUME NEW h \in H PROVE Piece(h, name) \in T
      OBVIOUS
    <2>1. <<h.value>> \in T /\ <<>> \in T
      <3> h.value \in W
        BY DEF HaveValues
      <3> QED OBVIOUS
    <2> QED BY <2>1 DEF Piece
  <1>2. ASSUME NEW t \in Seq(H)
        PROVE  /\ Pieces(t, name) \in Seq(T) /\ Len(Pieces(t, name)) = Len(t)
               /\ \A i \in 1..Len(t) : Pieces(t, name)[i] = Piece(t[i], name)
    <2> HIDE DEF T
    <2>1. \A i \in 1..Len(t) : t[i] \in H
      BY ElementOfSeq
    <2>2. DOMAIN t = 1..Len(t) /\ Len(t) \in Nat
      BY LenProperties
    <2>3. Pieces(t, name) \in [1..Len(t) -> T]
      BY <1>1, <2>1, <2>2 DEF Pieces
    <2>4. Pieces(t, name) \in Seq(T)
      BY <2>2, <2>3, SeqDef
    <2>5. DOMAIN Pieces(t, name) = 1..Len(t)
      BY <2>2 DEF Pieces
    <2>6. Len(Pieces(t, name)) = Len(t)
      BY <2>2, <2>4, <2>5, LenProperties
    <2> QED BY <2>2, <2>4, <2>6 DEF Pieces
  <1>3. ASSUME NEW h \in H PROVE Pieces(Append(s, h), name) = Append(Pieces(s, name), Piece(h, name))
    <2> DEFINE p == Pieces(Append(s, h), name)
               q == Append(Pieces(s, name), Piece(h, name))
    <2> HIDE DEF T
    <2>1. /\ Append(s, h) \in Seq(H) /\ Len(Append(s, h)) = Len(s) + 1 /\ Len(s) \in Nat
          /\ \A i \in 1..Len(s) : Append(s, h)[i] = s[i]
          /\ Append(s, h)[Len(s) + 1] = h
      BY AppendProperties, LenProperties
    <2>2. /\ p \in Seq(T) /\ Len(p) = Len(s) + 1
          /\ \A i \in 1..(Len(s) + 1) : p[i] = Piece(Append(s, h)[i], name)
      BY <1>2, <2>1
    <2>3. /\ Pieces(s, name) \in Seq(T) /\ Len(Pieces(s, name)) = Len(s)
          /\ \A i \in 1..Len(s) : Pieces(s, name)[i] = Piece(s[i], name)
      BY <1>2
    <2>4. /\ q \in Seq(T) /\ Len(q) = Len(s) + 1
          /\ \A i \in 1..Len(s) : q[i] = Pieces(s, name)[i]
          /\ q[Len(s) + 1] = Piece(h, name)
      BY <1>1, <2>3, AppendProperties
    <2>5. \A i \in 1..(Len(s) + 1) : p[i] = q[i]
      <3> SUFFICES ASSUME NEW i \in 1..(Len(s) + 1) PROVE p[i] = q[i]
        OBVIOUS
      <3>1. i \in 1..Len(s) \/ i = Len(s) + 1
        BY <2>1
      <3> HIDE DEF p, q
      <3> QED BY <2>1, <2>2, <2>3, <2>4, <3>1
    <2> HIDE DEF p, q
    <2>6. p = q
      BY <2>2, <2>4, <2>5, SeqEqual
    <2> QED BY <2>6 DEF p, q
  <1>4. ASSUME NEW t \in Seq(H) PROVE Pieces(s \o t, name) = Pieces(s, name) \o Pieces(t, name)
    <2> DEFINE p == Pieces(s \o t, name)
               q == Pieces(s, name) \o Pieces(t, name)
    <2>0. s \in Seq(H)
      OBVIOUS
    <2> HIDE DEF T
    <2>1. /\ s \o t \in Seq(H) /\ Len(s \o t) = Len(s) + Len(t) /\ Len(s) \in Nat /\ Len(t) \in Nat
          /\ \A i \in 1..(Len(s) + Len(t)) : (s \o t)[i] = IF i <= Len(s) THEN s[i] ELSE t[i - Len(s)]
      BY <2>0, ConcatProperties, LenProperties
    <2>2. /\ p \in Seq(T) /\ Len(p) = Len(s) + Len(t)
          /\ \A i \in 1..(Len(s) + Len(t)) : p[i] = Piece((s \o t)[i], name)
      BY <1>2, <2>1
    <2>3. /\ Pieces(s, name) \in Seq(T) /\ Len(Pieces(s, name)) = Len(s)
          /\ \A i \in 1..Len(s) : Pieces(s, name)[i] = Piece(s[i], name)
          /\ Pieces(t, name) \in Seq(T) /\ Len(Pieces(t, name)) = Len(t)
          /\ \A i \in 1..Len(t) : Pieces(t, name)[i] = Piece(t[i], name)
      BY <1>2, <2>0
    <2>4. /\ q \in Seq(T) /\ Len(q) = Len(s) + Len(t)
          /\ \A i \in 1..(Len(s) + Len(t)) :
               q[i] = IF i <= Len(s) THEN Pieces(s, name)[i] ELSE Pieces(t, name)[i - Len(s)]
      <3> DEFINE a == Pieces(s, name)
                 b == Pieces(t, name)
      <3>1. a \in Seq(T) /\ b \in Seq(T) /\ Len(a) = Len(s) /\ Len(b) = Len(t)
        BY <2>3
      <3> HIDE DEF a, b
      <3>2. /\ a \o b \in Seq(T) /\ Len(a \o b) = Len(a) + Len(b)
            /\ \A i \in 1..(Len(a) + Len(b)) : (a \o b)[i] = IF i <= Len(a) THEN a[i] ELSE b[i - Len(a)]
        BY <3>1, ConcatProperties
      <3> QED BY <3>1, <3>2 DEF a, b
    <2>5. \A i \in 1..(Len(s) + Len(t)) : p[i] = q[i]
      <3> SUFFICES ASSUME NEW i \in 1..(Len(s) + Len(t)) PROVE p[i] = q[i]
        OBVIOUS
      <3> HIDE DEF p, q
      <3>1. CASE i <= Len(s)
        <4>1. i \in 1..Len(s) /\ (s \o t)[i] = s[i]
          BY <2>1, <3>1
        <4> QED BY <2>2, <2>3, <2>4, <3>1, <4>1
      <3>2. CASE ~(i <= Len(s))
        <4>1. i - Len(s) \in 1..Len(t) /\ (s \o t)[i] = t[i - Len(s)]
          BY <2>1, <3>2
        <4> QED BY <2>2, <2>3, <2>4, <3>2, <4>1
      <3> QED BY <3>1, <3>2
    <2> HIDE DEF p, q
    <2>6. p = q
      BY <2>1, <2>2, <2>4, <2>5, SeqEqual
    <2> QED BY <2>6 DEF p, q
  <1> QED BY <1>2, <1>3, <1>4

\* A name's values: of no header, of one header more, of two sequences.
LEMMA ValuesOfSteps ==
  ASSUME NEW H, NEW W, HaveValues(H, W), NEW s \in Seq(H), NEW name
  PROVE  /\ Meta!ValuesOf(<<>>, name) = <<>>
         /\ Meta!ValuesOf(s, name) \in Seq(W)
         /\ \A h \in H :
              Meta!ValuesOf(Append(s, h), name) = Meta!ValuesOf(s, name) \o Piece(h, name)
         /\ \A t \in Seq(H) :
              Meta!ValuesOf(s \o t, name) = Meta!ValuesOf(s, name) \o Meta!ValuesOf(t, name)
  <1>1. Meta!ValuesOf(<<>>, name) = <<>>
    <2>1. Pieces(<<>>, name) = <<>>
      BY DEF Pieces
    <2> QED BY <2>1, ValuesOfIs, FlattenEmpty
  <1>2. Pieces(s, name) \in Seq(Seq(W))
    BY PiecesOf
  <1>3. Meta!ValuesOf(s, name) \in Seq(W)
    BY <1>2, ValuesOfIs, FlattenType
  <1>4. ASSUME NEW h \in H
        PROVE  Meta!ValuesOf(Append(s, h), name) = Meta!ValuesOf(s, name) \o Piece(h, name)
    <2>1. Pieces(Append(s, h), name) = Append(Pieces(s, name), Piece(h, name))
      BY PiecesOf
    <2>2. Piece(h, name) \in Seq(W)
      <3> h.value \in W
        BY DEF HaveValues
      <3> QED BY DEF Piece
    <2> QED BY <1>2, <2>1, <2>2, ValuesOfIs, FlattenAppend
  <1>5. ASSUME NEW t \in Seq(H)
        PROVE  Meta!ValuesOf(s \o t, name) = Meta!ValuesOf(s, name) \o Meta!ValuesOf(t, name)
    <2>1. Pieces(s \o t, name) = Pieces(s, name) \o Pieces(t, name) /\ Pieces(t, name) \in Seq(Seq(W))
      BY PiecesOf
    <2> QED BY <1>2, <2>1, ValuesOfIs, FlattenConcat
  <1> QED BY <1>1, <1>3, <1>4, <1>5

\* One header more adds its value when it has the name.
LEMMA ValuesOfAppend ==
  ASSUME NEW H, NEW W, HaveValues(H, W), NEW s \in Seq(H), NEW h \in H, NEW name
  PROVE  Meta!ValuesOf(Append(s, h), name) = Meta!ValuesOf(s, name) \o Piece(h, name)
  BY ValuesOfSteps

\* The values of two header sequences after each other.
LEMMA ValuesOfConcat ==
  ASSUME NEW H, NEW W, HaveValues(H, W), NEW s \in Seq(H), NEW t \in Seq(H), NEW name
  PROVE  Meta!ValuesOf(s \o t, name) = Meta!ValuesOf(s, name) \o Meta!ValuesOf(t, name)
  BY ValuesOfSteps

\* A name has values exactly when a header has the name.
LEMMA ValuesAreThere ==
  ASSUME NEW H, NEW W, HaveValues(H, W), NEW s \in Seq(H), NEW name
  PROVE  Meta!ValuesOf(s, name) # <<>> <=> \E i \in 1..Len(s) : s[i].name = name
  <1> DEFINE Has(t) == \E i \in 1..Len(t) : t[i].name = name
             U == {t \in Seq(H) : Meta!ValuesOf(t, name) # <<>> <=> Has(t)}
  <1>1. <<>> \in U
    <2>1. Meta!ValuesOf(<<>>, name) = <<>>
      BY ValuesOfSteps
    <2>2. ~Has(<<>>) /\ <<>> \in Seq(H)
      BY EmptySeq
    <2> QED BY <2>1, <2>2
  <1>2. ASSUME NEW t \in Seq(H), NEW h \in H, t \in U PROVE Append(t, h) \in U
    <2>0. /\ Meta!ValuesOf(t, name) \in Seq(W)
          /\ Meta!ValuesOf(Append(t, h), name) = Meta!ValuesOf(t, name) \o Piece(h, name)
      BY ValuesOfSteps
    <2> DEFINE a == Meta!ValuesOf(t, name)
               b == Piece(h, name)
    <2>1. Meta!ValuesOf(Append(t, h), name) = a \o b /\ a \in Seq(W)
      BY <2>0
    <2>2. b \in Seq(W) /\ (b # <<>> <=> h.name = name)
      <3> h.value \in W
        BY DEF HaveValues
      <3> QED BY DEF Piece
    <2>3. a \o b # <<>> <=> a # <<>> \/ b # <<>>
      <3> HIDE DEF a, b
      <3> QED BY <2>1, <2>2, ConcatEqualIffEmpty
    <2>4. Has(Append(t, h)) <=> Has(t) \/ h.name = name
      <3>1. /\ Len(Append(t, h)) = Len(t) + 1 /\ Len(t) \in Nat
            /\ \A i \in 1..Len(t) : Append(t, h)[i] = t[i]
            /\ Append(t, h)[Len(t) + 1] = h
        BY AppendProperties, LenProperties
      <3>2. \A i \in 1..(Len(t) + 1) : i \in 1..Len(t) \/ i = Len(t) + 1
        BY <3>1
      <3>3. \A i \in 1..Len(t) : i \in 1..(Len(t) + 1)
        BY <3>1
      <3>4. Len(t) + 1 \in 1..(Len(t) + 1)
        BY <3>1
      <3> QED BY <3>1, <3>2, <3>3, <3>4
    <2>5. a # <<>> <=> Has(t)
      BY <1>2
    <2>6. Append(t, h) \in Seq(H)
      BY AppendProperties
    <2> QED BY <2>1, <2>2, <2>3, <2>4, <2>5, <2>6
  <1>3. Seq(H) \subseteq U
    <2> HIDE DEF U
    <2> QED BY <1>1, <1>2, SeqSets
  <1> QED BY <1>3

\* The block of a name has its values, and none of another name.
LEMMA ValuesOfBlock ==
  ASSUME NEW N, NEW W, NEW m \in N, NEW values \in Seq(W), NEW name
  PROVE  /\ Block(m, values) \in Seq(HeadersOf(N, W))
         /\ Meta!ValuesOf(Block(m, values), name) = IF m = name THEN values ELSE <<>>
  <1> DEFINE H == HeadersOf(N, W)
             U == {v \in Seq(W) : /\ Block(m, v) \in Seq(H)
                                  /\ Meta!ValuesOf(Block(m, v), name) = IF m = name THEN v ELSE <<>>}
  <1>0. /\ HaveValues(H, W)
        /\ \A w \in W : /\ Header(m, w) \in H /\ Header(m, w).name = m /\ Header(m, w).value = w
    BY DEF Header, HaveValues, HeadersOf
  <1> HIDE DEF H
  <1>1. <<>> \in U
    <2>1. Block(m, <<>>) = <<>> /\ <<>> \in Seq(H) /\ <<>> \in Seq(W)
      BY EmptySeq DEF Block
    <2>2. Meta!ValuesOf(<<>>, name) = <<>>
      BY <1>0, <2>1, ValuesOfSteps
    <2> QED BY <2>1, <2>2
  <1>2. ASSUME NEW v \in Seq(W), NEW w \in W, v \in U PROVE Append(v, w) \in U
    <2> DEFINE b == Block(m, v)
               h == Header(m, w)
               c == Block(m, Append(v, w))
    <2>1. /\ Append(v, w) \in Seq(W) /\ Len(Append(v, w)) = Len(v) + 1 /\ Len(v) \in Nat
          /\ \A i \in 1..Len(v) : Append(v, w)[i] = v[i]
          /\ Append(v, w)[Len(v) + 1] = w /\ DOMAIN Append(v, w) = 1..(Len(v) + 1)
          /\ DOMAIN v = 1..Len(v) /\ \A i \in 1..Len(v) : v[i] \in W
      BY AppendProperties, LenProperties, ElementOfSeq
    <2>2. b \in Seq(H) /\ h \in H
      BY <1>0, <1>2
    <2>3. Len(b) = Len(v) /\ \A i \in 1..Len(v) : b[i] = Header(m, v[i])
      <3>1. DOMAIN b = 1..Len(v) /\ \A i \in 1..Len(v) : b[i] = Header(m, v[i])
        BY <2>1 DEF Block
      <3> HIDE DEF b
      <3> QED BY <2>1, <2>2, <3>1, LenProperties
    <2>4. DOMAIN c = 1..(Len(v) + 1) /\ \A i \in 1..(Len(v) + 1) : c[i] = Header(m, Append(v, w)[i])
      BY <2>1 DEF Block
    <2>5. c \in [1..(Len(v) + 1) -> H] /\ Len(v) + 1 \in Nat
      <3>1. \A i \in 1..(Len(v) + 1) : Append(v, w)[i] \in W
        <4>1. \A i \in 1..(Len(v) + 1) : i \in 1..Len(v) \/ i = Len(v) + 1
          BY <2>1
        <4> QED BY <2>1, <4>1
      <3>2. c = [i \in DOMAIN Append(v, w) |-> Header(m, Append(v, w)[i])]
        BY DEF Block
      <3> QED BY <1>0, <2>1, <3>1, <3>2
    <2>6. c \in Seq(H) /\ Len(c) = Len(v) + 1
      <3> HIDE DEF c
      <3>1. c \in Seq(H)
        BY <2>5, SeqDef
      <3> QED BY <2>1, <2>4, <3>1, LenProperties
    <2>7. /\ Append(b, h) \in Seq(H) /\ Len(Append(b, h)) = Len(v) + 1
          /\ \A i \in 1..Len(v) : Append(b, h)[i] = b[i]
          /\ Append(b, h)[Len(v) + 1] = h
      <3> HIDE DEF b, h
      <3> QED BY <2>2, <2>3, AppendProperties
    <2>8. c = Append(b, h)
      <3> DEFINE d == Append(b, h)
      <3>1. \A i \in 1..(Len(v) + 1) : c[i] = d[i]
        <4> SUFFICES ASSUME NEW i \in 1..(Len(v) + 1) PROVE c[i] = d[i]
          OBVIOUS
        <4>1. i \in 1..Len(v) \/ i = Len(v) + 1
          BY <2>1
        <4> HIDE DEF c, b
        <4> QED BY <2>1, <2>3, <2>4, <2>7, <4>1
      <3>2. d \in Seq(H) /\ Len(d) = Len(v) + 1
        BY <2>7
      <3> HIDE DEF c, d
      <3>3. c = d
        BY <2>1, <2>6, <3>1, <3>2, SeqEqual
      <3> QED BY <3>3 DEF d
    <2>9. Meta!ValuesOf(c, name) = Meta!ValuesOf(b, name) \o Piece(h, name)
      <3> HIDE DEF b, h, c
      <3> QED BY <1>0, <2>2, <2>8, ValuesOfAppend
    <2>10. Meta!ValuesOf(b, name) = IF m = name THEN v ELSE <<>>
      BY <1>2
    <2>11. Piece(h, name) = IF m = name THEN <<w>> ELSE <<>>
      BY <1>0 DEF Piece
    <2>12. Append(v, w) = v \o <<w>> /\ <<>> \o <<>> = <<>>
      BY AppendIsConcat
    <2>13. Meta!ValuesOf(c, name) = IF m = name THEN Append(v, w) ELSE <<>>
      <3> HIDE DEF b, h, c
      <3> QED BY <2>9, <2>10, <2>11, <2>12
    <2> QED BY <2>1, <2>6, <2>13
  <1>3. Seq(W) \subseteq U
    <2> HIDE DEF U
    <2> QED BY <1>1, <1>2, SeqSets
  <1> QED BY <1>3 DEF H

\* A header map: finitely many names, each with values.
IsMap(map, W) ==
  /\ map = [name \in DOMAIN map |-> map[name]] /\ IsFiniteSet(DOMAIN map)
  /\ \A name \in DOMAIN map : map[name] \in Seq(W) /\ map[name] # <<>>

\* What is appended header by header is one.
LEMMA HeaderMapIs ==
  ASSUME NEW H, NEW W, HaveValues(H, W), NEW s \in Seq(H)
  PROVE  IsMap(Meta!HeaderMap(s), W)
  <1> DEFINE D == {s[i].name : i \in 1..Len(s)}
             map == Meta!HeaderMap(s)
  <1>1. Len(s) \in Nat /\ DOMAIN s = 1..Len(s)
    BY LenProperties
  <1>2. map = [name \in D |-> Meta!ValuesOf(s, name)]
    <2>1. {h.name : h \in Meta!ToSet(s)} = D
      BY <1>1, MetaLibrary
    <2> QED BY <2>1 DEF Meta!HeaderMap
  <1>3. \A name \in D : Meta!ValuesOf(s, name) \in Seq(W) /\ Meta!ValuesOf(s, name) # <<>>
    <2>1. \A name \in D : \E i \in 1..Len(s) : s[i].name = name
      OBVIOUS
    <2> HIDE DEF D
    <2> QED BY <2>1, ValuesOfSteps, ValuesAreThere
  <1>4. IsFiniteSet(D)
    <2> DEFINE f == [i \in 1..Len(s) |-> s[i].name]
    <2>1. f \in [1..Len(s) -> D] /\ \A d \in D : \E i \in 1..Len(s) : f[i] = d
      OBVIOUS
    <2>2. f \in Surjection(1..Len(s), D)
      <3> HIDE DEF f, D
      <3> QED BY <2>1 DEF Surjection
    <2>3. IsFiniteSet(1..Len(s))
      BY <1>1, FS_Interval
    <2> HIDE DEF f, D
    <2> QED BY <2>2, <2>3, FS_Surjection
  <1> HIDE DEF D
  <1>5. DOMAIN map = D /\ \A name \in D : map[name] = Meta!ValuesOf(s, name)
    BY <1>2
  <1> QED BY <1>2, <1>3, <1>4, <1>5 DEF IsMap

\* Read back, an array of a map is the map.
LEMMA ArrayIsMap ==
  ASSUME NEW W, NEW map, IsMap(map, W), NEW array \in Meta!ArraysOf(map)
  PROVE  /\ Meta!HeaderMap(array) = map
         /\ array \in Seq(HeadersOf(DOMAIN map, W))
  <1> DEFINE D == DOMAIN map
             H == HeadersOf(D, W)
             B(n) == Block(n, map[n])
  <1>1. IsFiniteSet(D) /\ \A n \in D : map[n] \in Seq(W) /\ map[n] # <<>>
    BY DEF IsMap
  <1>2. PICK names \in Meta!SetToSeqs(D) :
          array = Meta!FlattenSeq([n \in DOMAIN names |->
            [i \in DOMAIN map[names[n]] |-> [name |-> names[n], value |-> map[names[n]][i]]]])
    BY DEF Meta!ArraysOf
  <1> DEFINE c == Cardinality(D)
  <1>3. /\ c \in Nat /\ names \in [1..c -> D]
        /\ \A i, j \in 1..c : i # j => names[i] # names[j]
    <2>1. Meta!Cardinality(D) = c
      BY MetaLibrary
    <2>2. c \in Nat
      BY <1>1, FS_CardinalityType
    <2> QED BY <2>1, <2>2 DEF Meta!SetToSeqs
  <1>4. \A n \in D : \E i \in 1..c : names[i] = n
    <2>1. names \in Injection(1..c, D)
      BY <1>3 DEF Injection, IsInjective
    <2>2. Cardinality(1..c) = c
      BY <1>3, FS_Interval
    <2>3. names \in Surjection(1..c, D)
      <3> HIDE DEF D
      <3> QED BY <1>1, <2>1, <2>2, FS_Injection DEF c
    <2> QED BY <2>3 DEF Surjection
  <1> DEFINE blocks(k) == [n \in 1..k |-> B(names[n])]
             part1(k) == FlattenSeq(blocks(k))
  <1>5. array = FlattenSeq(blocks(c))
    <2>1. DOMAIN names = 1..c
      BY <1>3
    <2> QED BY <1>2, <2>1, MetaLibrary DEF Block, Header
  <1>6. HaveValues(H, W)
    BY DEF HaveValues, HeadersOf
  <1>7. \A n \in D : \A name : B(n) \in Seq(H) /\ Meta!ValuesOf(B(n), name) = IF n = name THEN map[n] ELSE <<>>
    <2> SUFFICES ASSUME NEW n \in D, NEW name
                 PROVE  B(n) \in Seq(H) /\ Meta!ValuesOf(B(n), name) = IF n = name THEN map[n] ELSE <<>>
      OBVIOUS
    <2> DEFINE v == map[n]
    <2>1. v \in Seq(W)
      BY <1>1
    <2> HIDE DEF D, v
    <2>2. /\ Block(n, v) \in Seq(HeadersOf(D, W))
          /\ Meta!ValuesOf(Block(n, v), name) = IF n = name THEN v ELSE <<>>
      BY <2>1, ValuesOfBlock
    <2> QED BY <2>2 DEF v
  <1> HIDE DEF D, H, B, c
  <1>8. \A k \in 0..c : blocks(k) \in Seq(Seq(H)) /\ Len(blocks(k)) = k
    <2> SUFFICES ASSUME NEW k \in 0..c PROVE blocks(k) \in Seq(Seq(H)) /\ Len(blocks(k)) = k
      OBVIOUS
    <2>1. blocks(k) \in [1..k -> Seq(H)] /\ k \in Nat /\ DOMAIN blocks(k) = 1..k
      <3>1. k \in Nat /\ \A n \in 1..k : names[n] \in D
        BY <1>3
      <3> QED BY <1>7, <3>1
    <2> DEFINE b == blocks(k)
    <2> HIDE DEF blocks
    <2>2. b \in Seq(Seq(H))
      BY <2>1, SeqDef
    <2> QED BY <2>1, <2>2, LenProperties
  <1> DEFINE Got(k) == {names[i] : i \in 1..k}
             U == {k \in 0..c : /\ FlattenSeq(blocks(k)) \in Seq(H)
                                /\ \A name : Meta!ValuesOf(FlattenSeq(blocks(k)), name) =
                                               IF name \in Got(k) THEN map[name] ELSE <<>>}
  <1>9. 0 \in U
    <2>1. blocks(0) = <<>> /\ Got(0) = {}
      OBVIOUS
    <2>2. FlattenSeq(blocks(0)) = <<>> /\ <<>> \in Seq(H)
      BY <2>1, FlattenEmpty, EmptySeq
    <2>3. \A name : Meta!ValuesOf(<<>>, name) = <<>>
      BY <1>6, <2>2, ValuesOfSteps
    <2>4. FlattenSeq(blocks(0)) \in Seq(H)
      BY <2>2
    <2>5. \A name : Meta!ValuesOf(FlattenSeq(blocks(0)), name) = IF name \in Got(0) THEN map[name] ELSE <<>>
      <3> HIDE DEF blocks, Got
      <3> QED BY <2>1, <2>2, <2>3
    <2>6. 0 \in 0..c
      BY <1>3
    <2> HIDE DEF blocks, Got
    <2> QED BY <2>4, <2>5, <2>6
  <1>10. ASSUME NEW k \in 0..(c - 1), k \in U PROVE k + 1 \in U
    <2> DEFINE n == names[k + 1]
               f == FlattenSeq(blocks(k))
               g == FlattenSeq(blocks(k + 1))
    <2>1. k + 1 \in 1..c /\ k + 1 \in 0..c /\ k \in 0..c /\ n \in D
      BY <1>3
    <2>2. blocks(k + 1) = Append(blocks(k), B(n))
      <3> DEFINE b == blocks(k)
                 d == blocks(k + 1)
                 e == Append(b, B(n))
      <3>1. /\ b \in Seq(Seq(H)) /\ Len(b) = k /\ B(n) \in Seq(H)
            /\ d \in Seq(Seq(H)) /\ Len(d) = k + 1
        <4> HIDE DEF blocks
        <4> QED BY <1>7, <1>8, <2>1
      <3>2. /\ \A i \in 1..k : b[i] = B(names[i])
            /\ \A i \in 1..(k + 1) : d[i] = B(names[i])
        OBVIOUS
      <3> HIDE DEF blocks
      <3>3. /\ e \in Seq(Seq(H)) /\ Len(e) = k + 1 /\ e[k + 1] = B(n)
            /\ \A i \in 1..k : e[i] = b[i]
        BY <3>1, AppendProperties
      <3>4. \A i \in 1..(k + 1) : d[i] = e[i]
        <4> SUFFICES ASSUME NEW i \in 1..(k + 1) PROVE d[i] = e[i]
          OBVIOUS
        <4>1. i \in 1..k \/ i = k + 1
          OBVIOUS
        <4> HIDE DEF b, d, e
        <4> QED BY <3>2, <3>3, <4>1
      <3> HIDE DEF b, d, e
      <3>5. d = e
        BY <3>1, <3>3, <3>4, SeqEqual
      <3> QED BY <3>5 DEF b, d, e
    <2>3. f \in Seq(H) /\ \A name : Meta!ValuesOf(f, name) = IF name \in Got(k) THEN map[name] ELSE <<>>
      BY <1>10
    <2>4. g = f \o B(n)
      <3> HIDE DEF blocks
      <3> QED BY <1>7, <1>8, <2>1, <2>2, FlattenAppend
    <2>5. n \notin Got(k) /\ Got(k + 1) = Got(k) \cup {n}
      <3>1. \A i \in 1..k : i \in 1..c /\ i # k + 1 /\ i \in 1..(k + 1)
        BY <1>3
      <3>2. \A i \in 1..(k + 1) : i \in 1..k \/ i = k + 1
        OBVIOUS
      <3>3. k + 1 \in 1..(k + 1)
        OBVIOUS
      <3> QED BY <1>3, <2>1, <3>1, <3>2, <3>3
    <2> HIDE DEF blocks, Got, f, g
    <2>6. g \in Seq(H)
      BY <1>7, <2>1, <2>3, <2>4, ConcatProperties
    <2>7. ASSUME NEW name
          PROVE  Meta!ValuesOf(g, name) = IF name \in Got(k + 1) THEN map[name] ELSE <<>>
      <3>1. /\ Meta!ValuesOf(g, name) = Meta!ValuesOf(f, name) \o Meta!ValuesOf(B(n), name)
            /\ Meta!ValuesOf(f, name) = IF name \in Got(k) THEN map[name] ELSE <<>>
            /\ Meta!ValuesOf(B(n), name) = IF n = name THEN map[n] ELSE <<>>
        <4>1. B(n) \in Seq(H)
          BY <1>7, <2>1
        <4>2. Meta!ValuesOf(f \o B(n), name) = Meta!ValuesOf(f, name) \o Meta!ValuesOf(B(n), name)
          BY <1>6, <2>3, <4>1, ValuesOfConcat
        <4> QED BY <1>7, <2>1, <2>3, <2>4, <4>2
      <3>2. CASE name = n
        <4>1. map[n] \in Seq(W) /\ <<>> \o map[n] = map[n]
          BY <1>1, <2>1, ConcatEmptySeq
        <4> QED BY <2>5, <3>1, <3>2, <4>1
      <3>3. CASE name # n /\ name \in Got(k)
        <4>1. name \in D
          <5>1. \A i \in 1..k : names[i] \in D
            BY <1>3
          <5> QED BY <3>3, <5>1 DEF Got
        <4>2. map[name] \in Seq(W) /\ map[name] \o <<>> = map[name]
          BY <1>1, <4>1, ConcatEmptySeq
        <4> QED BY <2>5, <3>1, <3>3, <4>2
      <3>4. CASE name # n /\ name \notin Got(k)
        <4>1. <<>> \o <<>> = <<>>
          OBVIOUS
        <4> QED BY <2>5, <3>1, <3>4, <4>1
      <3> QED BY <3>2, <3>3, <3>4
    <2> QED BY <2>1, <2>6, <2>7 DEF g
  <1>11. c \in U
    <2> HIDE DEF U
    <2>1. 0..c \subseteq U
      BY <1>3, <1>9, <1>10, UpTo
    <2> QED BY <1>3, <2>1
  <1>12. Got(c) = D
    BY <1>3, <1>4
  <1>13. array \in Seq(H) /\ \A name : Meta!ValuesOf(array, name) = IF name \in D THEN map[name] ELSE <<>>
    <2> HIDE DEF blocks, Got
    <2> QED BY <1>5, <1>11, <1>12
  <1>14. {h.name : h \in Meta!ToSet(array)} = D
    <2> DEFINE E == {array[i].name : i \in 1..Len(array)}
    <2>1. {h.name : h \in Meta!ToSet(array)} = E
      <3>1. DOMAIN array = 1..Len(array)
        BY <1>13, LenProperties
      <3> QED BY <3>1, MetaLibrary
    <2>2. \A name : name \in E <=> Meta!ValuesOf(array, name) # <<>>
      BY <1>6, <1>13, ValuesAreThere
    <2>3. \A name : name \in E <=> name \in D
      <3> HIDE DEF E
      <3> QED BY <1>1, <1>13, <2>2
    <2> HIDE DEF E
    <2> QED BY <2>1, <2>3
  <1>15. Meta!HeaderMap(array) = [name \in D |-> map[name]]
    BY <1>13, <1>14 DEF Meta!HeaderMap
  <1>16. map = [name \in D |-> map[name]]
    BY DEF IsMap, D
  <1> QED BY <1>13, <1>15, <1>16 DEF H, D

\* Two sequences after each other begin with the first and end with the second.
LEMMA EndsOfConcat ==
  ASSUME NEW W, NEW a \in Seq(W), NEW b \in Seq(W)
  PROVE  /\ Meta!IsPrefix(a, a \o b) /\ Meta!IsSuffix(b, a \o b)
         /\ Len(a \o b) = Len(a) + Len(b)
  <1> DEFINE c == a \o b
             m == Len(a)
             n == Len(b)
  <1>1. /\ c \in Seq(W) /\ Len(c) = m + n /\ m \in Nat /\ n \in Nat
        /\ DOMAIN a = 1..m /\ DOMAIN b = 1..n /\ DOMAIN c = 1..(m + n)
        /\ \A i \in 1..(m + n) : c[i] = IF i <= m THEN a[i] ELSE b[i - m]
    <2>1. c \in Seq(W) /\ Len(c) = m + n
      BY ConcatProperties
    <2> QED BY <2>1, ConcatProperties, LenProperties
  <1>2. \A i \in 1..m : a[i] \in W
    BY ElementOfSeq
  <1>3. \A i \in 1..n : b[i] \in W
    BY ElementOfSeq
  <1>4. \A i \in 1..(m + n) : c[i] \in W
    <2> HIDE DEF c, m, n
    <2> QED BY <1>1, ElementOfSeq
  <1> HIDE DEF c, m, n
  <1>5. Meta!IsPrefix(a, c)
    <2>1. SubSeq(a, 1, m) = a
      BY SubSeqFull DEF m
    <2>2. /\ SubSeq(c, 1, m) \in Seq(W) /\ Len(SubSeq(c, 1, m)) = m
          /\ \A i \in 1..m : SubSeq(c, 1, m)[i] = a[i]
      <3>1. \A i \in 1..m : c[i] \in W /\ c[i] = a[i]
        BY <1>1, <1>4
      <3>2. /\ SubSeq(c, 1, m) \in Seq(W)
            /\ Len(SubSeq(c, 1, m)) = IF 1 <= m THEN m - 1 + 1 ELSE 0
            /\ \A i \in 1..(m - 1 + 1) : SubSeq(c, 1, m)[i] = c[1 + i - 1]
        BY <1>1, <3>1, SubSeqProperties
      <3> QED BY <1>1, <3>1, <3>2
    <2>3. SubSeq(c, 1, m) = a
      BY <2>2, SeqEqual DEF m
    <2>4. m <= Len(c)
      BY <1>1
    <2> QED BY <2>1, <2>3, <2>4, MetaLibrary DEF m
  <1>6. Meta!IsSuffix(b, c)
    <2> DEFINE rb == Meta!Reverse(b)
               rc == Meta!Reverse(c)
    <2>1. /\ rb \in [1..n -> W] /\ \A i \in 1..n : rb[i] = b[n - i + 1]
      <3>1. rb = [i \in 1..n |-> b[n - i + 1]]
        BY DEF Meta!Reverse, n
      <3>2. \A i \in 1..n : n - i + 1 \in 1..n
        BY <1>1
      <3> HIDE DEF rb
      <3> QED BY <1>3, <3>1, <3>2
    <2>2. /\ rc \in [1..(m + n) -> W] /\ \A i \in 1..(m + n) : rc[i] = c[m + n - i + 1]
      <3>1. rc = [i \in 1..(m + n) |-> c[(m + n) - i + 1]]
        BY <1>1 DEF Meta!Reverse
      <3>2. \A i \in 1..(m + n) : m + n - i + 1 \in 1..(m + n)
        BY <1>1
      <3> HIDE DEF rc
      <3> QED BY <1>1, <1>4, <3>1, <3>2
    <2> HIDE DEF rb, rc
    <2>3. rb \in Seq(W) /\ Len(rb) = n /\ rc \in Seq(W) /\ Len(rc) = m + n
      <3>1. rb \in Seq(W) /\ rc \in Seq(W)
        BY <1>1, <2>1, <2>2, SeqDef
      <3>2. DOMAIN rb = 1..n /\ DOMAIN rc = 1..(m + n)
        BY <2>1, <2>2
      <3> QED BY <1>1, <3>1, <3>2, LenProperties
    <2>4. \A i \in 1..n : rc[i] = rb[i] /\ rc[i] \in W
      <3> SUFFICES ASSUME NEW i \in 1..n PROVE rc[i] = rb[i] /\ rc[i] \in W
        OBVIOUS
      <3>1. i \in 1..(m + n) /\ m + n - i + 1 \in 1..(m + n) /\ ~(m + n - i + 1 <= m)
            /\ m + n - i + 1 - m = n - i + 1
        BY <1>1
      <3>2. c[m + n - i + 1] = b[n - i + 1]
        BY <1>1, <3>1
      <3> QED BY <2>1, <2>2, <3>1, <3>2
    <2>5. /\ SubSeq(rc, 1, n) \in Seq(W) /\ Len(SubSeq(rc, 1, n)) = n
          /\ \A i \in 1..n : SubSeq(rc, 1, n)[i] = rb[i]
      <3>1. /\ SubSeq(rc, 1, n) \in Seq(W)
            /\ Len(SubSeq(rc, 1, n)) = IF 1 <= n THEN n - 1 + 1 ELSE 0
            /\ \A i \in 1..(n - 1 + 1) : SubSeq(rc, 1, n)[i] = rc[1 + i - 1]
        BY <1>1, <2>4, SubSeqProperties
      <3> QED BY <1>1, <2>4, <3>1
    <2>6. SubSeq(rc, 1, n) = rb /\ SubSeq(rb, 1, n) = rb
      <3>1. SubSeq(rb, 1, n) = rb
        BY <2>3, SubSeqFull
      <3> QED BY <2>3, <2>5, <3>1, SeqEqual
    <2>7. Meta!IsPrefix(rb, rc)
      <3>1. n <= m + n
        BY <1>1
      <3> QED BY <2>3, <2>6, <3>1, MetaLibrary
    <2> QED BY <2>7 DEF Meta!IsSuffix, rb, rc
  <1> QED BY <1>1, <1>5, <1>6 DEF c, m, n

\* Merged, a name's values are the first map's and then the second's.
LEMMA MergedIs ==
  ASSUME NEW W, NEW first, NEW second, IsMap(first, W), IsMap(second, W)
  PROVE  LET merged == Meta!Merge(first, second)
         IN /\ DOMAIN merged = DOMAIN first \cup DOMAIN second
            /\ \A name \in DOMAIN first : Meta!IsPrefix(first[name], merged[name])
            /\ \A name \in DOMAIN second : Meta!IsSuffix(second[name], merged[name])
            /\ \A name \in DOMAIN merged :
                 Len(merged[name]) = (IF name \in DOMAIN first THEN Len(first[name]) ELSE 0)
                                       + (IF name \in DOMAIN second THEN Len(second[name]) ELSE 0)
  <1> DEFINE merged == Meta!Merge(first, second)
             A(name) == IF name \in DOMAIN first THEN first[name] ELSE <<>>
             B(name) == IF name \in DOMAIN second THEN second[name] ELSE <<>>
  <1>1. /\ DOMAIN merged = DOMAIN first \cup DOMAIN second
        /\ \A name \in DOMAIN merged : merged[name] = A(name) \o B(name)
    BY DEF Meta!Merge
  <1>2. \A name : A(name) \in Seq(W) /\ B(name) \in Seq(W)
    <2>1. <<>> \in Seq(W)
      BY EmptySeq
    <2> QED BY <2>1 DEF IsMap
  <1>3. \A name : /\ (name \in DOMAIN first => A(name) = first[name])
                  /\ (name \in DOMAIN second => B(name) = second[name])
                  /\ Len(A(name)) = IF name \in DOMAIN first THEN Len(first[name]) ELSE 0
                  /\ Len(B(name)) = IF name \in DOMAIN second THEN Len(second[name]) ELSE 0
    <2>1. Len(<<>>) = 0
      OBVIOUS
    <2> QED BY <2>1
  <1> HIDE DEF A, B, merged
  <1>4. \A name \in DOMAIN merged :
          /\ Meta!IsPrefix(A(name), merged[name]) /\ Meta!IsSuffix(B(name), merged[name])
          /\ Len(merged[name]) = Len(A(name)) + Len(B(name))
    <2> SUFFICES ASSUME NEW name \in DOMAIN merged
                 PROVE  /\ Meta!IsPrefix(A(name), merged[name]) /\ Meta!IsSuffix(B(name), merged[name])
                        /\ Len(merged[name]) = Len(A(name)) + Len(B(name))
      OBVIOUS
    <2> DEFINE a == A(name)
               b == B(name)
    <2>1. a \in Seq(W) /\ b \in Seq(W)
      BY <1>2
    <2> HIDE DEF a, b
    <2>2. Meta!IsPrefix(a, a \o b) /\ Meta!IsSuffix(b, a \o b) /\ Len(a \o b) = Len(a) + Len(b)
      BY <2>1, EndsOfConcat
    <2> QED BY <1>1, <2>2 DEF a, b
  <1>5. /\ \A name \in DOMAIN first : Meta!IsPrefix(first[name], merged[name])
        /\ \A name \in DOMAIN second : Meta!IsSuffix(second[name], merged[name])
        /\ \A name \in DOMAIN merged :
             Len(merged[name]) = (IF name \in DOMAIN first THEN Len(first[name]) ELSE 0)
                                   + (IF name \in DOMAIN second THEN Len(second[name]) ELSE 0)
    BY <1>1, <1>3, <1>4
  <1> QED BY <1>1, <1>5 DEF merged
-----------------------------------------------------------------------------
\* The structure of a message that the source attached, for one array of its headers.
AttachedMessage ==
  \E array \in Meta!ArraysOf(incoming.headers) :
    carried["nats"] = [shape |-> "message", subject |-> incoming.subject, reply |-> incoming.reply,
                       headers |-> {h \in {array} : h # <<>>}]
AttachedRecord ==
  carried["s2"] = [shape |-> "record", headers |-> incoming.headers, timestamp |-> incoming.timestamp,
                   command |-> Meta!IsCommand(incoming.headers)]
ValidMessage ==
  Meta!ValidSubject(incoming.subject) /\ \A reply \in incoming.reply : Meta!ValidSubject(reply)

MetaInv ==
  /\ fixed.subject \in {"", "fixed"} /\ IsMap(fixed.headers, Values)
  /\ carried = [kind \in {"nats", "s2"} |-> carried[kind]]
  /\ incoming = Meta!Nothing =>
       outgoing = Meta!Nothing /\ ~touched /\ carried = [kind \in {"nats", "s2"} |-> Meta!Absent]
  /\ carried["nats"] # Meta!Malformed => IsMap(Meta!ReadHeaders(carried["nats"]), Values)
  /\ incoming.result = "message" /\ ~touched =>
       IsMap(incoming.headers, Values) /\ (ValidMessage => AttachedMessage)
  /\ incoming.result = "record" /\ ~touched => AttachedRecord
  /\ Meta!MetaConsistent

\* No headers are a map.
LEMMA NoHeadersIs ==
  IsMap(Meta!NoHeaders, Values)
  <1>1. HaveValues({}, Values) /\ <<>> \in Seq({})
    BY EmptySeq DEF HaveValues
  <1>2. IsMap(Meta!HeaderMap(<<>>), Values)
    BY <1>1, HeaderMapIs
  <1> QED BY <1>2 DEF Meta!NoHeaders

\* The header maps that a message arrives with are maps.
LEMMA HeaderMapsAre ==
  ASSUME NEW n, NEW map \in Meta!HeaderMaps(n)
  PROVE  IsMap(map, Values)
  <1> DEFINE H == [name: Names, value: Values]
  <1>1. PICK headers \in Meta!BoundedSeq(H, n) : map = Meta!HeaderMap(headers)
    BY DEF Meta!HeaderMaps, Meta!Headers
  <1>2. HaveValues(H, Values)
    BY DEF HaveValues
  <1> HIDE DEF H
  <1>3. headers \in Seq(H)
    BY MetaLibrary
  <1> QED BY <1>1, <1>2, <1>3, HeaderMapIs

\* What the array of a map, or its absence, reads as.
LEMMA ReadBack ==
  ASSUME NEW map, IsMap(map, Values), NEW array \in Meta!ArraysOf(map), NEW structure,
         structure # Meta!Absent, structure.headers = {h \in {array} : h # <<>>}
  PROVE  Meta!ReadHeaders(structure) = map
  <1>1. Meta!HeaderMap(array) = map
    BY ArrayIsMap
  <1>2. CASE array = <<>>
    BY <1>1, <1>2 DEF Meta!ReadHeaders, Meta!NoHeaders
  <1>3. CASE array # <<>>
    <2>1. structure.headers = {array}
      BY <1>3
    <2>2. (CHOOSE a \in structure.headers : TRUE) = array
      BY <2>1
    <2> QED BY <1>1, <2>1, <2>2 DEF Meta!ReadHeaders
  <1> QED BY <1>2, <1>3

\* The invariant holds of the first state.
LEMMA MetaStarts ==
  ASSUME Meta!Init
  PROVE  MetaInv
  <1>1. /\ incoming = Meta!Nothing /\ touched = FALSE /\ outgoing = Meta!Nothing
        /\ carried = [kind \in {"nats", "s2"} |-> Meta!Absent]
        /\ fixed \in [subject: {"", "fixed"}, headers: Meta!HeaderMaps(MaxFixed), preserve: BOOLEAN]
    BY DEF Meta!Init
  <1>2. fixed.subject \in {"", "fixed"} /\ IsMap(fixed.headers, Values)
    <2>1. fixed.subject \in {"", "fixed"} /\ fixed.headers \in Meta!HeaderMaps(MaxFixed)
      BY <1>1
    <2> QED BY <2>1, HeaderMapsAre
  <1>3. carried["nats"] = Meta!Absent /\ Meta!ReadHeaders(Meta!Absent) = Meta!NoHeaders
    BY <1>1 DEF Meta!ReadHeaders
  <1>4. incoming.result = "nothing" /\ outgoing.result = "nothing"
    BY <1>1 DEF Meta!Nothing
  <1>5. Meta!MetaConsistent
    BY <1>4 DEF Meta!MetaConsistent, Meta!MessagesRelayed, Meta!RecordsRelayed
  <1>6. carried = [kind \in {"nats", "s2"} |-> carried[kind]]
    BY <1>1
  <1> QED BY <1>1, <1>2, <1>3, <1>4, <1>5, <1>6, NoHeadersIs DEF MetaInv

\* A step that only sends leaves the rest of the invariant as it is.
LEMMA MetaFrame ==
  ASSUME MetaInv, incoming # Meta!Nothing, UNCHANGED <<incoming, carried, touched, fixed>>,
         Meta!MetaConsistent'
  PROVE  MetaInv'
  <1>1. /\ AttachedMessage' <=> AttachedMessage
        /\ AttachedRecord' <=> AttachedRecord
        /\ ValidMessage' <=> ValidMessage
    BY DEF AttachedMessage, AttachedRecord, ValidMessage
  <1> QED BY <1>1 DEF MetaInv

\* A source attaches what it received.
LEMMA MessageReceived ==
  ASSUME MetaInv, Meta!ReceiveMessage
  PROVE  MetaInv'
  <1>1. PICK subject \in Meta!Subjects, reply \in {{}, {"inbox"}, {"no good"}},
             headers \in Meta!HeaderMaps(MaxHeaders) :
          /\ incoming = Meta!Nothing
          /\ incoming' = [result |-> "message", subject |-> subject, reply |-> reply, headers |-> headers]
          /\ Meta!AttachMessage(incoming')
          /\ UNCHANGED <<touched, fixed, outgoing>>
    BY DEF Meta!ReceiveMessage
  <1>2. /\ incoming'.result = "message" /\ incoming'.headers = headers /\ incoming'.reply = reply
        /\ incoming'.subject = subject /\ incoming' # Meta!Nothing
    BY <1>1 DEF Meta!Nothing
  <1>3. IsMap(headers, Values)
    BY HeaderMapsAre
  <1>4. outgoing' = Meta!Nothing /\ outgoing'.result = "nothing"
    <2>1. outgoing = Meta!Nothing
      BY <1>1 DEF MetaInv
    <2>2. outgoing' = outgoing
      BY <1>1
    <2> QED BY <2>1, <2>2 DEF Meta!Nothing
  <1>5. Meta!MetaConsistent'
    BY <1>4 DEF Meta!MetaConsistent, Meta!MessagesRelayed, Meta!RecordsRelayed
  <1>6. carried["nats"] = Meta!Absent
    BY <1>1 DEF MetaInv
  <1>7. CASE ~ValidMessage'
    <2>1. carried' = carried
      BY <1>1, <1>7 DEF Meta!AttachMessage, ValidMessage
    <2>2. IsMap(Meta!ReadHeaders(carried'["nats"]), Values)
      BY <1>6, <2>1, NoHeadersIs DEF Meta!ReadHeaders
    <2> QED BY <1>1, <1>2, <1>3, <1>5, <1>7, <2>1, <2>2 DEF MetaInv
  <1>8. CASE ValidMessage'
    <2>1. PICK array \in Meta!ArraysOf(headers) :
            carried' = [carried EXCEPT !["nats"] =
              [shape |-> "message", subject |-> subject, reply |-> reply,
               headers |-> {h \in {array} : h # <<>>}]]
      BY <1>1, <1>2, <1>8 DEF Meta!AttachMessage, ValidMessage
    <2>2. /\ carried'["nats"] = [shape |-> "message", subject |-> subject, reply |-> reply,
                                 headers |-> {h \in {array} : h # <<>>}]
          /\ carried' = [kind \in {"nats", "s2"} |-> carried'[kind]]
      BY <2>1 DEF MetaInv
    <2>3. AttachedMessage'
      BY <1>2, <2>2 DEF AttachedMessage
    <2>4. Meta!ReadHeaders(carried'["nats"]) = headers
      <3>1. /\ carried'["nats"] # Meta!Absent
            /\ carried'["nats"].headers = {h \in {array} : h # <<>>}
        <4> DEFINE hs == {h \in {array} : h # <<>>}
        <4>1. carried'["nats"] = [shape |-> "message", subject |-> subject, reply |-> reply, headers |-> hs]
          BY <2>2
        <4> HIDE DEF hs
        <4> DEFINE s == [shape |-> "message", subject |-> subject, reply |-> reply, headers |-> hs]
        <4>2. s.shape = "message" /\ s.headers = hs /\ Meta!Absent.shape = "absent"
          BY DEF Meta!Absent
        <4>3. carried'["nats"] = s
          BY <4>1
        <4> HIDE DEF s
        <4>4. s # Meta!Absent
          BY <4>2
        <4> QED BY <4>2, <4>3, <4>4 DEF hs
      <3> QED BY <1>3, <3>1, ReadBack
    <2> QED BY <1>1, <1>2, <1>3, <1>5, <2>2, <2>3, <2>4 DEF MetaInv
  <1> QED BY <1>7, <1>8

\* s2src attaches what it read of a record.
LEMMA RecordReceived ==
  ASSUME MetaInv, Meta!ReceiveRecord
  PROVE  MetaInv'
  <1>1. PICK headers \in Meta!Headers(Names \cup {""}, Values, MaxHeaders), timestamp \in {1} :
          /\ incoming = Meta!Nothing
          /\ incoming' = [result |-> "record", headers |-> headers, timestamp |-> timestamp]
          /\ carried' = [carried EXCEPT !["s2"] =
               [shape |-> "record", headers |-> headers, timestamp |-> timestamp,
                command |-> Meta!IsCommand(headers)]]
          /\ UNCHANGED <<touched, fixed, outgoing>>
    BY DEF Meta!ReceiveRecord
  <1>2. /\ incoming'.result = "record" /\ incoming'.headers = headers /\ incoming'.timestamp = timestamp
        /\ incoming' # Meta!Nothing
    BY <1>1 DEF Meta!Nothing
  <1>3. outgoing' = Meta!Nothing /\ outgoing'.result = "nothing"
    <2>1. outgoing = Meta!Nothing
      BY <1>1 DEF MetaInv
    <2>2. outgoing' = outgoing
      BY <1>1
    <2> QED BY <2>1, <2>2 DEF Meta!Nothing
  <1>4. Meta!MetaConsistent'
    BY <1>3 DEF Meta!MetaConsistent, Meta!MessagesRelayed, Meta!RecordsRelayed
  <1>5. /\ carried'["nats"] = carried["nats"]
        /\ carried'["s2"] = [shape |-> "record", headers |-> headers, timestamp |-> timestamp,
                             command |-> Meta!IsCommand(headers)]
        /\ carried' = [kind \in {"nats", "s2"} |-> carried'[kind]]
    BY <1>1 DEF MetaInv
  <1>6. AttachedRecord'
    <2>1. Meta!IsCommand(incoming.headers)' = Meta!IsCommand(headers)
      BY <1>2 DEF Meta!IsCommand
    <2> QED BY <1>2, <1>5, <2>1 DEF AttachedRecord
  <1> QED BY <1>1, <1>2, <1>4, <1>5, <1>6 DEF MetaInv

\* Another element edits the metadata: of it nothing is claimed but its type.
LEMMA MetaTouched ==
  ASSUME MetaInv, Meta!Touch
  PROVE  MetaInv'
  <1>1. /\ incoming # Meta!Nothing /\ outgoing = Meta!Nothing /\ touched' = TRUE
        /\ UNCHANGED <<incoming, fixed, outgoing>>
    BY DEF Meta!Touch
  <1>2. Meta!MetaConsistent'
    <2>1. outgoing'.result = "nothing"
      BY <1>1 DEF Meta!Nothing
    <2> QED BY <2>1 DEF Meta!MetaConsistent, Meta!MessagesRelayed, Meta!RecordsRelayed
  <1>3. /\ carried' = [kind \in {"nats", "s2"} |-> carried'[kind]]
        /\ \/ carried'["nats"] = carried["nats"]
           \/ carried'["nats"] = Meta!Malformed
           \/ carried'["nats"].headers = {}
    <2>1. CASE carried' = [carried EXCEPT !["nats"] = Meta!Malformed]
      BY <2>1 DEF MetaInv
    <2>2. CASE carried' = [carried EXCEPT !["s2"] = Meta!Malformed]
      BY <2>2 DEF MetaInv
    <2>3. CASE \E subject \in Meta!Subjects, reply \in {{}, {""}, {"no good"}} :
                 carried' = [carried EXCEPT !["nats"] =
                   [shape |-> "message", subject |-> subject, reply |-> reply, headers |-> {}]]
      <3>1. PICK subject \in Meta!Subjects, reply \in {{}, {""}, {"no good"}} :
              carried' = [carried EXCEPT !["nats"] =
                [shape |-> "message", subject |-> subject, reply |-> reply, headers |-> {}]]
        BY <2>3
      <3> DEFINE structure == [shape |-> "message", subject |-> subject, reply |-> reply, headers |-> {}]
      <3>2. structure.headers = {}
        OBVIOUS
      <3> HIDE DEF structure
      <3>3. carried' = [carried EXCEPT !["nats"] = structure]
        BY <3>1 DEF structure
      <3>4. carried = [kind \in {"nats", "s2"} |-> carried[kind]]
        BY DEF MetaInv
      <3> QED BY <3>2, <3>3, <3>4
    <2>4. CASE \E headers \in Meta!Headers(Names \cup {""}, {0}, MaxHeaders), command \in BOOLEAN :
                 carried' = [carried EXCEPT !["s2"] =
                   [shape |-> "record", headers |-> headers, timestamp |-> 3, command |-> command]]
      BY <2>4 DEF MetaInv
    <2> QED BY <2>1, <2>2, <2>3, <2>4 DEF Meta!Touch
  <1>4. carried'["nats"] # Meta!Malformed => IsMap(Meta!ReadHeaders(carried'["nats"]), Values)
    <2>1. carried'["nats"].headers = {} => Meta!ReadHeaders(carried'["nats"]) = Meta!NoHeaders
      BY DEF Meta!ReadHeaders
    <2> QED BY <1>3, <2>1, NoHeadersIs DEF MetaInv
  <1> QED BY <1>1, <1>2, <1>3, <1>4 DEF MetaInv

\* natssink sends the headers that the structure reads as behind the fixed ones.
LEMMA MessageRendered ==
  ASSUME MetaInv, Meta!RenderNats
  PROVE  MetaInv'
  <1> DEFINE structure == carried["nats"]
             read == Meta!ReadHeaders(structure)
             merged == Meta!Merge(fixed.headers, read)
  <1>1. /\ incoming # Meta!Nothing /\ UNCHANGED <<incoming, carried, touched, fixed>>
        /\ outgoing' =
             IF \/ structure # Meta!Absent /\ ~Meta!ReadableMessage(structure)
                \/ structure = Meta!Absent /\ fixed.subject = ""
             THEN Meta!Failed
             ELSE [result |-> "publish",
                   subject |-> IF fixed.subject = "" THEN structure.subject ELSE fixed.subject,
                   reply |-> IF structure = Meta!Absent THEN {} ELSE Meta!ReadReply(structure),
                   headers |-> merged]
    BY DEF Meta!RenderNats
  <1>2. CASE outgoing' = Meta!Failed
    <2>1. outgoing'.result = "error"
      BY <1>2 DEF Meta!Failed
    <2>2. Meta!MetaConsistent'
      BY <2>1 DEF Meta!MetaConsistent, Meta!MessagesRelayed, Meta!RecordsRelayed
    <2> QED BY <1>1, <2>2, MetaFrame
  <1>3. CASE outgoing' # Meta!Failed
    <2>1. /\ structure # Meta!Absent => Meta!ReadableMessage(structure)
          /\ structure = Meta!Absent => fixed.subject # ""
          /\ outgoing'.result = "publish"
          /\ outgoing'.subject = IF fixed.subject = "" THEN structure.subject ELSE fixed.subject
          /\ outgoing'.reply = IF structure = Meta!Absent THEN {} ELSE Meta!ReadReply(structure)
          /\ outgoing'.headers = merged
      <3> HIDE DEF merged, structure
      <3> QED BY <1>1, <1>3
    <2>2. structure # Meta!Malformed
      <3>1. Meta!Absent # Meta!Malformed
        <4>1. Meta!Absent.shape # Meta!Malformed.shape
          BY DEF Meta!Absent, Meta!Malformed
        <4> QED BY <4>1
      <3> HIDE DEF structure
      <3> QED BY <2>1, <3>1 DEF Meta!ReadableMessage
    <2>3. IsMap(read, Values) /\ IsMap(fixed.headers, Values) /\ fixed.subject \in {"", "fixed"}
      BY <2>2 DEF MetaInv
    <2>4. /\ DOMAIN merged = DOMAIN fixed.headers \cup DOMAIN read
          /\ \A name \in DOMAIN fixed.headers : Meta!IsPrefix(fixed.headers[name], merged[name])
          /\ \A name \in DOMAIN read : Meta!IsSuffix(read[name], merged[name])
          /\ \A name \in DOMAIN merged :
               Len(merged[name]) = (IF name \in DOMAIN fixed.headers THEN Len(fixed.headers[name]) ELSE 0)
                                     + (IF name \in DOMAIN read THEN Len(read[name]) ELSE 0)
      <3> DEFINE first == fixed.headers
      <3> HIDE DEF read, first
      <3> QED BY <2>3, MergedIs DEF first
    <2>5. Meta!ValidSubject(outgoing'.subject)
      BY <2>1, <2>3 DEF Meta!ReadableMessage, Meta!ValidSubject
    <2>6. \A reply \in outgoing'.reply : Meta!ValidSubject(reply)
      BY <2>1 DEF Meta!ReadableMessage, Meta!ReadReply
    <2>7. ASSUME incoming.result = "message", ~touched, ValidMessage
          PROVE  /\ outgoing'.reply = incoming.reply
                 /\ fixed.subject = "" => outgoing'.subject = incoming.subject
                 /\ read = incoming.headers
      <3>1. PICK array \in Meta!ArraysOf(incoming.headers) :
              structure = [shape |-> "message", subject |-> incoming.subject, reply |-> incoming.reply,
                           headers |-> {h \in {array} : h # <<>>}]
        BY <2>7 DEF MetaInv, AttachedMessage
      <3>2. /\ structure # Meta!Absent /\ structure.headers = {h \in {array} : h # <<>>}
            /\ structure.subject = incoming.subject /\ structure.reply = incoming.reply
        BY <3>1 DEF Meta!Absent
      <3>3. IsMap(incoming.headers, Values)
        BY <2>7 DEF MetaInv
      <3>4. read = incoming.headers
        <4> DEFINE map == incoming.headers
        <4> HIDE DEF structure, map
        <4>1. IsMap(map, Values) /\ array \in Meta!ArraysOf(map)
          BY <3>3 DEF map
        <4>2. Meta!ReadHeaders(structure) = map
          BY <3>2, <4>1, ReadBack
        <4> QED BY <4>2 DEF map
      <3>5. Meta!ReadReply(structure) = incoming.reply
        BY <2>7, <3>2 DEF Meta!ReadReply, ValidMessage, Meta!ValidSubject
      <3> QED BY <2>1, <3>2, <3>4, <3>5
    <2> HIDE DEF read, merged, structure
    <2>8. Meta!MessagesRelayed'
      <3>1. outgoing'.headers = merged /\ fixed' = fixed /\ incoming' = incoming /\ touched' = touched
        BY <1>1, <2>1
      <3>2. fixed'.subject # "" => outgoing'.subject = fixed'.subject
        BY <2>1, <3>1
      <3>3. ASSUME incoming'.result = "message", ~touched', Meta!ValidSubject(incoming'.subject),
                   \A reply \in incoming'.reply : Meta!ValidSubject(reply)
            PROVE  /\ outgoing'.reply = incoming'.reply
                   /\ fixed'.subject = "" => outgoing'.subject = incoming'.subject
                   /\ read = incoming'.headers
        BY <2>7, <3>1, <3>3 DEF ValidMessage
      <3> QED BY <2>4, <2>5, <2>6, <3>1, <3>2, <3>3 DEF Meta!MessagesRelayed
    <2>9. Meta!RecordsRelayed'
      BY <2>1 DEF Meta!RecordsRelayed
    <2> QED BY <1>1, <2>8, <2>9, MetaFrame DEF Meta!MetaConsistent
  <1> QED BY <1>2, <1>3

\* s2sink appends the headers of a regular record, and of nothing else.
LEMMA RecordRendered ==
  ASSUME MetaInv, Meta!RenderS2
  PROVE  MetaInv'
  <1> DEFINE structure == carried["s2"]
  <1>1. /\ incoming # Meta!Nothing /\ UNCHANGED <<incoming, carried, touched, fixed>>
        /\ outgoing' =
             IF structure = Meta!Absent THEN [result |-> "append", headers |-> <<>>, timestamp |-> {}]
             ELSE IF ~Meta!ReadableRecord(structure) \/ ~Meta!Regular(structure) THEN Meta!Failed
             ELSE [result |-> "append", headers |-> structure.headers,
                   timestamp |-> {t \in {structure.timestamp} : fixed.preserve}]
    BY DEF Meta!RenderS2
  <1>2. outgoing'.result # "publish"
    BY <1>1 DEF Meta!Failed
  <1>3. Meta!MessagesRelayed'
    BY <1>2 DEF Meta!MessagesRelayed
  <1>4. ASSUME incoming.result = "record", ~touched
        PROVE  /\ structure # Meta!Absent /\ structure.headers = incoming.headers
               /\ structure.timestamp = incoming.timestamp
               /\ structure.command = Meta!IsCommand(incoming.headers)
    <2> DEFINE headers == incoming.headers
               timestamp == incoming.timestamp
               command == Meta!IsCommand(headers)
    <2>1. structure = [shape |-> "record", headers |-> headers, timestamp |-> timestamp, command |-> command]
      BY <1>4 DEF MetaInv, AttachedRecord
    <2> HIDE DEF headers, timestamp, command, structure
    <2>2. /\ structure # Meta!Absent /\ structure.headers = headers
          /\ structure.timestamp = timestamp /\ structure.command = command
      BY <2>1 DEF Meta!Absent
    <2> QED BY <2>2 DEF headers, timestamp, command
  <1>5. Meta!RecordsRelayed'
    <2>1. CASE structure = Meta!Absent
      <3>1. outgoing' = [result |-> "append", headers |-> <<>>, timestamp |-> {}]
        BY <1>1, <2>1
      <3>2. \A h \in Meta!ToSet(outgoing'.headers) : h.name # ""
        <4>1. Meta!ToSet(<<>>) = {}
          BY DEF Meta!ToSet
        <4> QED BY <3>1, <4>1
      <3>3. ~(incoming'.result = "record" /\ ~touched')
        BY <1>1, <1>4, <2>1
      <3> QED BY <3>2, <3>3 DEF Meta!RecordsRelayed
    <2>2. CASE structure # Meta!Absent /\ ~(Meta!ReadableRecord(structure) /\ Meta!Regular(structure))
      <3>1. outgoing'.result = "error"
        BY <1>1, <2>2 DEF Meta!Failed
      <3> QED BY <3>1 DEF Meta!RecordsRelayed
    <2>3. CASE structure # Meta!Absent /\ Meta!ReadableRecord(structure) /\ Meta!Regular(structure)
      <3>1. /\ outgoing'.headers = structure.headers
            /\ outgoing'.timestamp = {t \in {structure.timestamp} : fixed.preserve}
        BY <1>1, <2>3
      <3>2. \A h \in Meta!ToSet(structure.headers) : h.name # ""
        BY <2>3 DEF Meta!Regular
      <3>3. structure.command = Meta!IsCommand(structure.headers) /\ ~structure.command
        BY <2>3 DEF Meta!ReadableRecord, Meta!Regular
      <3> HIDE DEF structure
      <3>4. \A h \in Meta!ToSet(outgoing'.headers) : h.name # ""
        BY <3>1, <3>2
      <3>5. ASSUME incoming'.result = "record", ~touched'
            PROVE  /\ ~Meta!IsCommand(incoming'.headers) /\ outgoing'.headers = incoming'.headers
                   /\ outgoing'.timestamp = {t \in {incoming'.timestamp} : fixed'.preserve}
        BY <1>1, <1>4, <3>1, <3>3, <3>5
      <3> QED BY <3>4, <3>5 DEF Meta!RecordsRelayed
    <2> QED BY <2>1, <2>2, <2>3
  <1> QED BY <1>1, <1>3, <1>5, MetaFrame DEF Meta!MetaConsistent

\* Every step keeps the invariant.
LEMMA MetaSteps ==
  ASSUME MetaInv, Meta!Next
  PROVE  MetaInv'
  BY MessageReceived, RecordReceived, MetaTouched, MessageRendered, RecordRendered DEF Meta!Next

\* A step of another part keeps the invariant.
LEMMA MetaKept ==
  ASSUME MetaInv, UNCHANGED metaVars
  PROVE  MetaInv'
  <1>1. /\ incoming' = incoming /\ carried' = carried /\ touched' = touched /\ fixed' = fixed
        /\ outgoing' = outgoing
    BY DEF metaVars
  <1>2. /\ AttachedMessage' <=> AttachedMessage
        /\ AttachedRecord' <=> AttachedRecord
        /\ ValidMessage' <=> ValidMessage
        /\ Meta!MetaConsistent' <=> Meta!MetaConsistent
    BY <1>1 DEF AttachedMessage, AttachedRecord, ValidMessage, Meta!MetaConsistent,
       Meta!MessagesRelayed, Meta!RecordsRelayed
  <1> QED BY <1>1, <1>2 DEF MetaInv

\* In every behaviour of the sum, for any header names and values, subjects and
\* timestamps: a sink publishes to valid subjects only and appends no header without a
\* name, whoever wrote the structure; what it sends of a buffer that nobody edited has
\* the reply and every header value in order, behind the fixed ones, that the NATS
\* source received, or the headers and, where asked, the timestamp of the S2 record
\* (attach and read of the two metas; render of natssink and s2sink).
THEOREM MetaStaysConsistent ==
  Spec => []MetaConsistent
  <1> DEFINE Inv == part = "meta" => MetaInv
  <1>1. Init => Inv
    BY MetaStarts DEF Init
  <1>2. Inv /\ [Next]_dataVars => Inv'
    <2> SUFFICES ASSUME Inv, [Next]_dataVars, part' = "meta" PROVE MetaInv'
      OBVIOUS
    <2>1. CASE OnlyOf("meta") /\ Meta!Next
      BY <2>1, MetaSteps DEF OnlyOf
    <2>2. CASE UNCHANGED dataVars
      <3>1. part' = part /\ UNCHANGED metaVars
        BY <2>2 DEF dataVars
      <3> QED BY <3>1, MetaKept
    <2>3. CASE OnlyOf("lines") \/ OnlyOf("boxes") \/ OnlyOf("engines") \/ OnlyOf("packing")
      BY <2>3 DEF OnlyOf
    <2> QED BY <2>1, <2>2, <2>3 DEF Next
  <1>3. Inv => MetaConsistent
    BY DEF MetaInv, MetaConsistent
  <1> QED BY <1>1, <1>2, <1>3, PTL DEF Spec

-----------------------------------------------------------------------------
(***************************************************************************)
(* nanodettensordec. The candidates of a frame have rows of their own, so  *)
(* the order is total on them and sorting places each; the suppression     *)
(* then keeps, of the part of the sorted candidates that it has read, the  *)
(* greedy choice at the front of the vector.                               *)
(***************************************************************************)
\* What the module's library operators are.
LEMMA BoxLibrary ==
  /\ \A S : Boxes!Cardinality(S) = Cardinality(S)
  /\ \A s : Boxes!ToSet(s) = {s[i] : i \in DOMAIN s}
  <1>1. \A S : Boxes!Cardinality(S) = Cardinality(S)
    BY DEF Boxes!Cardinality, Cardinality
  <1>2. \A s : Boxes!ToSet(s) = {s[i] : i \in DOMAIN s}
    BY DEF Boxes!ToSet
  <1> QED BY <1>1, <1>2

\* A candidate that the order compares.
Ranked(d) == d.class \in Int /\ d.score \in Int /\ d.ordinal \in Int

\* On candidates of different rows the order is strict, total and transitive.
LEMMA OrderIsTotal ==
  /\ \A a, b : Ranked(a) /\ Ranked(b) =>
       /\ Boxes!Precedes(a, b) => ~Boxes!Precedes(b, a)
       /\ a.ordinal # b.ordinal => Boxes!Precedes(a, b) \/ Boxes!Precedes(b, a)
  /\ \A a, b, c : Ranked(a) /\ Ranked(b) /\ Ranked(c) /\ Boxes!Precedes(a, b) /\ Boxes!Precedes(b, c) =>
       Boxes!Precedes(a, c)
  <1>1. ASSUME NEW a, NEW b, Ranked(a), Ranked(b)
        PROVE  /\ Boxes!Precedes(a, b) => ~Boxes!Precedes(b, a)
               /\ a.ordinal # b.ordinal => Boxes!Precedes(a, b) \/ Boxes!Precedes(b, a)
    BY <1>1 DEF Ranked, Boxes!Precedes
  <1>2. ASSUME NEW a, NEW b, NEW c, Ranked(a), Ranked(b), Ranked(c), Boxes!Precedes(a, b), Boxes!Precedes(b, c)
        PROVE  Boxes!Precedes(a, c)
    BY <1>2 DEF Ranked, Boxes!Precedes
  <1> QED BY <1>1, <1>2

\* A sequence of candidates of different rows.
Distinct(s) ==
  /\ s \in Seq(Boxes!ToSet(s))
  /\ \A i \in DOMAIN s : Ranked(s[i])
  /\ \A i, j \in DOMAIN s : i # j => s[i].ordinal # s[j].ordinal

Before(S, d) == {e \in S : Boxes!Precedes(e, d)}
Rank(S, d) == Cardinality(Before(S, d))

\* Each candidate has a rank of its own, and every rank is had.
LEMMA RanksAreAll ==
  ASSUME NEW s, Distinct(s)
  PROVE  LET S == Boxes!ToSet(s)
         IN /\ \A i \in 1..Len(s) : \E d \in S : Rank(S, d) = i - 1
            /\ \A d \in S : Rank(S, d) \in 0..(Len(s) - 1)
            /\ \A d, e \in S : Boxes!Precedes(d, e) => Rank(S, d) < Rank(S, e)
            /\ \A d, e \in S : Boxes!Precedes(d, e) \/ Boxes!Precedes(e, d) \/ d = e
  <1> DEFINE S == Boxes!ToSet(s)
             n == Len(s)
  <1>1. /\ n \in Nat /\ DOMAIN s = 1..n /\ S = {s[i] : i \in 1..n}
    <2>1. s \in Seq(S)
      BY DEF Distinct
    <2>2. n \in Nat /\ DOMAIN s = 1..n
      BY <2>1, LenProperties
    <2> QED BY <2>2, BoxLibrary
  <1>2. \A d \in S : Ranked(d)
    BY <1>1 DEF Distinct
  <1>3. \A d, e \in S : d # e => d.ordinal # e.ordinal
    BY <1>1 DEF Distinct
  <1>4. \A i, j \in 1..n : i # j => s[i] # s[j]
    BY <1>1 DEF Distinct
  <1>5. IsFiniteSet(S) /\ Cardinality(S) = n
    <2>1. s \in [1..n -> S]
      <3>1. s \in Seq(S)
        BY DEF Distinct
      <3> QED BY <3>1, LenProperties
    <2> HIDE DEF S, n
    <2>2. s \in Injection(1..n, S)
      BY <1>4, <2>1 DEF Injection, IsInjective
    <2>3. s \in Surjection(1..n, S)
      BY <1>1, <2>1 DEF Surjection
    <2>4. IsFiniteSet(1..n) /\ Cardinality(1..n) = n
      BY <1>1, FS_Interval
    <2> QED BY <2>2, <2>3, <2>4, FS_Surjection
  <1> HIDE DEF S, n
  <1>6. \A d \in S : Before(S, d) \subseteq S /\ IsFiniteSet(Before(S, d)) /\ Rank(S, d) \in Nat
    <2> SUFFICES ASSUME NEW d \in S
                 PROVE  Before(S, d) \subseteq S /\ IsFiniteSet(Before(S, d)) /\ Rank(S, d) \in Nat
      OBVIOUS
    <2>1. Before(S, d) \subseteq S
      BY DEF Before
    <2>2. IsFiniteSet(Before(S, d))
      BY <1>5, <2>1, FS_Subset
    <2>3. Rank(S, d) \in Nat
      BY <2>2, FS_CardinalityType DEF Rank
    <2> QED BY <2>1, <2>2, <2>3
  <1>7. ASSUME NEW d \in S, NEW e \in S, Boxes!Precedes(d, e)
        PROVE  Rank(S, d) < Rank(S, e)
    <2>1. d \notin Before(S, d)
      BY <1>2, OrderIsTotal DEF Before
    <2>2. Before(S, d) \cup {d} \subseteq Before(S, e)
      BY <1>2, <1>7, OrderIsTotal DEF Before
    <2>3. Cardinality(Before(S, d) \cup {d}) = Rank(S, d) + 1
      BY <1>6, <2>1, FS_AddElement DEF Rank
    <2>4. Cardinality(Before(S, d) \cup {d}) <= Rank(S, e)
      BY <1>6, <2>2, FS_Subset DEF Rank
    <2> QED BY <1>6, <2>3, <2>4
  <1>8. \A d, e \in S : Boxes!Precedes(d, e) \/ Boxes!Precedes(e, d) \/ d = e
    BY <1>2, <1>3, OrderIsTotal
  <1>9. ASSUME NEW d \in S PROVE Rank(S, d) \in 0..(n - 1)
    <2>1. d \notin Before(S, d)
      BY <1>2, OrderIsTotal DEF Before
    <2>2. Before(S, d) \cup {d} \subseteq S
      BY <1>6
    <2>3. Cardinality(Before(S, d) \cup {d}) = Rank(S, d) + 1
      BY <1>6, <2>1, FS_AddElement DEF Rank
    <2>4. Cardinality(Before(S, d) \cup {d}) <= n
      BY <1>5, <2>2, FS_Subset
    <2> QED BY <1>1, <1>6, <2>3, <2>4
  <1>10. \A i \in 1..n : \E d \in S : Rank(S, d) = i - 1
    <2> DEFINE R == 0..(n - 1)
               rank == [d \in S |-> Rank(S, d)]
    <2>1. rank \in [S -> R]
      BY <1>9
    <2>2. \A d, e \in S : rank[d] = rank[e] => d = e
      <3> SUFFICES ASSUME NEW d \in S, NEW e \in S, Rank(S, d) = Rank(S, e) PROVE d = e
        OBVIOUS
      <3>1. ~Boxes!Precedes(d, e) /\ ~Boxes!Precedes(e, d)
        BY <1>6, <1>7
      <3> QED BY <1>8, <3>1
    <2>3. rank \in Injection(S, R)
      <3> HIDE DEF rank, R
      <3> QED BY <2>1, <2>2 DEF Injection, IsInjective
    <2>4. IsFiniteSet(R) /\ Cardinality(R) = n
      <3>1. n - 1 \in Int /\ (0 > n - 1 <=> n = 0) /\ n - 1 - 0 + 1 = n
        BY <1>1
      <3>2. IsFiniteSet(0..(n - 1)) /\ Cardinality(0..(n - 1)) = IF 0 > n - 1 THEN 0 ELSE n - 1 - 0 + 1
        BY <3>1, FS_Interval
      <3> QED BY <3>1, <3>2
    <2>5. rank \in Surjection(S, R)
      <3> HIDE DEF rank, R
      <3> QED BY <1>5, <2>3, <2>4, FS_Injection
    <2>6. \A r \in R : \E d \in S : rank[d] = r
      <3> HIDE DEF rank, R
      <3> QED BY <2>5 DEF Surjection
    <2>7. \A i \in 1..n : i - 1 \in R
      BY <1>1
    <2> QED BY <2>6, <2>7
  <1> QED BY <1>7, <1>8, <1>9, <1>10 DEF S, n

\* Sorting: the same candidates, each before the next.
LEMMA SortedIs ==
  ASSUME NEW s, Distinct(s)
  PROVE  LET q == Boxes!Sorted(s)
         IN /\ DOMAIN q = 1..Len(s) /\ Len(s) \in Nat
            /\ \A i \in 1..Len(s) : q[i] \in Boxes!ToSet(s)
            /\ \A d \in Boxes!ToSet(s) : \E i \in 1..Len(s) : q[i] = d
            /\ \A i, j \in 1..Len(s) : i < j => Boxes!Precedes(q[i], q[j])
  <1> DEFINE S == Boxes!ToSet(s)
             n == Len(s)
             q == Boxes!Sorted(s)
  <1>1. n \in Nat /\ DOMAIN s = 1..n
    <2>1. s \in Seq(S)
      BY DEF Distinct
    <2> QED BY <2>1, LenProperties
  <1>2. /\ \A i \in 1..n : \E d \in S : Rank(S, d) = i - 1
        /\ \A d \in S : Rank(S, d) \in 0..(n - 1)
        /\ \A d, e \in S : Boxes!Precedes(d, e) => Rank(S, d) < Rank(S, e)
        /\ \A d, e \in S : Boxes!Precedes(d, e) \/ Boxes!Precedes(e, d) \/ d = e
    BY RanksAreAll
  <1>3. /\ q = [i \in 1..n |-> CHOOSE d \in S : Boxes!Cardinality({e \in S : Boxes!Precedes(e, d)}) = i - 1]
        /\ \A d : Boxes!Cardinality({e \in S : Boxes!Precedes(e, d)}) = Rank(S, d)
    <2>1. q = [i \in 1..n |-> CHOOSE d \in S : Boxes!Cardinality({e \in S : Boxes!Precedes(e, d)}) = i - 1]
      <3> HIDE DEF S, n
      <3> QED BY <1>1 DEF Boxes!Sorted, S
    <2>2. \A d : Boxes!Cardinality({e \in S : Boxes!Precedes(e, d)}) = Rank(S, d)
      BY BoxLibrary DEF Rank, Before
    <2> QED BY <2>1, <2>2
  <1>4. \A i \in 1..n : q[i] \in S /\ Rank(S, q[i]) = i - 1
    <2> SUFFICES ASSUME NEW i \in 1..n PROVE q[i] \in S /\ Rank(S, q[i]) = i - 1
      OBVIOUS
    <2> DEFINE P(d) == d \in S /\ Boxes!Cardinality({e \in S : Boxes!Precedes(e, d)}) = i - 1
    <2>1. \E d : P(d)
      BY <1>2, <1>3
    <2>2. P(CHOOSE d : P(d))
      <3> HIDE DEF P
      <3> QED BY <2>1
    <2>3. q[i] = CHOOSE d : P(d)
      BY <1>3
    <2> QED BY <1>3, <2>2, <2>3
  <1>5. DOMAIN q = 1..n
    BY <1>3
  <1> HIDE DEF q, S, n
  <1>6. ASSUME NEW d \in S PROVE \E i \in 1..n : q[i] = d
    <2> DEFINE i == Rank(S, d) + 1
    <2>1. i \in 1..n /\ i - 1 = Rank(S, d)
      BY <1>1, <1>2
    <2>2. q[i] \in S /\ Rank(S, q[i]) = Rank(S, d)
      BY <1>4, <2>1
    <2>3. ~Boxes!Precedes(q[i], d) /\ ~Boxes!Precedes(d, q[i])
      <3>1. Rank(S, d) \in Int
        BY <1>1, <1>2
      <3> QED BY <1>2, <2>2, <3>1
    <2> QED BY <1>2, <2>1, <2>2, <2>3
  <1>7. ASSUME NEW i \in 1..n, NEW j \in 1..n, i < j PROVE Boxes!Precedes(q[i], q[j])
    <2>1. q[i] \in S /\ q[j] \in S /\ Rank(S, q[i]) = i - 1 /\ Rank(S, q[j]) = j - 1
      BY <1>4
    <2>2. ~(Rank(S, q[j]) < Rank(S, q[i])) /\ Rank(S, q[i]) # Rank(S, q[j])
      BY <1>1, <1>7, <2>1
    <2> QED BY <1>2, <2>1, <2>2
  <1> QED BY <1>1, <1>4, <1>5, <1>6, <1>7 DEF q, S, n

\* A sequence with one candidate more, of another row.
LEMMA OneMore ==
  ASSUME NEW s, Distinct(s), NEW c, Ranked(c), \A i \in DOMAIN s : s[i].ordinal # c.ordinal
  PROVE  LET t == s \o <<c>>
         IN /\ Distinct(t) /\ DOMAIN t = 1..(Len(s) + 1) /\ DOMAIN s = 1..Len(s) /\ Len(s) \in Nat
            /\ \A i \in 1..Len(s) : t[i] = s[i]
            /\ t[Len(s) + 1] = c
  <1> DEFINE S == Boxes!ToSet(s)
             T == S \cup {c}
             t == s \o <<c>>
             n == Len(s)
  <1>1. s \in Seq(S) /\ s \in Seq(T) /\ c \in T
    <2>1. s \in Seq(S)
      BY DEF Distinct
    <2> HIDE DEF S
    <2>2. S \subseteq T
      OBVIOUS
    <2> HIDE DEF T
    <2>3. s \in Seq(T)
      BY <2>1, <2>2, SeqMonotonic
    <2> QED BY <2>1, <2>3 DEF T
  <1>2. n \in Nat /\ DOMAIN s = 1..n
    BY <1>1, LenProperties
  <1>3. t = Append(s, c)
    <2> HIDE DEF T, S
    <2> QED BY <1>1, AppendIsConcat
  <1>4. /\ t \in Seq(T) /\ Len(t) = n + 1
        /\ \A i \in 1..n : t[i] = s[i]
        /\ t[n + 1] = c
    <2> HIDE DEF T, S, t
    <2> QED BY <1>1, <1>3, AppendProperties
  <1>5. DOMAIN t = 1..(n + 1)
    <2> HIDE DEF T, t, n
    <2> QED BY <1>4, LenProperties
  <1>6. Boxes!ToSet(t) = T
    <2>1. Boxes!ToSet(t) = {t[i] : i \in 1..(n + 1)} /\ S = {s[i] : i \in 1..n}
      <3> HIDE DEF t
      <3> QED BY <1>2, <1>5, BoxLibrary
    <2> HIDE DEF t, n, S
    <2>2. \A i \in 1..(n + 1) : i \in 1..n \/ i = n + 1
      BY <1>2
    <2>3. \A i \in 1..n : i \in 1..(n + 1)
      BY <1>2
    <2>4. n + 1 \in 1..(n + 1)
      BY <1>2
    <2> QED BY <1>4, <2>1, <2>2, <2>3, <2>4
  <1> HIDE DEF t, n, S, T
  <1>7. \A i \in 1..(n + 1) : i \in 1..n \/ i = n + 1
    BY <1>2
  <1>8. \A i \in DOMAIN t : Ranked(t[i])
    BY <1>2, <1>4, <1>5, <1>7 DEF Distinct
  <1>9. \A i, j \in DOMAIN t : i # j => t[i].ordinal # t[j].ordinal
    BY <1>2, <1>4, <1>5, <1>7 DEF Distinct
  <1>10. Distinct(t)
    BY <1>4, <1>6, <1>8, <1>9 DEF Distinct
  <1> QED BY <1>2, <1>4, <1>5, <1>10 DEF t, n

Boxy(d) == d.box.x1 < d.box.x2 /\ d.box.y1 < d.box.y2

\* A row gives no candidate or one, with the row's number.
LEMMA RowGives ==
  ASSUME NEW row \in Rows, point \in Nat
  PROVE  \/ Boxes!SetToSeq(Boxes!Candidates(row)) = <<>>
         \/ \E c : /\ Boxes!SetToSeq(Boxes!Candidates(row)) = <<c>>
                   /\ Ranked(c) /\ Boxy(c) /\ c.ordinal = point
  <1> DEFINE K == {k \in Boxes!BestClass(row.scores) :
                     /\ row.scores[k] >= ScoreThreshold
                     /\ \A side \in 1..4 : row.sides[side] # NotFinite
                     /\ Boxes!Box(row.sides).x1 < Boxes!Box(row.sides).x2
                     /\ Boxes!Box(row.sides).y1 < Boxes!Box(row.sides).y2}
             D(k) == [class |-> k, score |-> row.scores[k], ordinal |-> point, box |-> Boxes!Box(row.sides)]
             S == Boxes!Candidates(row)
  <1>1. S = {D(k) : k \in K}
    BY DEF Boxes!Candidates
  <1>2. /\ Classes \subseteq Int
        /\ \A k \in Classes : row.scores[k] \in Int \cup {NotFinite}
    BY DataPathsAssumption DEF DataPathsAssumption, Boxes!NanoDetAssumption
  <1>3. \A k \in Boxes!BestClass(row.scores) :
          /\ k \in Classes /\ k \in Int /\ row.scores[k] \in Int
          /\ \A j \in Classes : row.scores[j] < row.scores[k] \/ (row.scores[j] = row.scores[k] /\ j <= k)
    BY <1>2 DEF Boxes!BestClass
  <1>4. \A j, k \in Boxes!BestClass(row.scores) : j = k
    <2> SUFFICES ASSUME NEW j \in Boxes!BestClass(row.scores), NEW k \in Boxes!BestClass(row.scores) PROVE j = k
      OBVIOUS
    <2>1. row.scores[j] < row.scores[k] \/ (row.scores[j] = row.scores[k] /\ j <= k)
      BY <1>3
    <2>2. row.scores[k] < row.scores[j] \/ (row.scores[k] = row.scores[j] /\ k <= j)
      BY <1>3
    <2>3. j \in Int /\ k \in Int /\ row.scores[j] \in Int /\ row.scores[k] \in Int
      BY <1>3
    <2> QED BY <2>1, <2>2, <2>3
  <1>5. CASE K = {}
    <2>1. S = {}
      BY <1>1, <1>5
    <2>2. Boxes!Cardinality({}) = 0
      BY BoxLibrary, FS_EmptySet
    <2>3. 1..0 = {}
      OBVIOUS
    <2>4. <<>> \in [1..0 -> {}] /\ \A f \in [1..0 -> {}] : f = <<>>
      BY <2>3
    <2> DEFINE P(f) == f \in [1..0 -> {}] /\ Boxes!IsInjective(f)
    <2>5. P(<<>>)
      BY <2>3, <2>4 DEF Boxes!IsInjective
    <2>6. P(CHOOSE f : P(f))
      <3> HIDE DEF P
      <3> QED BY <2>5
    <2>7. Boxes!SetToSeq(S) = CHOOSE f : P(f)
      BY <2>1, <2>2 DEF Boxes!SetToSeq
    <2> QED BY <2>4, <2>6, <2>7
  <1>6. CASE K # {}
    <2>1. PICK k \in K : TRUE
      BY <1>6
    <2> DEFINE c == D(k)
    <2>2. K = {k}
      BY <1>4, <2>1
    <2>3. S = {c}
      BY <1>1, <2>2
    <2>4. Ranked(c) /\ Boxy(c) /\ c.ordinal = point
      <3>1. k \in Int /\ row.scores[k] \in Int
        BY <1>3, <2>1
      <3>2. /\ Boxes!Box(row.sides).x1 < Boxes!Box(row.sides).x2
            /\ Boxes!Box(row.sides).y1 < Boxes!Box(row.sides).y2
        BY <2>1
      <3> QED BY <3>1, <3>2 DEF Ranked, Boxy
    <2> HIDE DEF c, K, S
    <2>5. Boxes!Cardinality({c}) = 1
      BY BoxLibrary, FS_Singleton
    <2> DEFINE P(f) == f \in [1..1 -> {c}] /\ Boxes!IsInjective(f)
    <2>6. <<c>> \in [1..1 -> {c}] /\ \A f \in [1..1 -> {c}] : f = <<c>>
      <3>1. 1..1 = {1}
        OBVIOUS
      <3>2. <<c>> = [i \in 1..1 |-> c]
        OBVIOUS
      <3> QED BY <3>1, <3>2
    <2>7. P(<<c>>)
      BY <2>6 DEF Boxes!IsInjective
    <2>8. P(CHOOSE f : P(f))
      <3> HIDE DEF P
      <3> QED BY <2>7
    <2>9. Boxes!SetToSeq(S) = CHOOSE f : P(f)
      BY <2>3, <2>5 DEF Boxes!SetToSeq
    <2>10. Boxes!SetToSeq(S) = <<c>>
      BY <2>6, <2>8, <2>9
    <2> QED BY <2>4, <2>10 DEF S
  <1> QED BY <1>5, <1>6

\* While rows are decoded: the candidates so far, each of a row of its own.
RowsInv ==
  /\ point \in Nat /\ scratch = decoded /\ Distinct(decoded)
  /\ \A i \in DOMAIN decoded : decoded[i].ordinal < point /\ Boxy(decoded[i])

\* While the sorted candidates are read: those not yet read are where the sorting
\* put them, and those kept are the greedy choice among those read.
Suppressing(q) ==
  /\ scratch \in Seq(Boxes!ToSet(decoded))
  /\ \A i \in 1..Len(scratch) : q[i] \in Boxes!ToSet(decoded)
  /\ \A d \in Boxes!ToSet(decoded) : Boxy(d) /\ \E i \in 1..Len(scratch) : q[i] = d
  /\ \A i, j \in 1..Len(scratch) : i < j => Boxes!Precedes(q[i], q[j])
  /\ index \in 1..(Len(scratch) + 1) /\ retained \in 0..(index - 1) /\ retained <= decoder.max
  /\ \A i \in index..Len(scratch) : scratch[i] = q[i]
  /\ \A i \in 1..retained : \E p \in 1..(index - 1) : scratch[i] = q[p]
  /\ \A i, j \in 1..retained : i < j =>
       Boxes!Precedes(scratch[i], scratch[j]) /\ ~Boxes!Overlaps(scratch[i], scratch[j])
  /\ \A p \in 1..(index - 1) : \E i \in 1..retained :
       scratch[i] = q[p] \/ (Boxes!Precedes(scratch[i], q[p]) /\ Boxes!Overlaps(scratch[i], q[p]))

Decoding(t, m, n) == [started |-> TRUE, tensorId |-> t, max |-> m, negotiated |-> n]

BoxesInv ==
  /\ chosen.max \in Maxima
  /\ decoder = Boxes!Stopped \/ \E t, n : \E m \in Maxima : decoder = Decoding(t, m, n)
  /\ decoder = Boxes!Stopped => decoding = "idle" /\ decoded = <<>> /\ attached = <<>>
  /\ decoding \in {"idle", "rows", "suppressing"}
  /\ decoding = "rows" => RowsInv
  /\ decoding = "suppressing" => \E q : Suppressing(q)
  /\ Boxes!ChoiceIsGreedy

\* The values of max-detections are numbers, and there is one.
LEMMA MaximaFacts ==
  Maxima # {} /\ Maxima \subseteq Nat
  BY DataPathsAssumption DEF DataPathsAssumption, Boxes!NanoDetAssumption

\* A started decoder is not the stopped one, and negotiation leaves its bound alone.
LEMMA DecodingIs ==
  /\ \A t, m, n : Decoding(t, m, n) # Boxes!Stopped /\ Decoding(t, m, n).max = m
  /\ \A t, m, n, k : [Decoding(t, m, n) EXCEPT !.negotiated = k] = Decoding(t, m, k)
  <1>1. ASSUME NEW t, NEW m, NEW n PROVE Decoding(t, m, n) # Boxes!Stopped /\ Decoding(t, m, n).max = m
    <2>1. Decoding(t, m, n).started = TRUE /\ Boxes!Stopped.started = FALSE /\ Decoding(t, m, n).max = m
      BY DEF Decoding, Boxes!Stopped
    <2> QED BY <2>1
  <1>2. ASSUME NEW t, NEW m, NEW n, NEW k
        PROVE  [Decoding(t, m, n) EXCEPT !.negotiated = k] = Decoding(t, m, k)
    <2> DEFINE b == TRUE
    <2> HIDE DEF b
    <2>1. [[started |-> b, tensorId |-> t, max |-> m, negotiated |-> n] EXCEPT !.negotiated = k] =
            [started |-> b, tensorId |-> t, max |-> m, negotiated |-> k]
      OBVIOUS
    <2> QED BY <2>1, Zenon DEF b, Decoding
  <1> QED BY <1>1, <1>2

\* Of nothing there is nothing.
LEMMA NothingThere ==
  DOMAIN <<>> = {} /\ Len(<<>>) = 0 /\ Boxes!ToSet(<<>>) = {}
  <1>1. DOMAIN <<>> = {} /\ Len(<<>>) = 0
    OBVIOUS
  <1> QED BY <1>1, BoxLibrary

\* The invariant holds of the first state.
LEMMA BoxesStart ==
  ASSUME Boxes!Init
  PROVE  BoxesInv
  <1>1. /\ chosen.max = CHOOSE n \in Maxima : TRUE
        /\ decoder = Boxes!Stopped /\ decoding = "idle" /\ decoded = <<>> /\ attached = <<>>
    <2> DEFINE t == CHOOSE t \in TensorIds : t # Blank
               m == CHOOSE n \in Maxima : TRUE
    <2>1. chosen = [tensorId |-> t, labels |-> "none", max |-> m]
      BY DEF Boxes!Init
    <2> HIDE DEF t, m
    <2>2. chosen.max = m
      BY <2>1
    <2> QED BY <2>2 DEF Boxes!Init, m
  <1>2. chosen.max \in Maxima
    BY <1>1, MaximaFacts
  <1>3. Boxes!ChoiceIsGreedy
    BY <1>1, NothingThere DEF Boxes!ChoiceIsGreedy
  <1> QED BY <1>1, <1>2, <1>3 DEF BoxesInv

\* A step that leaves the frame alone keeps the choice, whichever the maximum is
\* while nothing is decoded.
LEMMA SettingsStep ==
  ASSUME BoxesInv, Boxes!SetProperty \/ Boxes!Start \/ Boxes!SetCaps
  PROVE  BoxesInv'
  <1>1. UNCHANGED <<decoding, point, scratch, decoded, index, retained, attached>> /\ decoding = "idle"
    BY DEF Boxes!SetProperty, Boxes!Start, Boxes!SetCaps, Boxes!frameVars, BoxesInv
  <1>2. CASE Boxes!SetProperty
    <2>1. decoder' = decoder /\ chosen'.max \in Maxima
      BY <1>2 DEF Boxes!SetProperty
    <2>2. Boxes!ChoiceIsGreedy'
      BY <1>1, <2>1 DEF BoxesInv, Boxes!ChoiceIsGreedy
    <2> QED BY <1>1, <2>1, <2>2 DEF BoxesInv
  <1>3. CASE Boxes!Start
    <2>1. /\ chosen' = chosen /\ decoder = Boxes!Stopped
          /\ decoder' = Decoding(chosen.tensorId, chosen.max, Boxes!Unnegotiated)
      BY <1>3 DEF Boxes!Start, Decoding
    <2>2. decoded' = <<>> /\ attached' = <<>> /\ chosen.max \in Maxima
      BY <1>1, <2>1 DEF BoxesInv
    <2>3. decoder' # Boxes!Stopped /\ decoder'.max = chosen.max
      BY <2>1, DecodingIs
    <2>4. Boxes!ChoiceIsGreedy'
      <3>1. decoder'.max \in Nat
        BY <2>2, <2>3, MaximaFacts
      <3> QED BY <2>2, <3>1, NothingThere DEF Boxes!ChoiceIsGreedy
    <2> QED BY <1>1, <2>1, <2>2, <2>3, <2>4 DEF BoxesInv, Boxes!Stopped
  <1>4. CASE Boxes!SetCaps
    <2>1. PICK k : decoder # Boxes!Stopped /\ decoder' = [decoder EXCEPT !.negotiated = k] /\ chosen' = chosen
      BY <1>4 DEF Boxes!SetCaps
    <2>p. PICK t, n : \E m \in Maxima : decoder = Decoding(t, m, n)
      BY <2>1 DEF BoxesInv
    <2>2. PICK m \in Maxima : decoder = Decoding(t, m, n)
      BY <2>p
    <2>3. decoder' = Decoding(t, m, k)
      BY <2>1, <2>2, DecodingIs
    <2>4. decoder' # Boxes!Stopped /\ decoder'.max = decoder.max /\ decoder # Boxes!Stopped
      BY <2>2, <2>3, DecodingIs
    <2>5. Boxes!ChoiceIsGreedy'
      BY <1>1, <2>4 DEF BoxesInv, Boxes!ChoiceIsGreedy, Boxes!Stopped
    <2> QED BY <1>1, <2>1, <2>3, <2>4, <2>5 DEF BoxesInv, Boxes!Stopped
  <1> QED BY <1>2, <1>3, <1>4

\* stop(), and a buffer that is passed on without its tensors decoded.
LEMMA FrameWithout ==
  ASSUME BoxesInv, Boxes!Stop \/ Boxes!PassOn
  PROVE  BoxesInv'
  <1>1. /\ decoding = "idle" /\ decoding' = "idle" /\ decoded' = <<>> /\ attached' = <<>> /\ chosen' = chosen
        /\ decoder' = decoder \/ decoder' = Boxes!Stopped
    BY DEF Boxes!Stop, Boxes!PassOn, Boxes!capsVars
  <1>2. decoder' = Boxes!Stopped \/ \E t, n : \E m \in Maxima : decoder' = Decoding(t, m, n)
    BY <1>1 DEF BoxesInv
  <1>3. decoder' # Boxes!Stopped => decoder'.max \in Nat
    BY <1>2, DecodingIs, MaximaFacts
  <1>4. Boxes!ChoiceIsGreedy'
    BY <1>1, <1>3, NothingThere DEF Boxes!ChoiceIsGreedy, Boxes!Stopped
  <1> QED BY <1>1, <1>2, <1>4 DEF BoxesInv

\* A frame: its rows are decoded into an empty scratch vector.
LEMMA RowsBegin ==
  ASSUME BoxesInv, Boxes!DecodeBegins
  PROVE  BoxesInv'
  <1>1. /\ decoding' = "rows" /\ point' = 0 /\ scratch' = <<>> /\ decoded' = <<>>
        /\ chosen' = chosen /\ decoder' = decoder /\ decoder # Boxes!Stopped
    BY DEF Boxes!DecodeBegins, Boxes!capsVars
  <1>2. RowsInv'
    <2>1. <<>> \in Seq(Boxes!ToSet(<<>>))
      BY EmptySeq
    <2>2. Distinct(<<>>)
      BY <2>1, NothingThere DEF Distinct
    <2>3. Distinct(decoded')
      BY <1>1, <2>2
    <2> QED BY <1>1, <2>3, NothingThere DEF RowsInv
  <1>3. Boxes!ChoiceIsGreedy'
    BY <1>1 DEF Boxes!ChoiceIsGreedy
  <1> QED BY <1>1, <1>2, <1>3 DEF BoxesInv, Boxes!Stopped

\* A row: its candidates follow those of the rows before it.
LEMMA RowDecoded ==
  ASSUME BoxesInv, Boxes!DecodeRow
  PROVE  BoxesInv'
  <1>1. PICK row \in Rows :
          /\ decoding = "rows" /\ decoding' = "rows" /\ point' = point + 1
          /\ scratch' = scratch \o Boxes!SetToSeq(Boxes!Candidates(row))
          /\ decoded' = decoded \o Boxes!SetToSeq(Boxes!Candidates(row))
          /\ chosen' = chosen /\ decoder' = decoder
    BY DEF Boxes!DecodeRow, Boxes!capsVars
  <1>2. RowsInv
    BY <1>1 DEF BoxesInv
  <1>3. point \in Nat /\ point' \in Nat /\ point' = point + 1 /\ scratch' = decoded'
    BY <1>1, <1>2 DEF RowsInv
  <1>4. Distinct(decoded) /\ \A i \in DOMAIN decoded : decoded[i].ordinal < point /\ Boxy(decoded[i])
    BY <1>2 DEF RowsInv
  <1>5. \A i \in DOMAIN decoded : decoded[i].ordinal \in Int
    BY <1>4 DEF Distinct, Ranked
  <1>6. CASE Boxes!SetToSeq(Boxes!Candidates(row)) = <<>>
    <2>1. decoded' = decoded
      <3>1. decoded \in Seq(Boxes!ToSet(decoded))
        BY <1>4 DEF Distinct
      <3>2. decoded \o <<>> = decoded
        BY <3>1, ConcatEmptySeq
      <3> QED BY <1>1, <1>6, <3>2
    <2>2. Distinct(decoded')
      BY <1>4, <2>1
    <2>3. \A i \in DOMAIN decoded' : decoded'[i].ordinal < point' /\ Boxy(decoded'[i])
      BY <1>3, <1>4, <1>5, <2>1
    <2>4. RowsInv'
      BY <1>3, <2>2, <2>3 DEF RowsInv
    <2>5. Boxes!ChoiceIsGreedy'
      BY <1>1 DEF Boxes!ChoiceIsGreedy
    <2> QED BY <1>1, <2>4, <2>5 DEF BoxesInv, Boxes!Stopped
  <1>7. ASSUME NEW c, Boxes!SetToSeq(Boxes!Candidates(row)) = <<c>>, Ranked(c), Boxy(c), c.ordinal = point
        PROVE  BoxesInv'
    <2>1. decoded' = decoded \o <<c>>
      BY <1>1, <1>7
    <2>2. \A i \in DOMAIN decoded : decoded[i].ordinal # c.ordinal
      BY <1>3, <1>4, <1>5, <1>7
    <2>3. /\ Distinct(decoded') /\ DOMAIN decoded' = 1..(Len(decoded) + 1)
          /\ DOMAIN decoded = 1..Len(decoded) /\ Len(decoded) \in Nat
          /\ \A i \in 1..Len(decoded) : decoded'[i] = decoded[i]
          /\ decoded'[Len(decoded) + 1] = c
      <3> DEFINE s == decoded
      <3>1. Distinct(s) /\ Ranked(c) /\ \A i \in DOMAIN s : s[i].ordinal # c.ordinal
        BY <1>4, <1>7, <2>2
      <3> HIDE DEF s
      <3>2. /\ Distinct(s \o <<c>>) /\ DOMAIN (s \o <<c>>) = 1..(Len(s) + 1)
            /\ DOMAIN s = 1..Len(s) /\ Len(s) \in Nat
            /\ \A i \in 1..Len(s) : (s \o <<c>>)[i] = s[i]
            /\ (s \o <<c>>)[Len(s) + 1] = c
        BY <3>1, OneMore
      <3> QED BY <2>1, <3>2 DEF s
    <2>4. \A i \in DOMAIN decoded' : decoded'[i].ordinal < point' /\ Boxy(decoded'[i])
      <3> SUFFICES ASSUME NEW i \in 1..(Len(decoded) + 1)
                   PROVE  decoded'[i].ordinal < point' /\ Boxy(decoded'[i])
        BY <2>3
      <3>1. CASE i \in 1..Len(decoded)
        BY <1>3, <1>4, <1>5, <2>3, <3>1
      <3>2. CASE i = Len(decoded) + 1
        BY <1>3, <1>7, <2>3, <3>2
      <3>3. i \in 1..Len(decoded) \/ i = Len(decoded) + 1
        BY <2>3
      <3> QED BY <3>1, <3>2, <3>3
    <2>5. RowsInv'
      BY <1>3, <2>3, <2>4 DEF RowsInv
    <2>6. Boxes!ChoiceIsGreedy'
      BY <1>1 DEF Boxes!ChoiceIsGreedy
    <2> QED BY <1>1, <2>5, <2>6 DEF BoxesInv, Boxes!Stopped
  <1> QED BY <1>3, <1>6, <1>7, RowGives

\* The rows are done: the vector is sorted, and nothing of it is kept yet.
LEMMA SuppressionBegins ==
  ASSUME BoxesInv, Boxes!SuppressBegins
  PROVE  BoxesInv'
  <1>1. /\ decoding = "rows" /\ decoding' = "suppressing" /\ index' = 1 /\ retained' = 0
        /\ scratch' = Boxes!Sorted(scratch) /\ decoded' = decoded
        /\ chosen' = chosen /\ decoder' = decoder
    BY DEF Boxes!SuppressBegins, Boxes!capsVars
  <1>2. RowsInv /\ decoder # Boxes!Stopped
    BY <1>1 DEF BoxesInv
  <1>3. scratch = decoded /\ Distinct(decoded) /\ \A i \in DOMAIN decoded : Boxy(decoded[i])
    BY <1>2 DEF RowsInv
  <1>4. decoder.max \in Nat
    BY <1>2, DecodingIs, MaximaFacts DEF BoxesInv
  <1> DEFINE S == Boxes!ToSet(decoded)
             n == Len(decoded)
             q == Boxes!Sorted(decoded)
  <1>5. /\ DOMAIN q = 1..n /\ n \in Nat
        /\ \A i \in 1..n : q[i] \in S
        /\ \A d \in S : \E i \in 1..n : q[i] = d
        /\ \A i, j \in 1..n : i < j => Boxes!Precedes(q[i], q[j])
    BY <1>3, SortedIs
  <1>6. q \in Seq(S) /\ Len(q) = n
    <2>1. q = [i \in 1..n |-> q[i]]
      <3>1. DOMAIN decoded = 1..n
        <4>1. decoded \in Seq(S)
          BY <1>3 DEF Distinct
        <4> QED BY <4>1, LenProperties
      <3> DEFINE At(i) == CHOOSE d \in S : Boxes!Cardinality({e \in S : Boxes!Precedes(e, d)}) = i - 1
      <3>2. q = [i \in 1..n |-> At(i)]
        <4> HIDE DEF S, n
        <4> QED BY <3>1 DEF Boxes!Sorted, S
      <3> HIDE DEF q, S, n, At
      <3> QED BY <3>2
    <2> HIDE DEF q, S, n
    <2>2. q \in [1..n -> S]
      BY <1>5, <2>1
    <2>3. q \in Seq(S)
      BY <1>5, <2>2, SeqDef
    <2> QED BY <1>5, <2>3, LenProperties
  <1>7. \A d \in S : Boxy(d)
    BY <1>3, BoxLibrary
  <1>8. scratch' = q /\ Boxes!ToSet(decoded)' = S /\ decoder' = decoder
    BY <1>1, <1>3
  <1> HIDE DEF q, S, n
  <1>c. PICK c : c = q
    OBVIOUS
  <1>9. Suppressing(c)'
    <2>1. /\ scratch' \in Seq(S) /\ Len(scratch') = n
          /\ index' = 1 /\ retained' = 0 /\ retained' <= decoder'.max
          /\ index' \in 1..(n + 1) /\ retained' \in 0..(index' - 1)
      BY <1>1, <1>4, <1>5, <1>6, <1>8
    <2>2. 1..retained' = {} /\ 1..(index' - 1) = {}
      BY <2>1
    <2>3. \A i \in index'..n : scratch'[i] = c[i]
      BY <1>8, <1>c
    <2>4. Boxes!ToSet(decoded') = S
      BY <1>8
    <2>5. /\ scratch' \in Seq(Boxes!ToSet(decoded'))
          /\ \A i \in 1..Len(scratch') : c[i] \in Boxes!ToSet(decoded')
          /\ \A d \in Boxes!ToSet(decoded') : Boxy(d) /\ \E i \in 1..Len(scratch') : c[i] = d
          /\ \A i, j \in 1..Len(scratch') : i < j => Boxes!Precedes(c[i], c[j])
          /\ \A i \in index'..Len(scratch') : scratch'[i] = c[i]
      BY <1>5, <1>7, <1>c, <2>1, <2>3, <2>4
    <2>6. index' \in 1..(Len(scratch') + 1) /\ retained' \in 0..(index' - 1) /\ retained' <= decoder'.max
      BY <2>1
    <2>7. /\ \A i \in 1..retained' : \E p \in 1..(index' - 1) : scratch'[i] = c[p]
          /\ \A i, j \in 1..retained' : i < j =>
               Boxes!Precedes(scratch'[i], scratch'[j]) /\ ~Boxes!Overlaps(scratch'[i], scratch'[j])
          /\ \A p \in 1..(index' - 1) : \E i \in 1..retained' :
               scratch'[i] = c[p] \/ (Boxes!Precedes(scratch'[i], c[p]) /\ Boxes!Overlaps(scratch'[i], c[p]))
      BY <2>2
    <2> QED BY <2>5, <2>6, <2>7 DEF Suppressing
  <1>10. Boxes!ChoiceIsGreedy'
    BY <1>1 DEF Boxes!ChoiceIsGreedy
  <1>11. \E p : Suppressing(p)'
    BY <1>9
  <1> QED BY <1>1, <1>2, <1>10, <1>11 DEF BoxesInv, Boxes!Stopped

\* A turn of the loop: what overlaps a kept candidate yields to it; the place of
\* what is kept next has been read already, so nothing unread is written over.
LEMMA CandidateRead ==
  ASSUME BoxesInv, Boxes!SuppressNext
  PROVE  BoxesInv'
  <1>1. /\ decoding = "suppressing" /\ decoding' = "suppressing" /\ index <= Len(scratch)
        /\ retained < decoder.max
        /\ index' = index + 1 /\ decoded' = decoded /\ chosen' = chosen /\ decoder' = decoder
    BY DEF Boxes!SuppressNext, Boxes!capsVars
  <1>2. PICK q : Suppressing(q)
    BY <1>1 DEF BoxesInv
  <1> DEFINE D == Boxes!ToSet(decoded)
             n == Len(scratch)
             c == scratch[index]
  <1>3. /\ scratch \in Seq(D) /\ n \in Nat /\ index \in 1..n /\ retained \in 0..(index - 1)
        /\ index \in Int /\ retained \in Int
        /\ DOMAIN scratch = 1..n
    BY <1>1, <1>2, LenProperties DEF Suppressing
  <1>4. decoder.max \in Nat /\ decoder # Boxes!Stopped
    BY <1>1, DecodingIs, MaximaFacts DEF BoxesInv
  <1>5. /\ \A i \in 1..n : q[i] \in D
        /\ \A d \in D : Boxy(d) /\ \E i \in 1..n : q[i] = d
        /\ \A i, j \in 1..n : i < j => Boxes!Precedes(q[i], q[j])
        /\ \A i \in index..n : scratch[i] = q[i]
    BY <1>2 DEF Suppressing
  <1>c. c = q[index]
    <2>1. index \in index..n
      BY <1>3
    <2> HIDE DEF n
    <2> QED BY <1>5, <2>1
  <1>6. /\ \A i \in 1..retained : \E p \in 1..(index - 1) : scratch[i] = q[p]
        /\ \A i, j \in 1..retained : i < j =>
             Boxes!Precedes(scratch[i], scratch[j]) /\ ~Boxes!Overlaps(scratch[i], scratch[j])
        /\ \A p \in 1..(index - 1) : \E i \in 1..retained :
             scratch[i] = q[p] \/ (Boxes!Precedes(scratch[i], q[p]) /\ Boxes!Overlaps(scratch[i], q[p]))
    BY <1>2 DEF Suppressing
  <1>7. \A i \in 1..retained : Boxes!Precedes(scratch[i], c)
    <2> HIDE DEF c, n, D
    <2> SUFFICES ASSUME NEW i \in 1..retained PROVE Boxes!Precedes(scratch[i], c)
      OBVIOUS
    <2>1. PICK p \in 1..(index - 1) : scratch[i] = q[p]
      BY <1>6
    <2>2. p \in 1..n /\ p < index
      BY <1>3
    <2> QED BY <1>3, <1>5, <1>c, <2>1, <2>2
  <1>8. \A p \in 1..index' - 1 : p \in 1..(index - 1) \/ p = index
    BY <1>1, <1>3
  <1>9. ASSUME scratch' \in Seq(D), Len(scratch') = n, retained' \in 0..index, retained' <= decoder.max,
               \A i \in (index + 1)..n : scratch'[i] = scratch[i],
               \A i \in 1..retained' : \E p \in 1..index : scratch'[i] = q[p],
               \A i, j \in 1..retained' : i < j =>
                 Boxes!Precedes(scratch'[i], scratch'[j]) /\ ~Boxes!Overlaps(scratch'[i], scratch'[j]),
               \A p \in 1..index : \E i \in 1..retained' :
                 scratch'[i] = q[p] \/ (Boxes!Precedes(scratch'[i], q[p]) /\ Boxes!Overlaps(scratch'[i], q[p]))
        PROVE  BoxesInv'
    <2>1. Boxes!ToSet(decoded') = D
      BY <1>1
    <2> HIDE DEF D, n
    <2>2. index' - 1 = index /\ index' \in 1..(n + 1)
      BY <1>1, <1>3
    <2>3. /\ scratch' \in Seq(Boxes!ToSet(decoded'))
          /\ \A i \in 1..Len(scratch') : q[i] \in Boxes!ToSet(decoded')
          /\ \A d \in Boxes!ToSet(decoded') : Boxy(d) /\ \E i \in 1..Len(scratch') : q[i] = d
          /\ \A i, j \in 1..Len(scratch') : i < j => Boxes!Precedes(q[i], q[j])
      BY <1>5, <1>9, <2>1
    <2>4. index' \in 1..(Len(scratch') + 1) /\ retained' \in 0..(index' - 1) /\ retained' <= decoder'.max
      BY <1>1, <1>9, <2>2
    <2>5. \A i \in index'..Len(scratch') : scratch'[i] = q[i]
      <3>1. \A i \in (index + 1)..n : i \in index..n
        BY <1>3
      <3> QED BY <1>1, <1>5, <1>9, <3>1
    <2>6. Suppressing(q)'
      BY <1>9, <2>2, <2>3, <2>4, <2>5 DEF Suppressing
    <2>7. \E p : Suppressing(p)'
      BY <2>6
    <2>8. Boxes!ChoiceIsGreedy'
      BY <1>1 DEF Boxes!ChoiceIsGreedy
    <2>9. (chosen.max \in Maxima)'
        /\ (decoder = Boxes!Stopped \/ \E t, l : \E m \in Maxima : decoder = Decoding(t, m, l))'
      BY <1>1 DEF BoxesInv, Boxes!Stopped
    <2> QED BY <1>1, <1>4, <2>7, <2>8, <2>9 DEF BoxesInv, Boxes!Stopped
  <1>10. CASE \E i \in 1..retained : Boxes!Overlaps(scratch[i], scratch[index])
    <2>1. scratch' = scratch /\ retained' = retained
      BY <1>10 DEF Boxes!SuppressNext
    <2>2. PICK k \in 1..retained : Boxes!Overlaps(scratch[k], c)
      BY <1>10
    <2> HIDE DEF D, n, c
    <2>3. retained \in 0..index /\ retained <= decoder.max
      BY <1>1, <1>3, <1>4
    <2>4. \A p \in 1..index : p \in 1..(index - 1) \/ p = index
      BY <1>3
    <2>5. \A p \in 1..(index - 1) : p \in 1..index
      BY <1>3
    <2>6. \A i \in 1..retained : \E p \in 1..index : scratch[i] = q[p]
      BY <1>6, <2>5
    <2>7. \A p \in 1..index : \E i \in 1..retained :
            scratch[i] = q[p] \/ (Boxes!Precedes(scratch[i], q[p]) /\ Boxes!Overlaps(scratch[i], q[p]))
      BY <1>c, <1>6, <1>7, <2>2, <2>4
    <2>8. Len(scratch') = n
      BY <2>1 DEF n
    <2> QED BY <1>3, <1>6, <1>9, <2>1, <2>3, <2>6, <2>7, <2>8
  <1>11. CASE ~\E i \in 1..retained : Boxes!Overlaps(scratch[i], scratch[index])
    <2>1. scratch' = [scratch EXCEPT ![retained + 1] = c] /\ retained' = retained + 1
      BY <1>11 DEF Boxes!SuppressNext
    <2>a. \A i \in 1..retained : ~Boxes!Overlaps(scratch[i], c)
      BY <1>11
    <2>2. retained + 1 \in 1..n /\ c \in D
      BY <1>3, <1>5, <1>c
    <2> HIDE DEF D, n, c
    <2>3. /\ scratch' \in Seq(D) /\ Len(scratch') = n
          /\ scratch'[retained + 1] = c
          /\ \A i \in 1..n : i # retained + 1 => scratch'[i] = scratch[i]
      <3>1. /\ scratch' \in [1..n -> D]
            /\ scratch'[retained + 1] = c
            /\ \A i \in 1..n : i # retained + 1 => scratch'[i] = scratch[i]
        <4>1. scratch \in [1..n -> D]
          BY <1>3, LenProperties DEF n
        <4> QED BY <2>1, <2>2, <4>1
      <3>2. scratch' \in Seq(D)
        BY <1>3, <3>1, SeqDef
      <3>3. Len(scratch') = n
        BY <1>3, <3>1, <3>2, LenProperties
      <3> QED BY <3>1, <3>2, <3>3
    <2>4. retained' \in 0..index /\ retained' <= decoder.max
      BY <1>1, <1>3, <1>4, <2>1
    <2>5. /\ \A i \in (index + 1)..n : i \in 1..n /\ i # retained + 1
          /\ \A i \in 1..retained : i \in 1..n /\ i # retained + 1 /\ i \in 1..retained'
          /\ \A i \in 1..retained' : i \in 1..retained \/ i = retained + 1
          /\ \A i, j \in 1..retained' : i < j => i \in 1..retained /\ (j \in 1..retained \/ j = retained + 1)
          /\ retained + 1 \in 1..retained'
      BY <1>3, <2>1
    <2>6. /\ \A p \in 1..(index - 1) : p \in 1..index
          /\ \A p \in 1..index : p \in 1..(index - 1) \/ p = index
          /\ index \in 1..index
      BY <1>3
    <2>7. \A i \in (index + 1)..n : scratch'[i] = scratch[i]
      BY <2>3, <2>5
    <2>8. \A i \in 1..retained : scratch'[i] = scratch[i]
      BY <2>3, <2>5
    <2>9. \A i \in 1..retained' : \E p \in 1..index : scratch'[i] = q[p]
      BY <1>c, <1>6, <2>3, <2>5, <2>6, <2>8
    <2>10. \A i, j \in 1..retained' : i < j =>
             Boxes!Precedes(scratch'[i], scratch'[j]) /\ ~Boxes!Overlaps(scratch'[i], scratch'[j])
      <3> SUFFICES ASSUME NEW i \in 1..retained', NEW j \in 1..retained', i < j
                   PROVE  Boxes!Precedes(scratch'[i], scratch'[j]) /\ ~Boxes!Overlaps(scratch'[i], scratch'[j])
        OBVIOUS
      <3>1. i \in 1..retained /\ scratch'[i] = scratch[i] /\ (j \in 1..retained \/ j = retained + 1)
        BY <2>5, <2>8
      <3>2. CASE j \in 1..retained
        BY <1>6, <2>8, <3>1, <3>2
      <3>3. CASE j = retained + 1
        BY <1>7, <2>3, <2>a, <3>1, <3>3
      <3> QED BY <3>1, <3>2, <3>3
    <2>11. \A p \in 1..index : \E i \in 1..retained' :
             scratch'[i] = q[p] \/ (Boxes!Precedes(scratch'[i], q[p]) /\ Boxes!Overlaps(scratch'[i], q[p]))
      <3> SUFFICES ASSUME NEW p \in 1..index
                   PROVE  \E i \in 1..retained' :
                            \/ scratch'[i] = q[p]
                            \/ Boxes!Precedes(scratch'[i], q[p]) /\ Boxes!Overlaps(scratch'[i], q[p])
        OBVIOUS
      <3>1. CASE p = index
        BY <1>c, <2>3, <2>5, <3>1
      <3>2. CASE p \in 1..(index - 1)
        BY <1>6, <2>5, <2>8, <3>2
      <3> QED BY <2>6, <3>1, <3>2
    <2> QED BY <1>9, <2>3, <2>4, <2>7, <2>9, <2>10, <2>11
  <1> QED BY <1>10, <1>11

\* What is attached is what is kept: whatever was read and is not kept yields to
\* a kept one, and if not all were read the frame is full of better ones.
LEMMA ChoiceAttached ==
  ASSUME BoxesInv, Boxes!Attach
  PROVE  BoxesInv'
  <1>1. /\ decoding = "suppressing" /\ decoding' = "idle"
        /\ index > Len(scratch) \/ retained = decoder.max
        /\ attached' = SubSeq(scratch, 1, retained)
        /\ decoded' = decoded /\ chosen' = chosen /\ decoder' = decoder
    BY DEF Boxes!Attach, Boxes!capsVars
  <1>2. PICK q : Suppressing(q)
    BY <1>1 DEF BoxesInv
  <1> DEFINE D == Boxes!ToSet(decoded)
             n == Len(scratch)
             kept == Boxes!ToSet(attached')
  <1>3. /\ scratch \in Seq(D) /\ n \in Nat /\ index \in 1..(n + 1) /\ retained \in 0..(index - 1)
        /\ index \in Int /\ retained \in Int /\ retained <= n
        /\ DOMAIN scratch = 1..n
    BY <1>2, LenProperties DEF Suppressing
  <1>4. decoder.max \in Nat /\ decoder # Boxes!Stopped
    BY <1>1, DecodingIs, MaximaFacts DEF BoxesInv
  <1>5. /\ \A i \in 1..n : q[i] \in D
        /\ \A d \in D : Boxy(d) /\ \E i \in 1..n : q[i] = d
        /\ \A i, j \in 1..n : i < j => Boxes!Precedes(q[i], q[j])
        /\ retained <= decoder.max
    BY <1>2 DEF Suppressing
  <1>6. /\ \A i \in 1..retained : \E p \in 1..(index - 1) : scratch[i] = q[p]
        /\ \A i, j \in 1..retained : i < j =>
             Boxes!Precedes(scratch[i], scratch[j]) /\ ~Boxes!Overlaps(scratch[i], scratch[j])
        /\ \A p \in 1..(index - 1) : \E i \in 1..retained :
             scratch[i] = q[p] \/ (Boxes!Precedes(scratch[i], q[p]) /\ Boxes!Overlaps(scratch[i], q[p]))
    BY <1>2 DEF Suppressing
  <1>7. /\ attached' \in Seq(D) /\ Len(attached') = retained /\ DOMAIN attached' = 1..retained
        /\ \A i \in 1..retained : attached'[i] = scratch[i]
    <2> HIDE DEF D, n
    <2>1. retained <= Len(scratch)
      BY <1>3 DEF n
    <2>2. attached' = [i \in 1..retained |-> scratch[i]]
      BY <1>1, <1>3
    <2>3. \A i \in 1..retained : scratch[i] \in D
      <3>1. \A i \in 1..retained : i \in 1..n
        BY <1>3
      <3>2. \A i \in 1..n : scratch[i] \in D
        BY <1>3, LenProperties DEF n
      <3> QED BY <3>1, <3>2
    <2>4. attached' \in [1..retained -> D] /\ retained \in Nat
      BY <1>3, <2>2, <2>3
    <2>5. attached' \in Seq(D)
      BY <2>4, SeqDef
    <2> QED BY <2>2, <2>4, <2>5, LenProperties
  <1>8. kept = {scratch[i] : i \in 1..retained}
    <2>1. kept = {attached'[i] : i \in 1..retained}
      BY <1>7, BoxLibrary
    <2> HIDE DEF kept
    <2> QED BY <1>7, <2>1
  <1> HIDE DEF kept, D, n
  <1>9. \A p \in 1..(index - 1) : p \in 1..n
    BY <1>3
  <1>10. kept \subseteq D
    BY <1>5, <1>6, <1>8, <1>9
  <1>11. \A i, j \in 1..retained : i < j =>
           Boxes!Precedes(attached'[i], attached'[j]) /\ ~Boxes!Overlaps(attached'[i], attached'[j])
    BY <1>6, <1>7
  <1>12. \A d \in kept : d.box.x1 < d.box.x2 /\ d.box.y1 < d.box.y2
    BY <1>5, <1>10 DEF Boxy
  <1>13. ASSUME NEW d \in D, d \notin kept
         PROVE  \/ \E k \in kept : Boxes!Precedes(k, d) /\ Boxes!Overlaps(k, d)
                \/ retained = decoder.max /\ \A k \in kept : Boxes!Precedes(k, d)
    <2>1. PICK p \in 1..n : q[p] = d
      BY <1>5
    <2>2. CASE p \in 1..(index - 1)
      BY <1>6, <1>8, <1>13, <2>1, <2>2
    <2>3. CASE p \notin 1..(index - 1)
      <3>1. p >= index /\ index <= n
        BY <1>3, <2>3
      <3>2. retained = decoder.max
        BY <1>1, <1>3, <3>1 DEF n
      <3>3. ASSUME NEW k \in kept PROVE Boxes!Precedes(k, d)
        <4>1. PICK i \in 1..retained : k = scratch[i]
          BY <1>8
        <4>2. PICK e \in 1..(index - 1) : scratch[i] = q[e]
          BY <1>6
        <4>3. e \in 1..n /\ e < p
          BY <1>3, <3>1, <4>2
        <4> QED BY <1>5, <2>1, <4>1, <4>2, <4>3
      <3> QED BY <3>2, <3>3
    <2> QED BY <2>2, <2>3
  <1>14. Boxes!ToSet(decoded') = D /\ Boxes!ToSet(attached') = kept
    BY <1>1 DEF D, kept
  <1>15. Boxes!ChoiceIsGreedy'
    <2>1. kept \subseteq Boxes!ToSet(decoded') /\ Len(attached') <= decoder'.max
      BY <1>1, <1>5, <1>7, <1>10, <1>14
    <2>2. \A i, j \in DOMAIN attached' : i < j =>
            Boxes!Precedes(attached'[i], attached'[j]) /\ ~Boxes!Overlaps(attached'[i], attached'[j])
      BY <1>7, <1>11
    <2>3. \A d \in Boxes!ToSet(decoded') \ kept :
            \/ \E k \in kept : Boxes!Precedes(k, d) /\ Boxes!Overlaps(k, d)
            \/ Len(attached') = decoder'.max /\ \A k \in kept : Boxes!Precedes(k, d)
      BY <1>1, <1>7, <1>13, <1>14
    <2> QED BY <1>12, <1>14, <2>1, <2>2, <2>3 DEF Boxes!ChoiceIsGreedy
  <1>16. (chosen.max \in Maxima)'
        /\ (decoder = Boxes!Stopped \/ \E t, l : \E m \in Maxima : decoder = Decoding(t, m, l))'
    BY <1>1 DEF BoxesInv, Boxes!Stopped
  <1> QED BY <1>1, <1>4, <1>15, <1>16 DEF BoxesInv, Boxes!Stopped

\* The points of the first grids of a contract, one grid after the other.
GridSums(c, n) ==
  {f \in [0..n -> Int] : f[0] = 0 /\ \A k \in 1..n : f[k] = f[k - 1] + Boxes!Cells(c, c.strides[k])}

\* What the grids of a contract come to, from what they come to one by one.
LEMMA GridIs ==
  ASSUME NEW c, NEW n \in Nat, NEW f \in GridSums(c, n)
  PROVE  Boxes!GridPoints(c, n) = f[n]
  <1>f. /\ f \in [0..n -> Int] /\ f[0] = 0
        /\ \A k \in 1..n : f[k] = f[k - 1] + Boxes!Cells(c, c.strides[k])
    BY DEF GridSums
  <1> DEFINE R(h) == h = [k \in 0..n |-> IF k = 0 THEN 0 ELSE h[k - 1] + Boxes!Cells(c, c.strides[k])]
             points == CHOOSE h : R(h)
  <1>1. Boxes!GridPoints(c, n) = points[n]
    BY DEF Boxes!GridPoints
  <1>2. R(f)
    <2> DEFINE h == [k \in 0..n |-> IF k = 0 THEN 0 ELSE f[k - 1] + Boxes!Cells(c, c.strides[k])]
    <2>1. \A k \in 0..n : k = 0 \/ k \in 1..n
      OBVIOUS
    <2>2. \A k \in 0..n : h[k] = f[k]
      BY <1>f, <2>1
    <2>3. DOMAIN h = 0..n /\ DOMAIN f = 0..n /\ h = [k \in 0..n |-> h[k]] /\ f = [k \in 0..n |-> f[k]]
      BY <1>f
    <2> HIDE DEF h
    <2>4. h = f
      BY <2>2, <2>3
    <2> QED BY <2>4 DEF h
  <1>3. R(points)
    <2> HIDE DEF R
    <2> QED BY <1>2
  <1> HIDE DEF points
  <1>4. /\ points[0] = 0
        /\ \A k \in 1..n : points[k] = points[k - 1] + Boxes!Cells(c, c.strides[k])
    <2> DEFINE step(k) == IF k = 0 THEN 0 ELSE points[k - 1] + Boxes!Cells(c, c.strides[k])
    <2>1. points = [k \in 0..n |-> step(k)]
      BY <1>3
    <2>2. step(0) = 0 /\ \A k \in 1..n : step(k) = points[k - 1] + Boxes!Cells(c, c.strides[k])
      OBVIOUS
    <2> HIDE DEF step
    <2>3. 0 \in 0..n /\ \A k \in 1..n : k \in 0..n
      OBVIOUS
    <2>4. \A k \in 0..n : points[k] = step(k)
      BY <2>1
    <2> QED BY <2>2, <2>3, <2>4
  <1> DEFINE S == {k \in 0..n : points[k] = f[k]}
  <1>5. 0 \in S
    BY <1>4, <1>f
  <1>6. \A k \in 0..(n - 1) : k \in S => k + 1 \in S
    <2> SUFFICES ASSUME NEW k \in 0..(n - 1), k \in S PROVE k + 1 \in S
      OBVIOUS
    <2>1. k + 1 \in 1..n /\ k + 1 \in 0..n /\ (k + 1) - 1 = k
      OBVIOUS
    <2> QED BY <1>4, <1>f, <2>1
  <1>7. n \in S
    <2> HIDE DEF S
    <2>1. 0..n \subseteq S
      BY <1>5, <1>6, UpTo
    <2>2. n \in 0..n
      OBVIOUS
    <2> QED BY <2>1, <2>2
  <1> QED BY <1>1, <1>7

\* The cells of the grids of the two sizes.
LEMMA GridCells ==
  /\ \A c : c.size = 320 => /\ Boxes!Cells(c, 8) = 1600 /\ Boxes!Cells(c, 16) = 400
                            /\ Boxes!Cells(c, 32) = 100 /\ Boxes!Cells(c, 64) = 25
  /\ \A c : c.size = 416 => /\ Boxes!Cells(c, 8) = 2704 /\ Boxes!Cells(c, 16) = 676
                            /\ Boxes!Cells(c, 32) = 169 /\ Boxes!Cells(c, 64) = 49
  <1>1. /\ Boxes!DivCeil(320, 8) = 40 /\ Boxes!DivCeil(320, 16) = 20
        /\ Boxes!DivCeil(320, 32) = 10 /\ Boxes!DivCeil(320, 64) = 5
    BY DEF Boxes!DivCeil
  <1>2. /\ Boxes!DivCeil(416, 8) = 52 /\ Boxes!DivCeil(416, 16) = 26
        /\ Boxes!DivCeil(416, 32) = 13 /\ Boxes!DivCeil(416, 64) = 7
    BY DEF Boxes!DivCeil
  <1> QED BY <1>1, <1>2 DEF Boxes!Cells

\* The points of three grids.
LEMMA ThreeGrids ==
  ASSUME NEW c, c.strides[1] = 8 /\ c.strides[2] = 16 /\ c.strides[3] = 32, Len(c.strides) = 3,
         Boxes!Cells(c, 8) \in Int, Boxes!Cells(c, 16) \in Int, Boxes!Cells(c, 32) \in Int
  PROVE  Boxes!GridPoints(c, Len(c.strides)) = Boxes!Cells(c, 8) + Boxes!Cells(c, 16) + Boxes!Cells(c, 32)
  <1> DEFINE a == Boxes!Cells(c, 8)
             b == Boxes!Cells(c, 16)
             d == Boxes!Cells(c, 32)
  <1>1. a \in Int /\ b \in Int /\ d \in Int
    OBVIOUS
  <1> HIDE DEF a, b, d
  <1> DEFINE f == [k \in 0..3 |-> IF k = 0 THEN 0 ELSE IF k = 1 THEN a ELSE IF k = 2 THEN a + b ELSE a + b + d]
  <1>2. f \in [0..3 -> Int] /\ f[0] = 0 /\ f[1] = a /\ f[2] = a + b /\ f[3] = a + b + d
    BY <1>1
  <1> HIDE DEF f
  <1>3. \A k \in 1..3 : f[k] = f[k - 1] + Boxes!Cells(c, c.strides[k])
    <2> SUFFICES ASSUME NEW k \in 1..3 PROVE f[k] = f[k - 1] + Boxes!Cells(c, c.strides[k])
      OBVIOUS
    <2>1. k = 1 \/ k = 2 \/ k = 3
      OBVIOUS
    <2>2. 1 - 1 = 0 /\ 2 - 1 = 1 /\ 3 - 1 = 2 /\ 0 + a = a
      BY <1>1
    <2> QED BY <1>2, <2>1, <2>2 DEF a, b, d
  <1>4. Boxes!GridPoints(c, 3) = f[3]
    <2>1. f \in GridSums(c, 3)
      BY <1>2, <1>3 DEF GridSums
    <2> QED BY <2>1, GridIs
  <1> QED BY <1>2, <1>4 DEF a, b, d

\* The points of four grids.
LEMMA FourGrids ==
  ASSUME NEW c, Len(c.strides) = 4,
         c.strides[1] = 8 /\ c.strides[2] = 16 /\ c.strides[3] = 32 /\ c.strides[4] = 64,
         Boxes!Cells(c, 8) \in Int, Boxes!Cells(c, 16) \in Int,
         Boxes!Cells(c, 32) \in Int, Boxes!Cells(c, 64) \in Int
  PROVE  Boxes!GridPoints(c, Len(c.strides)) =
           Boxes!Cells(c, 8) + Boxes!Cells(c, 16) + Boxes!Cells(c, 32) + Boxes!Cells(c, 64)
  <1> DEFINE a == Boxes!Cells(c, 8)
             b == Boxes!Cells(c, 16)
             d == Boxes!Cells(c, 32)
             e == Boxes!Cells(c, 64)
  <1>1. a \in Int /\ b \in Int /\ d \in Int /\ e \in Int
    OBVIOUS
  <1> HIDE DEF a, b, d, e
  <1> DEFINE f == [k \in 0..4 |->
                     IF k = 0 THEN 0 ELSE IF k = 1 THEN a ELSE IF k = 2 THEN a + b
                     ELSE IF k = 3 THEN a + b + d ELSE a + b + d + e]
  <1>2. /\ f \in [0..4 -> Int] /\ f[0] = 0 /\ f[1] = a /\ f[2] = a + b /\ f[3] = a + b + d
        /\ f[4] = a + b + d + e
    BY <1>1
  <1> HIDE DEF f
  <1>3. \A k \in 1..4 : f[k] = f[k - 1] + Boxes!Cells(c, c.strides[k])
    <2> SUFFICES ASSUME NEW k \in 1..4 PROVE f[k] = f[k - 1] + Boxes!Cells(c, c.strides[k])
      OBVIOUS
    <2>1. k = 1 \/ k = 2 \/ k = 3 \/ k = 4
      OBVIOUS
    <2>2. 1 - 1 = 0 /\ 2 - 1 = 1 /\ 3 - 1 = 2 /\ 4 - 1 = 3 /\ 0 + a = a
      BY <1>1
    <2> QED BY <1>2, <2>1, <2>2 DEF a, b, d, e
  <1>4. Boxes!GridPoints(c, 4) = f[4]
    <2>1. f \in GridSums(c, 4)
      BY <1>2, <1>3 DEF GridSums
    <2> QED BY <2>1, GridIs
  <1> QED BY <1>2, <1>4 DEF a, b, d, e

\* The points the code writes down for each contract are those of its grids.
LEMMA ContractsCover ==
  Boxes!GridsCover
  <1>1. \A c \in Contracts : c.points = Boxes!GridPoints(c, Len(c.strides))
    BY DataPathsAssumption DEF DataPathsAssumption, Boxes!NanoDetAssumption
  <1>2. ASSUME NEW c \in Boxes!CONTRACTS PROVE c.points = Boxes!GridPoints(c, Len(c.strides))
    <2>1. CASE c.size = 320 /\ c.points = 2100 /\ c.strides = <<8, 16, 32>>
      <3>1. Boxes!Cells(c, 8) = 1600 /\ Boxes!Cells(c, 16) = 400 /\ Boxes!Cells(c, 32) = 100
        BY <2>1, GridCells
      <3>2. c.strides[1] = 8 /\ c.strides[2] = 16 /\ c.strides[3] = 32 /\ Len(c.strides) = 3
        BY <2>1
      <3>3. Boxes!Cells(c, 8) \in Int /\ Boxes!Cells(c, 16) \in Int /\ Boxes!Cells(c, 32) \in Int
        BY <3>1
      <3>4. Boxes!GridPoints(c, Len(c.strides)) = Boxes!Cells(c, 8) + Boxes!Cells(c, 16) + Boxes!Cells(c, 32)
        BY <3>2, <3>3, ThreeGrids
      <3> QED BY <2>1, <3>1, <3>4
    <2>2. CASE c.size = 320 /\ c.points = 2125 /\ c.strides = <<8, 16, 32, 64>>
      <3>1. /\ Boxes!Cells(c, 8) = 1600 /\ Boxes!Cells(c, 16) = 400 /\ Boxes!Cells(c, 32) = 100
            /\ Boxes!Cells(c, 64) = 25
        BY <2>2, GridCells
      <3>2. /\ c.strides[1] = 8 /\ c.strides[2] = 16 /\ c.strides[3] = 32 /\ c.strides[4] = 64
            /\ Len(c.strides) = 4
        BY <2>2
      <3>3. /\ Boxes!Cells(c, 8) \in Int /\ Boxes!Cells(c, 16) \in Int
            /\ Boxes!Cells(c, 32) \in Int /\ Boxes!Cells(c, 64) \in Int
        BY <3>1
      <3>4. Boxes!GridPoints(c, Len(c.strides)) =
              Boxes!Cells(c, 8) + Boxes!Cells(c, 16) + Boxes!Cells(c, 32) + Boxes!Cells(c, 64)
        BY <3>2, <3>3, FourGrids
      <3> QED BY <2>2, <3>1, <3>4
    <2>3. CASE c.size = 416 /\ c.points = 3549 /\ c.strides = <<8, 16, 32>>
      <3>1. Boxes!Cells(c, 8) = 2704 /\ Boxes!Cells(c, 16) = 676 /\ Boxes!Cells(c, 32) = 169
        BY <2>3, GridCells
      <3>2. c.strides[1] = 8 /\ c.strides[2] = 16 /\ c.strides[3] = 32 /\ Len(c.strides) = 3
        BY <2>3
      <3>3. Boxes!Cells(c, 8) \in Int /\ Boxes!Cells(c, 16) \in Int /\ Boxes!Cells(c, 32) \in Int
        BY <3>1
      <3>4. Boxes!GridPoints(c, Len(c.strides)) = Boxes!Cells(c, 8) + Boxes!Cells(c, 16) + Boxes!Cells(c, 32)
        BY <3>2, <3>3, ThreeGrids
      <3> QED BY <2>3, <3>1, <3>4
    <2>4. CASE c.size = 416 /\ c.points = 3598 /\ c.strides = <<8, 16, 32, 64>>
      <3>1. /\ Boxes!Cells(c, 8) = 2704 /\ Boxes!Cells(c, 16) = 676 /\ Boxes!Cells(c, 32) = 169
            /\ Boxes!Cells(c, 64) = 49
        BY <2>4, GridCells
      <3>2. /\ c.strides[1] = 8 /\ c.strides[2] = 16 /\ c.strides[3] = 32 /\ c.strides[4] = 64
            /\ Len(c.strides) = 4
        BY <2>4
      <3>3. /\ Boxes!Cells(c, 8) \in Int /\ Boxes!Cells(c, 16) \in Int
            /\ Boxes!Cells(c, 32) \in Int /\ Boxes!Cells(c, 64) \in Int
        BY <3>1
      <3>4. Boxes!GridPoints(c, Len(c.strides)) =
              Boxes!Cells(c, 8) + Boxes!Cells(c, 16) + Boxes!Cells(c, 32) + Boxes!Cells(c, 64)
        BY <3>2, <3>3, FourGrids
      <3> QED BY <2>4, <3>1, <3>4
    <2> QED BY <2>1, <2>2, <2>3, <2>4 DEF Boxes!CONTRACTS
  <1> QED BY <1>1, <1>2 DEF Boxes!GridsCover

\* What upstream is offered for a contract has the one descriptor of that contract
\* and of no other, so it negotiates as that and gives the rest back downstream.
LEMMA OffersNegotiate ==
  Boxes!NegotiationSound
  <1> SUFFICES ASSUME NEW caps \in Boxes!Structures, NEW offer \in Boxes!Offered(caps)
               PROVE  /\ Boxes!Cardinality(Boxes!Negotiable(offer)) = 1
                      /\ \A n \in Boxes!Negotiable(offer) : Boxes!SupportsSize(caps, n.contract.size)
                      /\ Boxes!Forward(offer).nano = Boxes!Forward(caps).nano
                      /\ Boxes!Forward(offer).other = caps.other
    BY DEF Boxes!NegotiationSound
  <1>1. caps = [width |-> caps.width, height |-> caps.height, nano |-> caps.nano, other |-> caps.other]
    BY DEF Boxes!Structures
  <1>2. PICK c \in Contracts, kind \in Boxes!Kinds :
          Boxes!SupportsSize(caps, c.size) /\ offer = Boxes!Offer(caps, c, kind)
    BY DEF Boxes!Offered
  <1>3. /\ offer.width = c.size /\ offer.height = c.size /\ offer.other = caps.other
        /\ offer.nano = Boxes!Required(caps.nano, c, kind)
        /\ offer = [width |-> c.size, height |-> c.size, nano |-> offer.nano, other |-> caps.other]
    BY <1>1, <1>2 DEF Boxes!Offer
  <1>4. \A d, k : Boxes!Descriptor(d, k).id = chosen.tensorId
    BY DEF Boxes!Descriptor
  <1>5. \A d, k : Boxes!Descriptor(d, k) \in offer.nano <=> Boxes!Descriptor(d, k) = Boxes!Descriptor(c, kind)
    BY <1>3, <1>4 DEF Boxes!Required
  <1>6. \A d, k : Boxes!Descriptor(d, k) = Boxes!Descriptor(c, kind) => d.points = c.points /\ k = kind
    BY DEF Boxes!Descriptor
  <1>7. \A d \in Contracts : d.size = c.size /\ d.points = c.points => d = c
    BY DataPathsAssumption DEF DataPathsAssumption, Boxes!NanoDetAssumption
  <1>8. Boxes!Negotiable(offer) = {[contract |-> c, kind |-> kind]}
    <2>1. \A d \in Contracts, k \in Boxes!Kinds :
            (c.size = d.size /\ Boxes!Descriptor(d, k) \in offer.nano) <=> (d = c /\ k = kind)
      BY <1>5, <1>6, <1>7
    <2>2. \A n \in [contract : Contracts, kind : Boxes!Kinds] :
            n \in Boxes!Negotiable(offer) <=>
              c.size = n.contract.size /\ Boxes!Descriptor(n.contract, n.kind) \in offer.nano
      BY <1>3 DEF Boxes!Negotiable
    <2>3. \A n \in Boxes!Negotiable(offer) : n \in [contract : Contracts, kind : Boxes!Kinds]
      BY DEF Boxes!Negotiable
    <2>4. \A n \in [contract : Contracts, kind : Boxes!Kinds] :
            /\ n.contract \in Contracts /\ n.kind \in Boxes!Kinds
            /\ n = [contract |-> n.contract, kind |-> n.kind]
      OBVIOUS
    <2>5. [contract |-> c, kind |-> kind] \in [contract : Contracts, kind : Boxes!Kinds]
      OBVIOUS
    <2>6. \A n \in Boxes!Negotiable(offer) : n = [contract |-> c, kind |-> kind]
      BY <2>1, <2>2, <2>3, <2>4
    <2>7. [contract |-> c, kind |-> kind] \in Boxes!Negotiable(offer)
      BY <2>1, <2>2, <2>5
    <2> QED BY <2>6, <2>7
  <1>9. Boxes!Cardinality(Boxes!Negotiable(offer)) = 1
    <2> DEFINE x == [contract |-> c, kind |-> kind]
    <2> HIDE DEF x
    <2>1. Boxes!Cardinality({x}) = 1
      BY BoxLibrary, FS_Singleton
    <2> QED BY <1>8, <2>1 DEF x
  <1>10. \A n \in Boxes!Negotiable(offer) : Boxes!SupportsSize(caps, n.contract.size)
    BY <1>2, <1>8
  <1>11. Boxes!Forward(offer).nano = Boxes!Forward(caps).nano /\ Boxes!Forward(offer).other = caps.other
    <2>1. /\ Boxes!Forward(offer).nano = {t \in offer.nano : t.id # chosen.tensorId}
          /\ Boxes!Forward(offer).other = offer.other
      BY <1>3 DEF Boxes!Forward
    <2>2. Boxes!Forward(caps).nano = {t \in caps.nano : t.id # chosen.tensorId}
      BY <1>1 DEF Boxes!Forward
    <2>3. {t \in offer.nano : t.id # chosen.tensorId} = {t \in caps.nano : t.id # chosen.tensorId}
      BY <1>3, <1>4 DEF Boxes!Required
    <2> QED BY <1>3, <2>1, <2>2, <2>3
  <1> QED BY <1>9, <1>10, <1>11

\* Every step keeps the invariant.
LEMMA BoxesSteps ==
  ASSUME BoxesInv, Boxes!Next
  PROVE  BoxesInv'
  BY SettingsStep, FrameWithout, RowsBegin, RowDecoded, SuppressionBegins, CandidateRead, ChoiceAttached
  DEF Boxes!Next

\* A step of another part keeps the invariant.
LEMMA BoxesKept ==
  ASSUME BoxesInv, UNCHANGED boxVars
  PROVE  BoxesInv'
  <1>1. /\ chosen' = chosen /\ decoder' = decoder /\ decoding' = decoding /\ point' = point
        /\ scratch' = scratch /\ decoded' = decoded /\ index' = index /\ retained' = retained
        /\ attached' = attached
    BY DEF boxVars
  <1>2. RowsInv' <=> RowsInv
    BY <1>1 DEF RowsInv
  <1>3. (\E q : Suppressing(q)') <=> \E q : Suppressing(q)
    BY <1>1 DEF Suppressing
  <1>4. Boxes!ChoiceIsGreedy' <=> Boxes!ChoiceIsGreedy
    BY <1>1 DEF Boxes!ChoiceIsGreedy
  <1> QED BY <1>1, <1>2, <1>3, <1>4 DEF BoxesInv, Boxes!Stopped

\* In every behaviour of the sum, for any contracts that caps tell apart, classes, rows
\* and bounds: what nanodettensordec attaches is the greedy choice among the candidates
\* of that frame's rows, no more than max-detections (decode, suppress_in_place); all
\* it offers upstream negotiates as the one contract it was offered for
\* (transform_caps, set_caps); and each contract has the points of its grids.
THEOREM NanoDetStaysConsistent ==
  Spec => []NanoDetConsistent
  <1> DEFINE Inv == part = "boxes" => BoxesInv
  <1>1. Init => Inv
    BY BoxesStart DEF Init
  <1>2. Inv /\ [Next]_dataVars => Inv'
    <2> SUFFICES ASSUME Inv, [Next]_dataVars, part' = "boxes" PROVE BoxesInv'
      OBVIOUS
    <2>1. CASE OnlyOf("boxes") /\ Boxes!Next
      BY <2>1, BoxesSteps DEF OnlyOf
    <2>2. CASE UNCHANGED dataVars
      <3>1. part' = part /\ UNCHANGED boxVars
        BY <2>2 DEF dataVars
      <3> QED BY <3>1, BoxesKept
    <2>3. CASE OnlyOf("lines") \/ OnlyOf("meta") \/ OnlyOf("engines") \/ OnlyOf("packing")
      BY <2>3 DEF OnlyOf
    <2> QED BY <2>1, <2>2, <2>3 DEF Next
  <1>3. Inv => NanoDetConsistent
    BY OffersNegotiate, ContractsCover DEF BoxesInv, NanoDetConsistent, Boxes!NanoDetConsistent
  <1> QED BY <1>1, <1>2, <1>3, PTL DEF Spec

-----------------------------------------------------------------------------
(***************************************************************************)
(* lineparse and lineenc. The reference cuts a whole text from its start;  *)
(* the parser cuts what has arrived. A list of lines and a place are a     *)
(* cutting of a text when every text that begins with it is cut into those *)
(* lines and then as the reference cuts it from that place: the invariant  *)
(* is that the records pushed are of such a cutting, which the bytes still *)
(* to come cannot change.                                                  *)
(***************************************************************************)
\* Recursion toward the end of an interval: the values exist when each is given
\* or comes from one further on.
Back(T, m, E, nx, base, g) ==
  {f \in [0..m -> T] : \A i \in 0..m : f[i] = IF i \in E THEN base[i] ELSE g[i][f[nx[i]]]}

\* Recursion toward the end has a value, by induction from the end.
LEMMA BackExist ==
  ASSUME NEW T, NEW m \in Nat, NEW E, NEW nx, NEW base, NEW g,
         \A i \in 0..m : base[i] \in T,
         \A i \in 0..m : i \notin E => nx[i] \in (i + 1)..m,
         \A i \in 0..m, t \in T : i \notin E => g[i][t] \in T
  PROVE  Back(T, m, E, nx, base, g) # {}
  <1> DEFINE Is(f, n) == /\ f \in [n..m -> T]
                         /\ \A i \in n..m : f[i] = IF i \in E THEN base[i] ELSE g[i][f[nx[i]]]
             V == {n \in 0..m : \E f : Is(f, n)}
  <1>1. ASSUME NEW n \in 0..m, \A k \in (n + 1)..m : k \in V PROVE n \in V
    <2>1. \E f : Is(f, n + 1)
      <3>1. CASE n = m
        <4> DEFINE f == [i \in (n + 1)..m |-> base[i]]
        <4>1. (n + 1)..m = {}
          BY <3>1
        <4>2. f \in [(n + 1)..m -> T]
          BY <4>1
        <4> HIDE DEF f
        <4> QED BY <4>1, <4>2
      <3>2. CASE n # m
        <4>1. n + 1 \in (n + 1)..m
          BY <3>2
        <4> QED BY <1>1, <4>1
      <3> QED BY <3>1, <3>2
    <2>2. PICK f : Is(f, n + 1)
      BY <2>1
    <2> DEFINE v == IF n \in E THEN base[n] ELSE g[n][f[nx[n]]]
               h == [i \in n..m |-> IF i = n THEN v ELSE f[i]]
    <2>3. v \in T
      BY <2>2
    <2> HIDE DEF v
    <2>4. h \in [n..m -> T] /\ h[n] = v /\ \A i \in (n + 1)..m : h[i] = f[i]
      <3>1. \A i \in n..m : i = n \/ i \in (n + 1)..m
        OBVIOUS
      <3>2. \A i \in (n + 1)..m : i \in n..m /\ i # n
        OBVIOUS
      <3>3. n \in n..m
        OBVIOUS
      <3> QED BY <2>2, <2>3, <3>1, <3>2, <3>3
    <2> HIDE DEF h
    <2>5. ASSUME NEW i \in n..m PROVE h[i] = IF i \in E THEN base[i] ELSE g[i][h[nx[i]]]
      <3>1. i \in 0..m /\ (i = n \/ i \in (n + 1)..m)
        OBVIOUS
      <3>2. i \notin E => nx[i] \in (i + 1)..m
        BY <3>1
      <3>3. i \notin E => nx[i] \in (n + 1)..m
        BY <3>1, <3>2
      <3>4. i \notin E => h[nx[i]] = f[nx[i]]
        BY <2>4, <3>3
      <3>5. CASE i = n
        BY <2>4, <3>4, <3>5 DEF v
      <3>6. CASE i \in (n + 1)..m
        BY <2>2, <2>4, <3>4, <3>6
      <3> QED BY <3>1, <3>5, <3>6
    <2>6. Is(h, n)
      BY <2>4, <2>5
    <2> QED BY <2>6
  <1>2. 0..m \subseteq V
    <2> HIDE DEF V
    <2> QED BY <1>1, DownFrom
  <1>3. 0 \in V
    <2> HIDE DEF V
    <2>1. 0 \in 0..m
      OBVIOUS
    <2> QED BY <1>2, <2>1
  <1>4. PICK f : Is(f, 0)
    BY <1>3
  <1> QED BY <1>4 DEF Back

\* A set of numbers that has one has a least one.
LEMMA LeastIs ==
  ASSUME NEW M, M \subseteq Nat, M # {}
  PROVE  Lines!Least(M) \in M /\ \A j \in M : Lines!Least(M) <= j
  <1> DEFINE U == {n \in Nat : \A k \in 0..n : k \notin M}
             P(i) == i \in M /\ \A j \in M : i <= j
  <1>1. \E i : P(i)
    <2> SUFFICES ASSUME ~\E i : P(i) PROVE FALSE
      OBVIOUS
    <2>1. 0 \in U
      BY \A j \in M : 0 <= j, 0..0 = {0}
    <2>2. ASSUME NEW n \in Nat, n \in U PROVE n + 1 \in U
      <3>1. \A j \in M : n + 1 <= j
        BY <2>2
      <3>2. n + 1 \notin M
        BY <3>1
      <3>3. \A k \in 0..(n + 1) : k \in 0..n \/ k = n + 1
        OBVIOUS
      <3> QED BY <2>2, <3>2, <3>3
    <2>3. Nat \subseteq U
      <3> HIDE DEF U
      <3> QED BY <2>1, <2>2, NatSets
    <2>4. PICK n \in M : TRUE
      OBVIOUS
    <2>5. n \in U /\ n \in 0..n
      BY <2>3
    <2> QED BY <2>4, <2>5
  <1>2. P(CHOOSE i : P(i))
    <2> HIDE DEF P
    <2> QED BY <1>1
  <1>3. Lines!Least(M) = CHOOSE i : P(i)
    BY DEF Lines!Least
  <1> QED BY <1>2, <1>3

\* A part of a sequence, from a place on (from zero) to another.
LEMMA PartOf ==
  ASSUME NEW S, NEW s \in Seq(S), NEW m \in Nat, NEW n \in Nat, m <= n, n <= Len(s)
  PROVE  /\ SubSeq(s, m + 1, n) \in Seq(S) /\ Len(SubSeq(s, m + 1, n)) = n - m
         /\ \A i \in 1..(n - m) : SubSeq(s, m + 1, n)[i] = s[m + i]
  <1>1. Len(s) \in Nat /\ \A i \in 1..Len(s) : s[i] \in S
    BY LenProperties
  <1>2. m + 1 \in Int /\ n \in Int /\ \A i \in (m + 1)..n : s[i] \in S
    BY <1>1
  <1>3. /\ SubSeq(s, m + 1, n) \in Seq(S)
        /\ Len(SubSeq(s, m + 1, n)) = IF m + 1 <= n THEN n - (m + 1) + 1 ELSE 0
        /\ \A i \in 1..(n - (m + 1) + 1) : SubSeq(s, m + 1, n)[i] = s[(m + 1) + i - 1]
    BY <1>2, SubSeqProperties
  <1>4. n - (m + 1) + 1 = n - m /\ \A i \in 1..(n - m) : (m + 1) + i - 1 = m + i
    OBVIOUS
  <1>5. (IF m + 1 <= n THEN n - (m + 1) + 1 ELSE 0) = n - m
    OBVIOUS
  <1> QED BY <1>3, <1>4, <1>5

Texts == Seq(Bytes)
Lists == Seq(Texts)
Cuts == [lines : Lists, rest : Texts]

\* The reference's operators, of a delimiter that is a parameter.
MatchesOf(D, w, from) == {i \in from..(Len(w) - Len(D)) : SubSeq(w, i + 1, i + Len(D)) = D}
CutOf(D, w) ==
  LET cut[i \in 0..Len(w)] ==
        LET found == MatchesOf(D, w, i)
            at == Lines!Least(found)
        IN IF found = {} THEN [lines |-> <<>>, rest |-> SubSeq(w, i + 1, Len(w))]
           ELSE LET later == cut[at + Len(D)]
                IN [lines |-> <<SubSeq(w, i + 1, at)>> \o later.lines, rest |-> later.rest]
  IN cut

\* They are the operators of the specification, of the delimiter that is set.
LEMMA OfDelimiter ==
  /\ \A w, from : Lines!Matches(w, from) = MatchesOf(Lines!Delimiter, w, from)
  /\ \A w : Lines!Cut(w) = CutOf(Lines!Delimiter, w)
  <1>1. \A w, from : Lines!Matches(w, from) = MatchesOf(Lines!Delimiter, w, from)
    BY DEF Lines!Matches, MatchesOf
  <1>2. \A w : Lines!Cut(w) = CutOf(Lines!Delimiter, w)
    BY DEF Lines!Matches, MatchesOf, Lines!Cut, CutOf
  <1> QED BY <1>1, <1>2

\* The delimiter is at a place (from zero) of a text.
Here(D, w, k) == k + Len(D) <= Len(w) /\ \A j \in 1..Len(D) : w[k + j] = D[j]

\* The places that are matched are those where the delimiter is.
LEMMA MatchesAre ==
  ASSUME NEW D \in Texts, NEW w \in Texts, NEW from \in Nat
  PROVE  MatchesOf(D, w, from) = {k \in Nat : from <= k /\ Here(D, w, k)}
  <1> DEFINE d == Len(D)
             m == Len(w)
  <1>1. d \in Nat /\ m \in Nat
    BY LenProperties DEF Texts
  <1>2. ASSUME NEW k \in Nat, k + d <= m
        PROVE  SubSeq(w, k + 1, k + d) = D <=> \A j \in 1..d : w[k + j] = D[j]
    <2> DEFINE p == SubSeq(w, k + 1, k + d)
    <2>1. /\ p \in Seq(Bytes) /\ Len(p) = (k + d) - k
          /\ \A i \in 1..((k + d) - k) : p[i] = w[k + i]
      BY <1>1, <1>2, PartOf DEF Texts
    <2>2. (k + d) - k = d
      BY <1>1
    <2> HIDE DEF p
    <2>3. ASSUME \A j \in 1..d : w[k + j] = D[j] PROVE p = D
      BY <2>1, <2>2, <2>3, SeqEqual DEF Texts
    <2>4. ASSUME p = D PROVE \A j \in 1..d : w[k + j] = D[j]
      BY <2>1, <2>2, <2>4
    <2> QED BY <2>3, <2>4 DEF p
  <1>3. ASSUME NEW k
        PROVE  k \in from..(m - d) <=> k \in Nat /\ from <= k /\ k + d <= m
    BY <1>1
  <1> QED BY <1>2, <1>3 DEF MatchesOf, Here

\* The reference's recursion, of the places from which it cuts.
LEMMA CutIs ==
  ASSUME NEW D \in Texts, D # <<>>, NEW w \in Texts, NEW i \in 0..Len(w)
  PROVE  /\ CutOf(D, w)[i] \in Cuts
         /\ MatchesOf(D, w, i) = {} =>
              CutOf(D, w)[i] = [lines |-> <<>>, rest |-> SubSeq(w, i + 1, Len(w))]
         /\ MatchesOf(D, w, i) # {} =>
              LET at == Lines!Least(MatchesOf(D, w, i))
                  later == CutOf(D, w)[at + Len(D)]
              IN CutOf(D, w)[i] = [lines |-> <<SubSeq(w, i + 1, at)>> \o later.lines, rest |-> later.rest]
  <1> DEFINE m == Len(w)
             found(k) == MatchesOf(D, w, k)
             at(k) == Lines!Least(found(k))
             line(k) == SubSeq(w, k + 1, at(k))
             end(k) == [lines |-> <<>>, rest |-> SubSeq(w, k + 1, m)]
             T == Cuts
             E == {k \in 0..m : found(k) = {}}
             nx == [k \in 0..m |-> at(k) + Len(D)]
             base == [k \in 0..m |-> end(k)]
             before(x, t) == [lines |-> <<x>> \o t.lines, rest |-> t.rest]
             g == [k \in 0..m |-> [t \in T |-> before(line(k), t)]]
             R(h) == h = [k \in 0..m |-> IF found(k) = {} THEN end(k) ELSE before(line(k), h[at(k) + Len(D)])]
             cut == CHOOSE h : R(h)
  <1>1. m \in Nat /\ Len(D) \in Nat \ {0}
    BY LenProperties, EmptySeq DEF Texts
  <1>2. ASSUME NEW k \in 0..m, k \notin E
        PROVE  at(k) \in Nat /\ k <= at(k) /\ at(k) + Len(D) \in (k + 1)..m /\ line(k) \in Texts
    <2>1. found(k) = {j \in Nat : k <= j /\ Here(D, w, j)}
      BY MatchesAre
    <2>2. found(k) # {}
      BY <1>2
    <2> HIDE DEF found
    <2>3. at(k) \in found(k)
      BY <2>1, <2>2, LeastIs
    <2>4. at(k) \in Nat /\ k <= at(k) /\ at(k) + Len(D) <= m
      BY <2>1, <2>3 DEF Here
    <2>5. line(k) \in Texts
      <3> DEFINE n == at(k)
      <3>1. n \in Nat /\ k \in Nat /\ k <= n /\ n <= m
        BY <1>1, <2>4
      <3> HIDE DEF n
      <3>2. SubSeq(w, k + 1, n) \in Seq(Bytes)
        BY <3>1, PartOf DEF Texts
      <3> QED BY <3>2 DEF n, Texts
    <2> HIDE DEF at, line
    <2> QED BY <1>1, <2>4, <2>5
  <1>3. \A k \in 0..m : base[k] = end(k) /\ end(k) \in T
    <2> SUFFICES ASSUME NEW k \in 0..m PROVE base[k] = end(k) /\ end(k) \in T
      OBVIOUS
    <2>1. SubSeq(w, k + 1, m) \in Texts
      BY <1>1, PartOf DEF Texts
    <2>2. <<>> \in Lists
      BY EmptySeq DEF Lists
    <2> QED BY <2>1, <2>2 DEF Cuts
  <1>4. ASSUME NEW x \in Texts, NEW t \in T PROVE before(x, t) \in T
    <2>1. t.lines \in Seq(Texts) /\ t.rest \in Texts /\ <<x>> \in Seq(Texts)
      BY DEF Cuts, Lists
    <2>2. <<x>> \o t.lines \in Seq(Texts)
      BY <2>1, ConcatProperties
    <2> QED BY <2>1, <2>2 DEF Cuts, Lists
  <1>5. \A k \in 0..m : nx[k] = at(k) + Len(D) /\ \A t \in T : g[k][t] = before(line(k), t)
    OBVIOUS
  <1>6. CutOf(D, w) = cut
    BY DEF CutOf
  <1> HIDE DEF found, at, line, end, base, T, nx, before, g
  <1>7. Back(T, m, E, nx, base, g) # {}
    <2>1. \A k \in 0..m : base[k] \in T
      BY <1>3
    <2>2. \A k \in 0..m : k \notin E => nx[k] \in (k + 1)..m
      BY <1>2, <1>5
    <2>3. \A k \in 0..m, t \in T : k \notin E => g[k][t] \in T
      BY <1>2, <1>4, <1>5
    <2> HIDE DEF E, m
    <2> QED BY <1>1, <2>1, <2>2, <2>3, BackExist
  <1>8. PICK f : f \in [0..m -> T] /\ \A k \in 0..m : f[k] = IF k \in E THEN base[k] ELSE g[k][f[nx[k]]]
    BY <1>7 DEF Back
  <1>9. R(f)
    <2>1. ASSUME NEW k \in 0..m
          PROVE  f[k] = IF found(k) = {} THEN end(k) ELSE before(line(k), f[at(k) + Len(D)])
      <3>1. CASE found(k) = {}
        BY <1>3, <1>8, <3>1
      <3>2. CASE found(k) # {}
        <4>1. k \notin E /\ nx[k] = at(k) + Len(D)
          BY <1>5, <3>2
        <4>2. at(k) + Len(D) \in 0..m
          BY <1>1, <1>2, <4>1
        <4>3. f[nx[k]] \in T
          BY <1>8, <4>1, <4>2
        <4> QED BY <1>5, <1>8, <3>2, <4>1, <4>3
      <3> QED BY <3>1, <3>2
    <2> QED BY <1>8, <2>1
  <1>10. R(cut)
    <2> HIDE DEF R
    <2> QED BY <1>9
  <1> HIDE DEF cut
  <1>11. \A k \in 0..m : cut[k] = IF found(k) = {} THEN end(k) ELSE before(line(k), cut[at(k) + Len(D)])
    BY <1>10
  <1>12. \A k \in 0..m : cut[k] \in T
    <2> DEFINE V == {k \in 0..m : cut[k] \in T}
    <2>1. ASSUME NEW n \in 0..m, \A k \in (n + 1)..m : k \in V PROVE n \in V
      <3>1. CASE found(n) = {}
        BY <1>3, <1>11, <3>1
      <3>2. CASE found(n) # {}
        <4>1. at(n) + Len(D) \in (n + 1)..m /\ line(n) \in Texts
          BY <1>2, <3>2
        <4>2. cut[at(n) + Len(D)] \in T
          BY <2>1, <4>1
        <4> QED BY <1>4, <1>11, <3>2, <4>1, <4>2
      <3> QED BY <3>1, <3>2
    <2>2. 0..m \subseteq V
      <3> HIDE DEF V, m
      <3> QED BY <1>1, <2>1, DownFrom
    <2> QED BY <2>2
  <1> QED BY <1>6, <1>11, <1>12 DEF found, at, line, end, before, T

\* What is cut after some lines.
After(ls, x) == [lines |-> ls \o x.lines, rest |-> x.rest]

\* Lines after lines, in the order in which they are cut.
LEMMA AfterIs ==
  ASSUME NEW x \in Cuts
  PROVE  /\ After(<<>>, x) = x
         /\ \A ls \in Lists : After(ls, x) \in Cuts
         /\ \A ls, ms \in Lists : ls \o ms \in Lists /\ After(ls, After(ms, x)) = After(ls \o ms, x)
  <1>1. x.lines \in Seq(Texts) /\ x.rest \in Texts /\ x = [lines |-> x.lines, rest |-> x.rest]
    BY DEF Cuts, Lists
  <1>2. <<>> \o x.lines = x.lines
    BY <1>1, ConcatEmptySeq
  <1>3. ASSUME NEW ls \in Seq(Texts) PROVE ls \o x.lines \in Seq(Texts)
    BY <1>1, ConcatProperties
  <1>4. ASSUME NEW ls \in Seq(Texts), NEW ms \in Seq(Texts)
        PROVE  ls \o ms \in Seq(Texts) /\ ls \o (ms \o x.lines) = (ls \o ms) \o x.lines
    BY <1>1, ConcatProperties, ConcatAssociative
  <1> QED BY <1>1, <1>2, <1>3, <1>4 DEF After, Cuts, Lists

\* What is cut from a place, where the next delimiter is at another.
CutOn(D, w, i, at) ==
  [lines |-> <<SubSeq(w, i + 1, at)>> \o CutOf(D, w)[at + Len(D)].lines, rest |-> CutOf(D, w)[at + Len(D)].rest]

\* The reference cuts up to the next delimiter and goes on after it.
LEMMA CutGoesOn ==
  ASSUME NEW D \in Texts, D # <<>>, NEW w \in Texts, NEW i \in 0..Len(w), MatchesOf(D, w, i) # {}
  PROVE  CutOf(D, w)[i] = CutOn(D, w, i, Lines!Least(MatchesOf(D, w, i)))
  BY CutIs DEF CutOn

\* The lines and the place from which a text is cut further, whatever follows it.
Cutting(D, t, ls, c) ==
  /\ ls \in Lists /\ c \in 0..Len(t)
  /\ \A e \in Texts : CutOf(D, t \o e)[0] = After(ls, CutOf(D, t \o e)[c])

\* At its start every text is cut as the reference cuts it.
LEMMA CuttingStarts ==
  ASSUME NEW D \in Texts, D # <<>>, NEW t \in Texts
  PROVE  Cutting(D, t, <<>>, 0)
  <1>1. <<>> \in Lists /\ 0 \in 0..Len(t)
    BY EmptySeq, LenProperties DEF Lists, Texts
  <1>2. ASSUME NEW e \in Texts PROVE CutOf(D, t \o e)[0] = After(<<>>, CutOf(D, t \o e)[0])
    <2>1. t \o e \in Texts /\ 0 \in 0..Len(t \o e)
      BY ConcatProperties, LenProperties DEF Texts
    <2>2. CutOf(D, t \o e)[0] \in Cuts
      BY <2>1, CutIs
    <2> QED BY <2>2, AfterIs
  <1> QED BY <1>1, <1>2 DEF Cutting

\* What follows a text does not change what has been cut.
LEMMA CuttingGrows ==
  ASSUME NEW D, NEW t \in Texts, NEW ls, NEW c, Cutting(D, t, ls, c), NEW x \in Texts
  PROVE  Cutting(D, t \o x, ls, c)
  <1>1. Len(t) \in Nat /\ Len(x) \in Nat /\ Len(t \o x) = Len(t) + Len(x)
    BY ConcatProperties, LenProperties DEF Texts
  <1>2. c \in 0..Len(t \o x)
    BY <1>1 DEF Cutting
  <1>3. ASSUME NEW e \in Texts PROVE CutOf(D, (t \o x) \o e)[0] = After(ls, CutOf(D, (t \o x) \o e)[c])
    <2>1. x \o e \in Texts /\ (t \o x) \o e = t \o (x \o e)
      BY ConcatProperties, ConcatAssociative DEF Texts
    <2> QED BY <2>1 DEF Cutting
  <1> QED BY <1>2, <1>3 DEF Cutting

\* The bytes of a text from a place on.
From(t, c) == SubSeq(t, c + 1, Len(t))

\* The bytes from a place of a text on, and where the delimiter is in them.
LEMMA Onward ==
  ASSUME NEW D \in Texts, NEW t \in Texts, NEW c \in 0..Len(t), NEW e \in Texts
  PROVE  LET a == From(t, c)
         IN /\ a \in Texts /\ Len(a) = Len(t) - c
            /\ t \o e \in Texts /\ Len(t \o e) = Len(t) + Len(e)
            /\ \A i \in 1..Len(a) : a[i] = (t \o e)[c + i]
            /\ \A k \in Nat : k + Len(D) <= Len(a) => (Here(D, a, k) <=> Here(D, t \o e, c + k))
  <1> DEFINE a == SubSeq(t, c + 1, Len(t))
             w == t \o e
             n == Len(t)
             d == Len(D)
  <1>1. n \in Nat /\ d \in Nat /\ Len(e) \in Nat /\ c \in Nat /\ c <= n
    BY LenProperties DEF Texts
  <1>2. /\ a \in Texts /\ Len(a) = n - c
        /\ \A i \in 1..(n - c) : a[i] = t[c + i]
    BY <1>1, PartOf DEF Texts
  <1>3. /\ w \in Texts /\ Len(w) = n + Len(e)
        /\ \A i \in 1..(n + Len(e)) : w[i] = IF i <= n THEN t[i] ELSE e[i - n]
    BY ConcatProperties DEF Texts
  <1> HIDE DEF a, w, n, d
  <1>4. \A i \in 1..(n - c) : a[i] = w[c + i]
    <2>1. \A i \in 1..(n - c) : c + i \in 1..(n + Len(e)) /\ c + i <= n
      BY <1>1
    <2> QED BY <1>2, <1>3, <2>1
  <1>5. ASSUME NEW k \in Nat, k + d <= n - c
        PROVE  Here(D, a, k) <=> Here(D, w, c + k)
    <2>1. k + d <= Len(a) /\ (c + k) + d <= Len(w)
      BY <1>1, <1>2, <1>3, <1>5
    <2>2. \A j \in 1..d : k + j \in 1..(n - c) /\ c + (k + j) = (c + k) + j
      BY <1>1, <1>5
    <2>3. \A j \in 1..d : a[k + j] = w[(c + k) + j]
      BY <1>4, <2>2
    <2> QED BY <2>1, <2>3 DEF Here, d
  <1> QED BY <1>2, <1>3, <1>4, <1>5 DEF a, w, n, d, From

\* Its bytes before a place.
LineTo(a, at) == SubSeq(a, 1, at)

\* Bytes from a place of a text on divide at a place of their own.
Divides(D, t, c, a, at) ==
  Len(LineTo(a, at)) = at /\ From(a, at + Len(D)) = From(t, c + (at + Len(D)))

\* The first delimiter in the bytes of a text from a place on.
NextAt(D, t, c, a, at) ==
  a = From(t, c) /\ MatchesOf(D, a, 0) # {} /\ at = Lines!Least(MatchesOf(D, a, 0))

\* The next line ends at the first delimiter in the bytes not yet cut.
LEMMA CuttingNext ==
  ASSUME NEW D \in Texts, D # <<>>, NEW t \in Texts, NEW ls, NEW c, Cutting(D, t, ls, c),
         NEW a, NEW at, NextAt(D, t, c, a, at)
  PROVE  /\ at \in Nat /\ at + Len(D) <= Len(a)
         /\ LineTo(a, at) \in Texts /\ Divides(D, t, c, a, at)
         /\ Cutting(D, t, ls \o <<LineTo(a, at)>>, c + (at + Len(D)))
  <1> DEFINE n == Len(t)
             d == Len(D)
             line == SubSeq(a, 1, at)
             next == c + (at + d)
  <1>0. a = From(t, c) /\ MatchesOf(D, a, 0) # {} /\ at = Lines!Least(MatchesOf(D, a, 0))
    BY DEF NextAt
  <1> USE <1>0
  <1>1. ls \in Lists /\ c \in 0..n /\ n \in Nat /\ d \in Nat \ {0}
    BY LenProperties, EmptySeq DEF Cutting, Texts
  <1>2. a \in Texts /\ Len(a) = n - c
    <2>1. <<>> \in Texts
      BY EmptySeq DEF Texts
    <2> QED BY <1>1, <2>1, Onward
  <1>3. MatchesOf(D, a, 0) = {k \in Nat : 0 <= k /\ Here(D, a, k)}
    BY <1>2, MatchesAre
  <1>4. at \in Nat /\ Here(D, a, at) /\ \A k \in Nat : Here(D, a, k) => at <= k
    <2>1. at \in MatchesOf(D, a, 0) /\ \A k \in MatchesOf(D, a, 0) : at <= k
      BY <1>3, LeastIs
    <2> QED BY <1>3, <2>1
  <1>5. at + d <= n - c
    BY <1>2, <1>4 DEF Here
  <1>6. next \in 0..n /\ next \in Nat /\ 0 + 1 = 1
    BY <1>1, <1>4, <1>5
  <1>7. /\ line \in Texts /\ Len(line) = at
        /\ \A i \in 1..at : line[i] = a[i]
    <2>1. at <= Len(a) /\ 0 \in Nat /\ 0 <= at /\ at - 0 = at /\ \A i \in 1..at : 0 + i = i
      BY <1>1, <1>2, <1>4, <1>5
    <2> DEFINE z == 0
    <2>2. z \in Nat /\ z <= at
      BY <1>4
    <2> HIDE DEF z
    <2>3. /\ SubSeq(a, z + 1, at) \in Seq(Bytes) /\ Len(SubSeq(a, z + 1, at)) = at - z
          /\ \A i \in 1..(at - z) : SubSeq(a, z + 1, at)[i] = a[z + i]
      BY <1>2, <1>4, <2>1, <2>2, PartOf DEF Texts
    <2>4. z + 1 = 1 /\ at - z = at /\ \A i \in 1..at : z + i = i
      BY <1>4 DEF z
    <2> QED BY <2>3, <2>4 DEF Texts
  <1>8. SubSeq(a, at + d + 1, Len(a)) = SubSeq(t, next + 1, n)
    <2> DEFINE k == at + d
               p == SubSeq(a, k + 1, Len(a))
               q == SubSeq(t, next + 1, n)
    <2>1. k \in Nat /\ k <= Len(a) /\ Len(a) \in Nat /\ next <= n /\ n \in Nat
      BY <1>1, <1>2, <1>4, <1>5, <1>6
    <2>2. p \in Texts /\ Len(p) = Len(a) - k /\ \A i \in 1..(Len(a) - k) : p[i] = a[k + i]
      <3> DEFINE b == Len(a)
      <3>1. b \in Nat /\ k <= b /\ b <= Len(a)
        BY <2>1
      <3> HIDE DEF k, b
      <3>2. /\ SubSeq(a, k + 1, b) \in Seq(Bytes) /\ Len(SubSeq(a, k + 1, b)) = b - k
            /\ \A i \in 1..(b - k) : SubSeq(a, k + 1, b)[i] = a[k + i]
        BY <1>2, <2>1, <3>1, PartOf DEF Texts
      <3> QED BY <3>2 DEF b, Texts
    <2>3. q \in Texts /\ Len(q) = n - next /\ \A i \in 1..(n - next) : q[i] = t[next + i]
      <3> HIDE DEF next
      <3> QED BY <1>6, <2>1, PartOf DEF Texts
    <2>4. /\ a \in Texts /\ Len(a) = n - c /\ \A i \in 1..(n - c) : a[i] = t[c + i]
      BY <1>1, PartOf DEF Texts, From
    <2>5. n - next = Len(a) - k /\ \A i \in 1..(n - next) : k + i \in 1..(n - c) /\ c + (k + i) = next + i
      BY <1>1, <1>4, <1>5, <2>4
    <2> HIDE DEF p, q, k, next
    <2>6. \A i \in 1..(n - next) : p[i] = q[i]
      BY <2>2, <2>3, <2>4, <2>5
    <2>7. p = q
      BY <2>2, <2>3, <2>5, <2>6, SeqEqual DEF Texts
    <2> QED BY <2>7 DEF p, q, k
  <1>9. ASSUME NEW e \in Texts
        PROVE  CutOf(D, t \o e)[0] = After(ls \o <<line>>, CutOf(D, t \o e)[next])
    <2> DEFINE w == t \o e
               found == MatchesOf(D, w, c)
    <2>1. /\ w \in Texts /\ Len(w) = n + Len(e) /\ Len(e) \in Nat
          /\ \A i \in 1..Len(a) : a[i] = w[c + i]
          /\ \A k \in Nat : k + d <= Len(a) => (Here(D, a, k) <=> Here(D, w, c + k))
      BY <1>1, Onward, LenProperties DEF Texts
    <2> HIDE DEF w
    <2>2. c \in 0..Len(w) /\ next \in 0..Len(w) /\ c \in Nat
      BY <1>1, <1>6, <2>1
    <2>3. found = {k \in Nat : c <= k /\ Here(D, w, k)}
      BY <2>1, <2>2, MatchesAre
    <2>4. c + at \in found
      <3>1. Here(D, w, c + at)
        BY <1>2, <1>4, <1>5, <2>1
      <3>2. c + at \in Nat /\ c <= c + at
        BY <1>1, <1>4
      <3> QED BY <2>3, <3>1, <3>2
    <2> HIDE DEF found
    <2>5. Lines!Least(found) \in found /\ \A k \in found : Lines!Least(found) <= k
      BY <2>3, <2>4, LeastIs
    <2>6. Lines!Least(found) = c + at
      <3> DEFINE x == Lines!Least(found)
      <3>1. x \in Nat /\ c <= x /\ Here(D, w, x) /\ x <= c + at
        BY <2>3, <2>4, <2>5
      <3> HIDE DEF x
      <3> DEFINE k == x - c
      <3>2. k \in Nat /\ c + k = x /\ k <= at /\ k + d <= Len(a)
        BY <1>1, <1>2, <1>4, <1>5, <3>1
      <3> HIDE DEF k
      <3>3. Here(D, a, k)
        BY <2>1, <3>1, <3>2
      <3>4. at <= k
        BY <1>4, <3>2, <3>3
      <3>5. x = c + at
        BY <1>1, <1>4, <3>2, <3>4
      <3> QED BY <3>5 DEF x
    <2>7. SubSeq(w, c + 1, c + at) = line
      <3> DEFINE p == SubSeq(w, c + 1, c + at)
      <3>1. c + at \in Nat /\ c <= c + at /\ c + at <= Len(w) /\ c + at - c = at /\ at <= Len(a)
        BY <1>1, <1>2, <1>4, <1>5, <2>1
      <3>2. p \in Texts /\ Len(p) = at /\ \A i \in 1..at : p[i] = w[c + i]
        <4> DEFINE b == c + at
        <4> HIDE DEF b
        <4>1. b \in Nat /\ c <= b /\ b <= Len(w)
          BY <3>1 DEF b
        <4>2. /\ SubSeq(w, c + 1, b) \in Seq(Bytes) /\ Len(SubSeq(w, c + 1, b)) = b - c
              /\ \A i \in 1..(b - c) : SubSeq(w, c + 1, b)[i] = w[c + i]
          BY <2>1, <2>2, <4>1, PartOf DEF Texts
        <4>3. b - c = at
          BY <1>1, <1>4, <2>2 DEF b
        <4>4. p = SubSeq(w, c + 1, b)
          BY DEF b
        <4> HIDE DEF p
        <4> QED BY <4>2, <4>3, <4>4 DEF Texts
      <3>3. \A i \in 1..at : i \in 1..Len(a)
        <4> DEFINE b == Len(a)
        <4>1. b \in Int /\ at <= b
          BY <1>1, <1>2, <3>1
        <4> HIDE DEF b
        <4>2. \A i \in 1..at : i \in 1..b
          BY <1>4, <4>1
        <4> QED BY <4>2 DEF b
      <3> HIDE DEF p, line
      <3>4. \A i \in 1..at : p[i] = line[i]
        BY <1>7, <2>1, <3>1, <3>2, <3>3
      <3>5. p = line
        BY <1>7, <3>1, <3>2, <3>4, SeqEqual DEF Texts
      <3> QED BY <3>5 DEF p
    <2>8. CutOf(D, w)[c] = After(<<line>>, CutOf(D, w)[next])
      <3> HIDE DEF line, next
      <3>1. (c + at) + d = next
        BY <1>1, <1>4 DEF next
      <3>2. MatchesOf(D, w, c) # {} /\ Lines!Least(MatchesOf(D, w, c)) = c + at
        BY <2>4, <2>6 DEF found
      <3>3. CutOf(D, w)[c] = [lines |-> <<SubSeq(w, c + 1, c + at)>> \o CutOf(D, w)[(c + at) + d].lines,
                              rest |-> CutOf(D, w)[(c + at) + d].rest]
        <4>1. CutOf(D, w)[c] = CutOn(D, w, c, Lines!Least(MatchesOf(D, w, c)))
          BY <2>1, <2>2, <3>2, CutGoesOn
        <4> QED BY <3>2, <4>1 DEF CutOn
      <3> QED BY <2>7, <3>1, <3>3 DEF After
    <2>9. CutOf(D, w)[0] = After(ls, CutOf(D, w)[c])
      BY DEF Cutting, w
    <2>10. CutOf(D, w)[next] \in Cuts
      BY <2>1, <2>2, CutIs
    <2>11. <<line>> \in Lists
      BY <1>7 DEF Lists
    <2> HIDE DEF line, next
    <2>12. CutOf(D, w)[0] = After(ls \o <<line>>, CutOf(D, w)[next])
      BY <1>1, <2>8, <2>9, <2>10, <2>11, AfterIs
    <2> QED BY <2>12 DEF w
  <1>10. ls \o <<line>> \in Lists
    <2>1. <<line>> \in Seq(Texts) /\ ls \in Seq(Texts)
      BY <1>1, <1>7 DEF Lists
    <2> HIDE DEF line
    <2> QED BY <2>1, ConcatProperties DEF Lists
  <1>11. Cutting(D, t, ls \o <<line>>, next)
    BY <1>6, <1>9, <1>10 DEF Cutting
  <1>12. LineTo(a, at) = line /\ From(a, at + d) = From(t, next)
    BY <1>8 DEF From, LineTo
  <1> HIDE DEF line
  <1>13. Divides(D, t, c, a, at)
    BY <1>7, <1>12 DEF Divides
  <1> HIDE DEF next
  <1> QED BY <1>2, <1>4, <1>5, <1>7, <1>11, <1>12, <1>13 DEF next

\* Without a delimiter in the bytes not yet cut, they are the rest.
LEMMA CuttingEnds ==
  ASSUME NEW D \in Texts, D # <<>>, NEW t \in Texts, NEW ls, NEW c, Cutting(D, t, ls, c),
         MatchesOf(D, From(t, c), 0) = {}
  PROVE  CutOf(D, t)[0] = [lines |-> ls, rest |-> From(t, c)]
  <1> DEFINE a == From(t, c)
  <1>1. ls \in Lists /\ c \in 0..Len(t) /\ Len(t) \in Nat /\ c \in Nat /\ Len(D) \in Nat
    BY LenProperties DEF Cutting, Texts
  <1>2. <<>> \in Texts /\ t \o <<>> = t
    BY EmptySeq, ConcatEmptySeq DEF Texts
  <1>3. /\ a \in Texts /\ Len(a) = Len(t) - c
        /\ \A k \in Nat : k + Len(D) <= Len(a) => (Here(D, a, k) <=> Here(D, t, c + k))
    <2> DEFINE x == <<>>
    <2>1. x \in Texts /\ t \o x = t
      BY <1>2
    <2> HIDE DEF x
    <2>2. /\ a \in Texts /\ Len(a) = Len(t) - c
          /\ \A k \in Nat : k + Len(D) <= Len(a) => (Here(D, a, k) <=> Here(D, t \o x, c + k))
      BY <1>1, <2>1, Onward
    <2> QED BY <2>1, <2>2
  <1> HIDE DEF a
  <1>4. MatchesOf(D, a, 0) = {k \in Nat : 0 <= k /\ Here(D, a, k)}
    BY <1>3, MatchesAre
  <1>5. MatchesOf(D, t, c) = {k \in Nat : c <= k /\ Here(D, t, k)}
    BY <1>1, MatchesAre
  <1>6. MatchesOf(D, t, c) = {}
    <2> SUFFICES ASSUME NEW j \in Nat, c <= j, Here(D, t, j) PROVE FALSE
      BY <1>5
    <2> DEFINE k == j - c
    <2>1. k \in Nat /\ c + k = j /\ k + Len(D) <= Len(a)
      BY <1>1, <1>3 DEF Here
    <2> HIDE DEF k
    <2>2. Here(D, a, k)
      BY <1>3, <2>1
    <2>3. k \in MatchesOf(D, a, 0)
      BY <1>4, <2>1, <2>2
    <2> QED BY <2>3 DEF a
  <1>7. CutOf(D, t)[c] = [lines |-> <<>>, rest |-> a]
    BY <1>1, <1>6, CutIs DEF a, From
  <1>8. CutOf(D, t)[0] = After(ls, CutOf(D, t)[c])
    <2> DEFINE x == <<>>
    <2>1. x \in Texts /\ t \o x = t
      BY <1>2
    <2> HIDE DEF x
    <2>2. CutOf(D, t \o x)[0] = After(ls, CutOf(D, t \o x)[c])
      BY <2>1 DEF Cutting
    <2> QED BY <2>1, <2>2
  <1>9. ls \o <<>> = ls
    BY <1>1, ConcatEmptySeq DEF Lists
  <1> QED BY <1>7, <1>8, <1>9 DEF After, a

\* What the reference cuts begins with the lines that have been cut.
LEMMA CuttingReads ==
  ASSUME NEW D \in Texts, D # <<>>, NEW t \in Texts, NEW ls, NEW c, Cutting(D, t, ls, c)
  PROVE  \E x \in Cuts : CutOf(D, t)[0] = After(ls, x)
  <1> DEFINE x == <<>>
  <1>1. x \in Texts /\ t \o x = t
    BY EmptySeq, ConcatEmptySeq DEF Texts
  <1> HIDE DEF x
  <1>2. CutOf(D, t \o x)[0] = After(ls, CutOf(D, t \o x)[c]) /\ c \in 0..Len(t)
    BY <1>1 DEF Cutting
  <1>3. CutOf(D, t)[c] \in Cuts
    BY <1>2, CutIs
  <1> QED BY <1>1, <1>2, <1>3

\* What the module's library operators are.
LEMMA LineLibrary ==
  /\ \A s : Lines!FlattenSeq(s) = FlattenSeq(s)
  /\ \A s, t : Lines!IsPrefix(s, t) <=> Len(s) <= Len(t) /\ SubSeq(s, 1, Len(s)) = SubSeq(t, 1, Len(s))
  /\ \A S, n : \A s \in Lines!BoundedSeq(S, n) : s \in Seq(S)
  <1>1. ASSUME NEW S, NEW n, NEW s \in Lines!BoundedSeq(S, n) PROVE s \in Seq(S)
    <2>1. PICK m \in 0..n : s \in [1..m -> S]
      BY DEF Lines!BoundedSeq, Lines!SeqOf
    <2>2. m \in Nat
      OBVIOUS
    <2> QED BY <2>1, <2>2, SeqDef
  <1>2. \A s : Lines!FlattenSeq(s) = FlattenSeq(s)
    BY DEF Lines!FlattenSeq, FlattenSeq
  <1>3. \A s, t : Lines!IsPrefix(s, t) <=> Len(s) <= Len(t) /\ SubSeq(s, 1, Len(s)) = SubSeq(t, 1, Len(s))
    BY DEF Lines!IsPrefix
  <1> QED BY <1>1, <1>2, <1>3

\* A sequence is a prefix of what it begins.
LEMMA PrefixOf ==
  ASSUME NEW S, NEW s \in Seq(S), NEW t \in Seq(S)
  PROVE  Lines!IsPrefix(s, s \o t)
  <1> DEFINE u == s \o t
             n == Len(s)
             p == SubSeq(s, 1, n)
             q == SubSeq(u, 1, n)
  <1>1. /\ u \in Seq(S) /\ Len(u) = n + Len(t) /\ n \in Nat /\ Len(t) \in Nat
        /\ \A i \in 1..(n + Len(t)) : u[i] = IF i <= n THEN s[i] ELSE t[i - n]
    BY ConcatProperties, LenProperties
  <1> HIDE DEF u
  <1>2. n <= Len(u)
    BY <1>1
  <1>3. p = s
    BY SubSeqFull
  <1>4. q \in Seq(S) /\ Len(q) = n /\ \A i \in 1..n : q[i] = u[i]
    <2> DEFINE z == 0
    <2>1. z \in Nat /\ z <= n
      BY <1>1
    <2> HIDE DEF z, n
    <2>2. /\ SubSeq(u, z + 1, n) \in Seq(S) /\ Len(SubSeq(u, z + 1, n)) = n - z
          /\ \A i \in 1..(n - z) : SubSeq(u, z + 1, n)[i] = u[z + i]
      BY <1>1, <1>2, <2>1, PartOf
    <2>3. z + 1 = 1 /\ n - z = n /\ \A i \in 1..n : z + i = i
      BY <1>1 DEF z
    <2> QED BY <2>2, <2>3
  <1> HIDE DEF q, n, p
  <1>5. \A i \in 1..n : q[i] = s[i]
    <2>1. \A i \in 1..n : i \in 1..(n + Len(t)) /\ i <= n
      BY <1>1
    <2> QED BY <1>1, <1>4, <2>1
  <1>6. q = s
    BY <1>4, <1>5, SeqEqual DEF n
  <1> QED BY <1>2, <1>3, <1>6, LineLibrary DEF p, q, n, u

\* The records that the lines give: all, or all but the empty ones.
Given(omit, x) == IF omit /\ x = <<>> THEN <<>> ELSE <<x>>
GivenOf(omit, ls) == [i \in DOMAIN ls |-> Given(omit, ls[i])]
KeptOf(omit, ls) == FlattenSeq(GivenOf(omit, ls))

\* The specification keeps these records, for the omission that is set.
LEMMA KeptIs ==
  \A ls : Lines!Kept(ls) = KeptOf(framing.omitEmpty, ls)
  BY LineLibrary DEF Lines!Kept, KeptOf, GivenOf, Given

\* Each line gives records or none.
LEMMA GivenIs ==
  ASSUME NEW omit, NEW ls \in Seq(Texts)
  PROVE  /\ GivenOf(omit, ls) \in Seq(Seq(Texts)) /\ Len(GivenOf(omit, ls)) = Len(ls)
         /\ \A i \in 1..Len(ls) : GivenOf(omit, ls)[i] = Given(omit, ls[i])
  <1> DEFINE T == Seq(Texts)
             n == Len(ls)
  <1>1. DOMAIN ls = 1..n /\ n \in Nat /\ \A i \in 1..n : ls[i] \in Texts
    BY LenProperties, ElementOfSeq
  <1>2. \A x \in Texts : Given(omit, x) \in T
    BY EmptySeq DEF Given
  <1> HIDE DEF n, T
  <1>3. GivenOf(omit, ls) \in [1..n -> T] /\ \A i \in 1..n : GivenOf(omit, ls)[i] = Given(omit, ls[i])
    BY <1>1, <1>2 DEF GivenOf
  <1>4. GivenOf(omit, ls) \in Seq(T)
    BY <1>1, <1>3, SeqDef
  <1>5. Len(GivenOf(omit, ls)) = n
    BY <1>1, <1>3, <1>4, LenProperties
  <1> QED BY <1>3, <1>4, <1>5 DEF T, n

\* The records of lines after each other, of none and of one.
LEMMA KeptConcat ==
  ASSUME NEW omit, NEW ls \in Lists, NEW ms \in Lists
  PROVE  KeptOf(omit, ls) \in Lists /\ KeptOf(omit, ls \o ms) = KeptOf(omit, ls) \o KeptOf(omit, ms)
  <1> DEFINE g(x) == GivenOf(omit, x)
             T == Seq(Texts)
             p == g(ls \o ms)
             q == g(ls) \o g(ms)
  <1>1. ls \in Seq(Texts) /\ ms \in Seq(Texts) /\ Len(ls) \in Nat /\ Len(ms) \in Nat
    BY LenProperties DEF Lists
  <1>2. /\ ls \o ms \in Seq(Texts) /\ Len(ls \o ms) = Len(ls) + Len(ms)
        /\ \A i \in 1..(Len(ls) + Len(ms)) : (ls \o ms)[i] = IF i <= Len(ls) THEN ls[i] ELSE ms[i - Len(ls)]
    BY <1>1, ConcatProperties
  <1>3. /\ p \in Seq(T) /\ Len(p) = Len(ls) + Len(ms)
        /\ \A i \in 1..(Len(ls) + Len(ms)) : p[i] = Given(omit, (ls \o ms)[i])
    BY <1>2, GivenIs
  <1>4. /\ g(ls) \in Seq(T) /\ Len(g(ls)) = Len(ls)
        /\ \A i \in 1..Len(ls) : g(ls)[i] = Given(omit, ls[i])
    BY <1>1, GivenIs
  <1>5. /\ g(ms) \in Seq(T) /\ Len(g(ms)) = Len(ms)
        /\ \A i \in 1..Len(ms) : g(ms)[i] = Given(omit, ms[i])
    BY <1>1, GivenIs
  <1> HIDE DEF g, T
  <1>6. /\ q \in Seq(T) /\ Len(q) = Len(ls) + Len(ms)
        /\ \A i \in 1..(Len(ls) + Len(ms)) : q[i] = IF i <= Len(ls) THEN g(ls)[i] ELSE g(ms)[i - Len(ls)]
    <2> DEFINE x == g(ls)
               y == g(ms)
    <2>1. x \in Seq(T) /\ Len(x) = Len(ls) /\ y \in Seq(T) /\ Len(y) = Len(ms)
      BY <1>4, <1>5
    <2> HIDE DEF x, y
    <2>2. x \o y \in Seq(T) /\ Len(x \o y) = Len(x) + Len(y)
      BY <2>1, ConcatProperties
    <2>3. \A i \in 1..(Len(x) + Len(y)) : (x \o y)[i] = IF i <= Len(x) THEN x[i] ELSE y[i - Len(x)]
      BY <2>1, ConcatProperties
    <2> QED BY <2>1, <2>2, <2>3 DEF x, y
  <1>7. \A i \in 1..(Len(ls) + Len(ms)) : p[i] = q[i]
    <2> SUFFICES ASSUME NEW i \in 1..(Len(ls) + Len(ms)) PROVE p[i] = q[i]
      OBVIOUS
    <2>1. i <= Len(ls) => i \in 1..Len(ls)
      BY <1>1
    <2>2. ~(i <= Len(ls)) => i - Len(ls) \in 1..Len(ms)
      BY <1>1
    <2> HIDE DEF p, q
    <2> QED BY <1>2, <1>3, <1>4, <1>5, <1>6, <2>1, <2>2
  <1> HIDE DEF p, q
  <1>8. p = q
    BY <1>3, <1>6, <1>7, SeqEqual
  <1>9. g(ls) \in Seq(Seq(Texts)) /\ g(ms) \in Seq(Seq(Texts))
    BY <1>4, <1>5 DEF T
  <1>10. FlattenSeq(g(ls)) \in Seq(Texts)
    BY <1>9, FlattenType
  <1>11. FlattenSeq(g(ls) \o g(ms)) = FlattenSeq(g(ls)) \o FlattenSeq(g(ms))
    BY <1>9, FlattenConcat
  <1> QED BY <1>8, <1>10, <1>11 DEF p, q, g, KeptOf, Lists

\* The records of no line, and of one.
LEMMA KeptOfOne ==
  ASSUME NEW omit, NEW x \in Texts
  PROVE  KeptOf(omit, <<>>) = <<>> /\ KeptOf(omit, <<x>>) = Given(omit, x) /\ Given(omit, x) \in Lists
  <1>1. KeptOf(omit, <<>>) = <<>>
    <2>1. GivenOf(omit, <<>>) = <<>>
      BY DEF GivenOf
    <2> QED BY <2>1, FlattenEmpty DEF KeptOf
  <1>2. Given(omit, x) \in Seq(Texts)
    BY EmptySeq DEF Given
  <1>3. KeptOf(omit, <<x>>) = Given(omit, x)
    <2> DEFINE y == Given(omit, x)
               e == <<>>
    <2>1. e \in Seq(Seq(Texts)) /\ y \in Seq(Texts) /\ FlattenSeq(e) = <<>>
      BY <1>2, EmptySeq, FlattenEmpty
    <2> HIDE DEF y
    <2>2. GivenOf(omit, <<x>>) = Append(e, y)
      <3>1. <<x>> \in Seq(Texts) /\ Len(<<x>>) = 1 /\ <<x>>[1] = x
        OBVIOUS
      <3>2. /\ GivenOf(omit, <<x>>) \in Seq(Seq(Texts)) /\ Len(GivenOf(omit, <<x>>)) = 1
            /\ GivenOf(omit, <<x>>)[1] = y
        <4> DEFINE l == <<x>>
        <4> HIDE DEF l
        <4>1. l \in Seq(Texts) /\ Len(l) = 1 /\ l[1] = x
          BY <3>1 DEF l
        <4>2. /\ GivenOf(omit, l) \in Seq(Seq(Texts)) /\ Len(GivenOf(omit, l)) = Len(l)
              /\ \A i \in 1..Len(l) : GivenOf(omit, l)[i] = Given(omit, l[i])
          BY <4>1, GivenIs
        <4>3. 1 \in 1..1
          OBVIOUS
        <4> QED BY <4>1, <4>2, <4>3 DEF l, y
      <3>3. Append(e, y) \in Seq(Seq(Texts)) /\ Len(Append(e, y)) = 1 /\ Append(e, y)[1] = y
        BY <2>1
      <3> DEFINE p == GivenOf(omit, <<x>>)
                 q == Append(e, y)
      <3>4. /\ p \in Seq(Seq(Texts)) /\ q \in Seq(Seq(Texts)) /\ Len(p) = Len(q)
            /\ \A i \in 1..Len(p) : p[i] = q[i]
        <4> HIDE DEF p, q
        <4>1. \A i \in 1..1 : i = 1
          OBVIOUS
        <4> QED BY <3>2, <3>3, <4>1 DEF p, q
      <3> HIDE DEF p, q
      <3>5. p = q
        BY <3>4, SeqEqual
      <3> QED BY <3>5 DEF p, q
    <2> HIDE DEF e
    <2>3. FlattenSeq(Append(e, y)) = FlattenSeq(e) \o y
      BY <2>1, FlattenAppend
    <2>4. <<>> \o y = y
      BY <2>1, ConcatEmptySeq
    <2> QED BY <2>1, <2>2, <2>3, <2>4 DEF KeptOf, y
  <1> QED BY <1>1, <1>2, <1>3 DEF Lists

\* No place before the offset holds the delimiter, nor can it once more follows.
Scanned(D, a, offset) ==
  /\ offset \in Nat /\ offset <= Len(a)
  /\ \A k \in Nat : k < offset => k + Len(D) <= Len(a) /\ ~Here(D, a, k)

\* No record can be cut from the adapter, and it is not yet too long.
Waits(f, a) == MatchesOf(f.delimiter, a, 0) = {} /\ Len(a) < f.max + Len(f.delimiter)

\* The records are those of the lines cut from the text; the adapter is the rest.
Pushed(f, t, a, rs) ==
  \E ls, c : Cutting(f.delimiter, t, ls, c) /\ a = From(t, c) /\ rs = KeptOf(f.omitEmpty, ls)

\* They are those of the whole text, and the rest of it is one of them.
Tailed(f, t, a, rs) ==
  a = <<>> /\ \E ls \in Lists, x \in Texts :
    /\ x # <<>> /\ CutOf(f.delimiter, t)[0] = [lines |-> ls, rest |-> x]
    /\ rs = Append(KeptOf(f.omitEmpty, ls), x)

Ended(f, t, rs) ==
  LET x == CutOf(f.delimiter, t)[0]
  IN rs = KeptOf(f.omitEmpty, x.lines) \o (IF x.rest = <<>> THEN <<>> ELSE <<x.rest>>)

AllRecords(f, t) ==
  Append(KeptOf(f.omitEmpty, CutOf(f.delimiter, t)[0].lines), CutOf(f.delimiter, t)[0].rest)
FailedAt(f, t, rs) ==
  Lines!IsPrefix(rs, AllRecords(f, t)) /\ Len(AllRecords(f, t)[Len(rs) + 1]) > f.max

Short(f, rs) == \A i \in DOMAIN rs : Len(rs[i]) <= f.max

\* What the encoder sent is a cutting of the whole text.
PlainBy(D, record) == MatchesOf(D, record \o D, 0) = {Len(record)}
RoundInv(f, t, s, en) ==
  en /\ (\A i \in DOMAIN s : PlainBy(f.delimiter, s[i])) => Cutting(f.delimiter, t, s, Len(t))

StreamInv ==
  /\ framing.delimiter # <<>>
  /\ text \in Texts /\ adapter \in Texts /\ records \in Lists /\ sent \in Lists
  /\ Short(framing, records)
  /\ RoundInv(framing, text, sent, encoded)
  /\ stage \in {"idle", "chaining"} => Pushed(framing, text, adapter, records)
  /\ stage = "draining" => Pushed(framing, text, adapter, records) \/ Tailed(framing, text, adapter, records)
  /\ stage \in {"idle", "chaining", "draining"} =>
       /\ Scanned(framing.delimiter, adapter, scanOffset)
       /\ minFrameSize \in Nat /\ minFrameSize <= Len(adapter) + 1
  /\ stage = "idle" \/ (stage = "chaining" /\ minFrameSize = Len(adapter) + 1) => Waits(framing, adapter)
  /\ stage = "eos" => Ended(framing, text, records)
  /\ stage = "failed" => FailedAt(framing, text, records)

FramingInv ==
  /\ framing \in [delimiter : Delimiters, max : RecordSizes, omitEmpty : BOOLEAN]
  /\ stage \in {"ready", "idle", "chaining", "draining", "eos", "failed", "refused"}
  /\ stage # "ready" => StreamInv

\* The settings are a delimiter of bytes and a bound.
LEMMA FramingTypes ==
  ASSUME FramingInv
  PROVE  framing.delimiter \in Texts /\ framing.max \in Nat
  BY DataPathsAssumption DEF DataPathsAssumption, Lines!FramingAssumption, FramingInv, Texts

\* In nothing there is no delimiter.
LEMMA NoneInNothing ==
  ASSUME NEW D \in Texts, D # <<>>
  PROVE  <<>> \in Texts /\ Len(<<>>) = 0 /\ MatchesOf(D, <<>>, 0) = {}
  <1>1. <<>> \in Texts /\ Len(<<>>) = 0 /\ Len(D) \in Nat \ {0}
    BY EmptySeq, LenProperties DEF Texts
  <1>2. MatchesOf(D, <<>>, 0) = {k \in Nat : 0 <= k /\ Here(D, <<>>, k)}
    BY <1>1, MatchesAre
  <1> QED BY <1>1, <1>2 DEF Here

\* Nothing is left from the end of a text on.
LEMMA FromEnd ==
  ASSUME NEW t \in Texts
  PROVE  From(t, Len(t)) = <<>>
  <1>1. Len(t) \in Nat
    BY LenProperties DEF Texts
  <1> QED BY <1>1, SubSeqEmpty DEF From

\* A sequence with one record more, and what may follow.
LEMMA OneRecord ==
  ASSUME NEW s \in Lists, NEW r \in Texts, NEW z \in Lists
  PROVE  /\ Append(s, r) = s \o <<r>> /\ Append(s, r) \in Lists /\ <<r>> \in Lists
         /\ s \o (<<r>> \o z) \in Lists
         /\ (s \o <<r>>) \o z = s \o (<<r>> \o z)
         /\ (s \o (<<r>> \o z))[Len(s) + 1] = r
         /\ Lines!IsPrefix(s, s \o (<<r>> \o z))
  <1> DEFINE y == <<r>>
  <1>1. s \in Seq(Texts) /\ z \in Seq(Texts) /\ y \in Seq(Texts) /\ Len(y) = 1 /\ y[1] = r
    BY DEF Lists
  <1>2. Append(s, r) = s \o y
    BY <1>1, AppendIsConcat
  <1>3. Append(s, r) \in Seq(Texts)
    BY <1>1, AppendProperties
  <1> HIDE DEF y
  <1>4. /\ y \o z \in Seq(Texts) /\ Len(y \o z) = 1 + Len(z) /\ (y \o z)[1] = r /\ Len(z) \in Nat
        /\ Len(s) \in Nat
    <2>1. /\ y \o z \in Seq(Texts) /\ Len(y \o z) = Len(y) + Len(z)
          /\ \A i \in 1..(Len(y) + Len(z)) : (y \o z)[i] = IF i <= Len(y) THEN y[i] ELSE z[i - Len(y)]
      BY <1>1, ConcatProperties
    <2>2. Len(z) \in Nat /\ Len(s) \in Nat
      BY <1>1, LenProperties
    <2>3. 1 \in 1..(Len(y) + Len(z)) /\ 1 <= Len(y)
      BY <1>1, <2>2
    <2> QED BY <1>1, <2>1, <2>2, <2>3
  <1> DEFINE u == y \o z
  <1>5. u \in Seq(Texts) /\ Len(u) = 1 + Len(z) /\ u[1] = r
    BY <1>4
  <1>6. (s \o y) \o z = s \o u
    <2>1. s \in Seq(Texts) /\ z \in Seq(Texts) /\ y \in Seq(Texts)
      BY <1>1
    <2>2. (s \o y) \o z = s \o (y \o z)
      BY <2>1, ConcatAssociative
    <2> QED BY <2>2
  <1> HIDE DEF u
  <1>7. s \o u \in Seq(Texts) /\ (s \o u)[Len(s) + 1] = r
    <2>1. /\ s \o u \in Seq(Texts)
          /\ \A i \in 1..(Len(s) + Len(u)) : (s \o u)[i] = IF i <= Len(s) THEN s[i] ELSE u[i - Len(s)]
      BY <1>1, <1>5, ConcatProperties
    <2>2. Len(s) + 1 \in 1..(Len(s) + Len(u)) /\ ~(Len(s) + 1 <= Len(s)) /\ (Len(s) + 1) - Len(s) = 1
      BY <1>4, <1>5
    <2> QED BY <1>5, <2>1, <2>2
  <1>8. Lines!IsPrefix(s, s \o u)
    BY <1>1, <1>5, PrefixOf
  <1> QED BY <1>1, <1>2, <1>3, <1>6, <1>7, <1>8 DEF u, y, Lists

\* The records of a text whose cutting begins with some lines.
LEMMA RecordsBegin ==
  ASSUME NEW omit, NEW ls \in Lists, NEW x \in Cuts
  PROVE  \E z \in Lists :
           Append(KeptOf(omit, After(ls, x).lines), After(ls, x).rest) = KeptOf(omit, ls) \o z
  <1>1. x.lines \in Lists /\ x.rest \in Texts /\ <<>> \in Lists
    BY EmptySeq DEF Cuts, Lists
  <1> DEFINE p == KeptOf(omit, ls)
             q == KeptOf(omit, x.lines)
             r == x.rest
             z == q \o <<r>>
  <1>2. p \in Lists /\ q \in Lists /\ KeptOf(omit, ls \o x.lines) = p \o q
    BY <1>1, KeptConcat
  <1>3. After(ls, x).lines = ls \o x.lines /\ After(ls, x).rest = r
    BY DEF After
  <1> HIDE DEF p, q, r
  <1>4. p \in Seq(Texts) /\ q \in Seq(Texts) /\ r \in Texts /\ <<r>> \in Seq(Texts)
    BY <1>1, <1>2 DEF Lists, r
  <1>5. p \o q \in Seq(Texts) /\ z \in Seq(Texts) /\ (p \o q) \o <<r>> = p \o z
    <2> DEFINE y == <<r>>
    <2>1. y \in Seq(Texts)
      BY <1>4
    <2> HIDE DEF y
    <2>2. p \o q \in Seq(Texts) /\ q \o y \in Seq(Texts) /\ (p \o q) \o y = p \o (q \o y)
      BY <1>4, <2>1, ConcatProperties, ConcatAssociative
    <2> QED BY <2>2 DEF y
  <1>6. Append(p \o q, r) = (p \o q) \o <<r>>
    BY <1>4, <1>5, AppendIsConcat
  <1> HIDE DEF z
  <1> QED BY <1>2, <1>3, <1>5, <1>6 DEF Lists, p

\* The invariant says what is to be shown of the records.
LEMMA FramingFollows ==
  ASSUME FramingInv
  PROVE  Lines!FramingConsistent
  <1> DEFINE D == framing.delimiter
             omit == framing.omitEmpty
             x == CutOf(D, text)[0]
             kept == KeptOf(omit, x.lines)
  <1>1. D \in Texts /\ framing.max \in Nat /\ Lines!Delimiter = D
    BY FramingTypes DEF Lines!Delimiter
  <1>2. /\ Lines!Split(text) = x /\ \A ls : Lines!Kept(ls) = KeptOf(omit, ls)
        /\ \A w : Lines!Matches(w, 0) = MatchesOf(D, w, 0)
    BY <1>1, OfDelimiter, KeptIs DEF Lines!Split
  <1>3. CASE stage = "ready"
    BY <1>3 DEF Lines!FramingConsistent, Lines!FramesExactly, Lines!RoundTrip
  <1>4. CASE stage # "ready"
    <2>1. StreamInv
      BY <1>4 DEF FramingInv
    <2>2. D # <<>> /\ text \in Texts /\ records \in Lists
      BY <2>1 DEF StreamInv
    <2>3. \A i \in DOMAIN records : ~Lines!TooLong(records[i])
      <3>1. \A i \in DOMAIN records : records[i] \in Texts
        BY <2>2, LenProperties, ElementOfSeq DEF Lists
      <3>2. \A i \in DOMAIN records : Len(records[i]) \in Nat /\ Len(records[i]) <= framing.max
        BY <2>1, <3>1, LenProperties DEF StreamInv, Short, Texts
      <3> QED BY <1>1, <3>2 DEF Lines!TooLong
    <2>4. ASSUME Pushed(framing, text, adapter, records), MatchesOf(D, adapter, 0) = {}
          PROVE  x.rest = adapter /\ x.lines \in Lists /\ records = kept
      <3>1. PICK ls, c : Cutting(D, text, ls, c) /\ adapter = From(text, c) /\ records = KeptOf(omit, ls)
        BY <2>4 DEF Pushed
      <3>2. x = [lines |-> ls, rest |-> adapter]
        BY <1>1, <2>2, <2>4, <3>1, CuttingEnds
      <3>3. ls \in Lists
        BY <3>1 DEF Cutting
      <3> HIDE DEF x
      <3> QED BY <3>1, <3>2, <3>3
    <2>5. stage \in {"chaining", "draining"} => Lines!IsPrefix(records, Append(kept, x.rest))
      <3>1. ASSUME Pushed(framing, text, adapter, records)
            PROVE Lines!IsPrefix(records, Append(kept, x.rest))
        <4>1. PICK ls, c : Cutting(D, text, ls, c) /\ records = KeptOf(omit, ls)
          BY <3>1 DEF Pushed
        <4>2. PICK y \in Cuts : x = After(ls, y)
          BY <1>1, <2>2, <4>1, CuttingReads
        <4>3. ls \in Lists
          BY <4>1 DEF Cutting
        <4>4. PICK z \in Lists : Append(kept, x.rest) = records \o z
          BY <4>1, <4>2, <4>3, RecordsBegin
        <4> HIDE DEF x, kept
        <4> QED BY <2>2, <4>4, PrefixOf DEF Lists
      <3>2. ASSUME Tailed(framing, text, adapter, records)
            PROVE Lines!IsPrefix(records, Append(kept, x.rest))
        <4>1. PICK ls \in Lists, y \in Texts :
                x = [lines |-> ls, rest |-> y] /\ records = Append(KeptOf(omit, ls), y)
          BY <3>2 DEF Tailed
        <4>2. records = Append(kept, x.rest)
          BY <4>1
        <4> DEFINE e == <<>>
        <4>3. records \o e = records /\ e \in Seq(Texts) /\ records \in Seq(Texts)
          BY <2>2, EmptySeq, ConcatEmptySeq DEF Lists
        <4> HIDE DEF x, kept, e
        <4>4. Lines!IsPrefix(records, records \o e)
          BY <4>3, PrefixOf
        <4> QED BY <4>2, <4>3, <4>4
      <3> QED BY <2>1, <3>1, <3>2 DEF StreamInv
    <2>6. stage = "idle" => records = kept /\ adapter = x.rest /\ Len(adapter) < Lines!Lookahead
      BY <1>1, <2>1, <2>4 DEF StreamInv, Waits, Lines!Lookahead
    <2>7. stage = "eos" => records = kept \o (IF x.rest = <<>> THEN <<>> ELSE <<x.rest>>)
      BY <2>1 DEF StreamInv, Ended
    <2>8. stage = "failed" =>
            /\ Lines!IsPrefix(records, Append(kept, x.rest))
            /\ Lines!TooLong(Append(kept, x.rest)[Len(records) + 1])
      BY <2>1 DEF StreamInv, FailedAt, AllRecords, Lines!TooLong
    <2>9. ASSUME stage = "idle", encoded, \A i \in DOMAIN sent : Lines!Plain(sent[i])
          PROVE  records = KeptOf(omit, sent) /\ adapter = <<>>
      <3>1. \A i \in DOMAIN sent : PlainBy(D, sent[i])
        BY <1>1, <1>2, <2>9 DEF Lines!Plain, PlainBy
      <3>2. Cutting(D, text, sent, Len(text))
        BY <2>1, <2>9, <3>1 DEF StreamInv, RoundInv
      <3>3. MatchesOf(D, From(text, Len(text)), 0) = {} /\ From(text, Len(text)) = <<>>
        BY <1>1, <2>2, FromEnd, NoneInNothing
      <3>4. x = [lines |-> sent, rest |-> <<>>]
        BY <1>1, <2>2, <3>2, <3>3, CuttingEnds
      <3>5. records = kept /\ adapter = x.rest
        BY <2>6, <2>9
      <3> QED BY <3>4, <3>5
    <2>10. Lines!FramesExactly
      <3> HIDE DEF x, omit, D
      <3> QED BY <1>2, <2>3, <2>5, <2>6, <2>7, <2>8 DEF Lines!FramesExactly
    <2>11. Lines!RoundTrip
      BY <1>2, <2>9 DEF Lines!RoundTrip
    <2> QED BY <2>10, <2>11 DEF Lines!FramingConsistent
  <1> QED BY <1>3, <1>4

\* What start() and a flush leave is a stream at its start.
LEMMA FreshStream ==
  ASSUME FramingInv, framing' = framing, framing.delimiter # <<>>, stage' = "idle", Lines!Fresh
  PROVE  FramingInv'
  <1> DEFINE D == framing.delimiter
             e == <<>>
  <1>1. /\ adapter' = e /\ minFrameSize' = 1 /\ scanOffset' = 0
        /\ records' = e /\ text' = e /\ sent' = e /\ encoded' = TRUE
    BY DEF Lines!Fresh
  <1>2. D \in Texts /\ framing.max \in Nat /\ Len(D) \in Nat \ {0}
    BY FramingTypes, EmptySeq DEF Texts
  <1>3. e \in Texts /\ e \in Lists /\ Len(e) = 0 /\ DOMAIN e = {} /\ MatchesOf(D, e, 0) = {}
    BY <1>2, NoneInNothing, EmptySeq DEF Lists
  <1>4. Cutting(D, e, e, 0) /\ Cutting(D, e, e, Len(e)) /\ From(e, 0) = e
    BY <1>2, <1>3, CuttingStarts, FromEnd
  <1>5. KeptOf(framing.omitEmpty, e) = e
    BY <1>3, KeptOfOne
  <1> HIDE DEF e, D
  <1>6. Pushed(framing, e, e, e)
    BY <1>4, <1>5 DEF Pushed, D
  <1>7. Scanned(D, e, 0) /\ Waits(framing, e) /\ Short(framing, e) /\ RoundInv(framing, e, e, TRUE)
    BY <1>2, <1>3, <1>4 DEF Scanned, Waits, Short, RoundInv, D
  <1>8. StreamInv'
    <2>1. framing'.delimiter # <<>> /\ stage' = "idle" /\ framing' = framing
      OBVIOUS
    <2>2. text' \in Texts /\ adapter' \in Texts /\ records' \in Lists /\ sent' \in Lists
      BY <1>1, <1>3
    <2>3. Short(framing', records') /\ RoundInv(framing', text', sent', encoded')
      BY <1>1, <1>7
    <2>4. Pushed(framing', text', adapter', records') /\ Waits(framing', adapter')
      BY <1>1, <1>6, <1>7
    <2>5. Scanned(framing'.delimiter, adapter', scanOffset')
      BY <1>1, <1>7 DEF D
    <2>6. minFrameSize' \in Nat /\ minFrameSize' <= Len(adapter') + 1
      BY <1>1, <1>3
    <2> QED BY <2>1, <2>2, <2>3, <2>4, <2>5, <2>6 DEF StreamInv
  <1> QED BY <1>8 DEF FramingInv

\* start() and FLUSH_STOP begin a stream.
LEMMA StreamBegins ==
  ASSUME FramingInv, Lines!Start \/ Lines!FlushStop
  PROVE  FramingInv'
  <1>1. framing' = framing /\ stage' = "idle" /\ Lines!Fresh
    BY DEF Lines!Start, Lines!FlushStop
  <1>2. framing.delimiter # <<>>
    BY DEF Lines!Start, Lines!Startable, Lines!Delimiter, Lines!FlushStop, FramingInv, StreamInv
  <1> QED BY <1>1, <1>2, FreshStream

\* Settings are set in READY, and stop() leads there: of no stream nothing is claimed.
LEMMA StreamUnknown ==
  ASSUME FramingInv, Lines!SetProperty \/ Lines!Stop
  PROVE  FramingInv'
  <1>1. stage' = "ready" /\ framing' \in [delimiter : Delimiters, max : RecordSizes, omitEmpty : BOOLEAN]
    BY DEF Lines!SetProperty, Lines!Stop, FramingInv
  <1> QED BY <1>1 DEF FramingInv

\* What is left grows with the text, and what was seen in it stays.
LEMMA FromGrows ==
  ASSUME NEW t \in Texts, NEW c \in 0..Len(t), NEW x \in Texts
  PROVE  From(t, c) \o x = From(t \o x, c)
  <1> DEFINE n == Len(t)
             m == Len(x)
             w == t \o x
             a == From(t, c)
             p == a \o x
             q == From(w, c)
  <1>1. n \in Nat /\ m \in Nat /\ c \in Nat /\ c <= n
    BY LenProperties DEF Texts
  <1>2. /\ w \in Seq(Bytes) /\ Len(w) = n + m
        /\ \A i \in 1..(n + m) : w[i] = IF i <= n THEN t[i] ELSE x[i - n]
    BY ConcatProperties DEF Texts
  <1>3. /\ a \in Seq(Bytes) /\ Len(a) = n - c
        /\ \A i \in 1..(n - c) : a[i] = t[c + i]
    BY <1>1, PartOf DEF Texts, From
  <1> HIDE DEF w, a
  <1> DEFINE l == Len(w)
  <1>4. l \in Nat /\ c <= l /\ l <= Len(w) /\ l = n + m
    BY <1>1, <1>2
  <1>5. /\ q \in Seq(Bytes) /\ Len(q) = l - c
        /\ \A i \in 1..(l - c) : q[i] = w[c + i]
    <2> HIDE DEF l
    <2>1. q = SubSeq(w, c + 1, l)
      BY DEF From, l
    <2> HIDE DEF q
    <2>2. /\ SubSeq(w, c + 1, l) \in Seq(Bytes) /\ Len(SubSeq(w, c + 1, l)) = l - c
          /\ \A i \in 1..(l - c) : SubSeq(w, c + 1, l)[i] = w[c + i]
      BY <1>1, <1>2, <1>4, PartOf
    <2> QED BY <2>1, <2>2
  <1>6. /\ p \in Seq(Bytes) /\ Len(p) = (n - c) + m
        /\ \A i \in 1..((n - c) + m) : p[i] = IF i <= n - c THEN a[i] ELSE x[i - (n - c)]
    <2>1. /\ p \in Seq(Bytes) /\ Len(p) = Len(a) + m
          /\ \A i \in 1..(Len(a) + m) : p[i] = IF i <= Len(a) THEN a[i] ELSE x[i - Len(a)]
      BY <1>3, ConcatProperties DEF Texts
    <2> QED BY <1>3, <2>1
  <1> HIDE DEF p, q, l, n, m
  <1>7. (n - c) + m = l - c
    BY <1>1, <1>4
  <1>8. \A i \in 1..(l - c) : p[i] = q[i]
    <2> SUFFICES ASSUME NEW i \in 1..(l - c) PROVE p[i] = q[i]
      OBVIOUS
    <2>1. i \in 1..((n - c) + m) /\ c + i \in 1..(n + m) /\ i \in Int
      BY <1>1, <1>4
    <2>2. CASE i <= n - c
      <3>1. i \in 1..(n - c) /\ c + i <= n
        BY <1>1, <2>1, <2>2
      <3> QED BY <1>2, <1>3, <1>5, <1>6, <2>1, <2>2, <3>1
    <2>3. CASE ~(i <= n - c)
      <3>1. ~(c + i <= n) /\ i - (n - c) = (c + i) - n
        BY <1>1, <2>1, <2>3
      <3> QED BY <1>2, <1>5, <1>6, <2>1, <2>3, <3>1
    <2> QED BY <2>2, <2>3
  <1>9. p = q
    BY <1>5, <1>6, <1>7, <1>8, SeqEqual
  <1> QED BY <1>9 DEF p, q, a, w

\* More bytes at the end put no delimiter before the offset.
LEMMA ScannedGrows ==
  ASSUME NEW D \in Texts, NEW a \in Texts, NEW offset, Scanned(D, a, offset), NEW x \in Texts
  PROVE  Scanned(D, a \o x, offset)
  <1>1. Len(a) \in Nat /\ Len(D) \in Nat /\ Len(x) \in Nat /\ offset \in Nat /\ offset <= Len(a)
    BY LenProperties DEF Scanned, Texts
  <1>2. /\ Len(a \o x) = Len(a) + Len(x)
        /\ \A i \in 1..(Len(a) + Len(x)) : (a \o x)[i] = IF i <= Len(a) THEN a[i] ELSE x[i - Len(a)]
    BY ConcatProperties DEF Texts
  <1> DEFINE w == a \o x
  <1> HIDE DEF w
  <1>3. ASSUME NEW k \in Nat, k < offset PROVE k + Len(D) <= Len(w) /\ ~Here(D, w, k)
    <2>1. k + Len(D) <= Len(a) /\ ~Here(D, a, k)
      BY <1>3 DEF Scanned
    <2>2. \A j \in 1..Len(D) : k + j \in 1..(Len(a) + Len(x)) /\ k + j <= Len(a)
      BY <1>1, <2>1
    <2>3. \A j \in 1..Len(D) : w[k + j] = a[k + j]
      BY <1>2, <2>2 DEF w
    <2>4. k + Len(D) <= Len(w)
      BY <1>1, <1>2, <2>1 DEF w
    <2> QED BY <2>1, <2>3, <2>4 DEF Here
  <1>4. offset <= Len(w)
    BY <1>1, <1>2 DEF w
  <1> QED BY <1>1, <1>3, <1>4 DEF Scanned, w

\* A buffer: nothing is cut yet, and the parser has the byte it asked for.
LEMMA BufferReceived ==
  ASSUME FramingInv, NEW chunk \in Texts, chunk # <<>>, Lines!Receive(chunk),
         sent' \in Lists, RoundInv(framing, text', sent', encoded')
  PROVE  FramingInv'
  <1> DEFINE D == framing.delimiter
  <1>1. /\ stage = "idle" /\ stage' = "chaining" /\ text' = text \o chunk /\ adapter' = adapter \o chunk
        /\ framing' = framing /\ minFrameSize' = minFrameSize /\ scanOffset' = scanOffset /\ records' = records
    BY DEF Lines!Receive
  <1>2. D \in Texts
    BY FramingTypes
  <1>3. StreamInv
    BY <1>1 DEF FramingInv
  <1>4. /\ D # <<>> /\ text \in Texts /\ adapter \in Texts /\ records \in Lists /\ Short(framing, records)
        /\ Pushed(framing, text, adapter, records) /\ Scanned(D, adapter, scanOffset)
        /\ minFrameSize \in Nat /\ minFrameSize <= Len(adapter) + 1
    BY <1>1, <1>3 DEF StreamInv
  <1>5. /\ text' \in Texts /\ adapter' \in Texts /\ Len(adapter') = Len(adapter) + Len(chunk)
        /\ Len(adapter) \in Nat /\ Len(chunk) \in Nat \ {0}
    BY <1>1, <1>4, ConcatProperties, LenProperties, EmptySeq DEF Texts
  <1>6. minFrameSize <= Len(adapter') /\ Len(adapter') \in Nat
    BY <1>4, <1>5
  <1>7. Pushed(framing, text', adapter', records)
    <2>1. PICK ls, c : /\ Cutting(D, text, ls, c) /\ adapter = From(text, c)
                       /\ records = KeptOf(framing.omitEmpty, ls)
      BY <1>4 DEF Pushed
    <2>2. Cutting(D, text \o chunk, ls, c) /\ c \in 0..Len(text)
      <3>1. Cutting(D, text \o chunk, ls, c)
        BY <1>4, <2>1, CuttingGrows
      <3>2. c \in 0..Len(text)
        BY <2>1 DEF Cutting
      <3> QED BY <3>1, <3>2
    <2>3. adapter \o chunk = From(text \o chunk, c)
      BY <1>4, <2>1, <2>2, FromGrows
    <2> QED BY <1>1, <2>1, <2>2, <2>3 DEF Pushed
  <1>8. Scanned(D, adapter', scanOffset)
    BY <1>1, <1>2, <1>4, ScannedGrows
  <1>9. minFrameSize' # Len(adapter') + 1
    BY <1>1, <1>4, <1>6
  <1>10. StreamInv'
    <2> HIDE DEF D
    <2>1. minFrameSize <= Len(adapter') + 1
      BY <1>4, <1>6
    <2> QED BY <1>1, <1>4, <1>5, <1>7, <1>8, <1>9, <2>1 DEF StreamInv, D
  <1> QED BY <1>1, <1>10 DEF FramingInv

\* A buffer of a byte stream.
LEMMA StreamReceived ==
  ASSUME FramingInv, Lines!Chain
  PROVE  FramingInv'
  <1>1. PICK chunk \in Lines!BoundedSeq(Bytes, MaxChunk) \ {<<>>} :
          Lines!Receive(chunk) /\ encoded' = FALSE /\ sent' = sent
    BY DEF Lines!Chain
  <1>2. chunk \in Texts /\ chunk # <<>>
    BY LineLibrary DEF Texts
  <1>3. stage = "idle"
    BY <1>1 DEF Lines!Receive
  <1>4. sent' \in Lists /\ RoundInv(framing, text', sent', encoded')
    BY <1>1, <1>3 DEF FramingInv, StreamInv, RoundInv
  <1> QED BY <1>1, <1>2, <1>4, BufferReceived

\* A record that ends with the delimiter holds it before its end.
LEMMA SuffixIsHere ==
  ASSUME NEW D \in Texts, D # <<>>, NEW r \in Texts
  PROVE  Lines!IsSuffix(D, r) => Len(D) <= Len(r) /\ ~PlainBy(D, r)
  <1> SUFFICES ASSUME Lines!IsSuffix(D, r) PROVE Len(D) <= Len(r) /\ ~PlainBy(D, r)
    OBVIOUS
  <1> DEFINE d == Len(D)
             n == Len(r)
             p == Lines!Reverse(D)
             q == Lines!Reverse(r)
  <1>1. d \in Nat \ {0} /\ n \in Nat /\ DOMAIN D = 1..d /\ DOMAIN r = 1..n
    BY LenProperties, EmptySeq DEF Texts
  <1>2. /\ p \in Seq(Bytes) /\ Len(p) = d /\ \A i \in 1..d : p[i] = D[(d - i) + 1]
        /\ q \in Seq(Bytes) /\ Len(q) = n /\ \A i \in 1..n : q[i] = r[(n - i) + 1]
    <2>1. \A i \in 1..d : (d - i) + 1 \in 1..d
      BY <1>1
    <2>2. \A i \in 1..n : (n - i) + 1 \in 1..n
      BY <1>1
    <2>3. D \in [1..d -> Bytes] /\ r \in [1..n -> Bytes]
      BY LenProperties DEF Texts
    <2>4. p = [i \in 1..d |-> D[(d - i) + 1]] /\ q = [i \in 1..n |-> r[(n - i) + 1]]
      BY DEF Lines!Reverse
    <2> HIDE DEF p, q, d, n
    <2>5. p \in [1..d -> Bytes] /\ q \in [1..n -> Bytes]
      BY <2>1, <2>2, <2>3, <2>4
    <2>6. p \in Seq(Bytes) /\ q \in Seq(Bytes)
      BY <1>1, <2>5, SeqDef
    <2>7. Len(p) = d /\ Len(q) = n
      BY <1>1, <2>5, <2>6, LenProperties
    <2> QED BY <2>4, <2>6, <2>7
  <1>3. Len(p) <= Len(q) /\ SubSeq(p, 1, Len(p)) = SubSeq(q, 1, Len(p))
    BY LineLibrary DEF Lines!IsSuffix
  <1> HIDE DEF p, q
  <1>4. d <= n
    BY <1>2, <1>3
  <1>5. \A i \in 1..d : p[i] = q[i]
    <2>1. \A i \in 1..d : i \in 1..n
      BY <1>1, <1>4
    <2> DEFINE z == 0
    <2>2. z \in Nat /\ z <= d /\ d <= Len(p) /\ d <= Len(q)
      BY <1>1, <1>2, <1>4
    <2> HIDE DEF z, d
    <2>3. \A i \in 1..(d - z) : SubSeq(p, z + 1, d)[i] = p[z + i]
      BY <1>1, <1>2, <2>2, PartOf
    <2>4. \A i \in 1..(d - z) : SubSeq(q, z + 1, d)[i] = q[z + i]
      BY <1>1, <1>2, <2>2, PartOf
    <2>5. z + 1 = 1 /\ d - z = d /\ \A i \in 1..d : z + i = i
      BY <1>1 DEF z
    <2>6. SubSeq(p, 1, d) = SubSeq(q, 1, d)
      BY <1>2, <1>3
    <2> QED BY <2>3, <2>4, <2>5, <2>6
  <1>6. \A j \in 1..d : D[j] = r[(n - d) + j]
    <2> SUFFICES ASSUME NEW j \in 1..d PROVE D[j] = r[(n - d) + j]
      OBVIOUS
    <2> DEFINE i == (d - j) + 1
    <2>1. i \in 1..d /\ i \in 1..n /\ (d - i) + 1 = j /\ (n - i) + 1 = (n - d) + j
      BY <1>1, <1>4
    <2> HIDE DEF i
    <2>2. p[i] = D[j] /\ q[i] = r[(n - d) + j]
      BY <1>2, <2>1
    <2> QED BY <1>5, <2>1, <2>2
  <1> DEFINE w == r \o D
             k == n - d
  <1>7. /\ w \in Texts /\ Len(w) = n + d
        /\ \A i \in 1..(n + d) : w[i] = IF i <= n THEN r[i] ELSE D[i - n]
    BY ConcatProperties DEF Texts
  <1> HIDE DEF w
  <1>8. k \in Nat /\ k + d <= n + d /\ k # n
    <2> HIDE DEF d, n
    <2> QED BY <1>1, <1>4
  <1>9. Here(D, w, k)
    <2>1. \A j \in 1..d : k + j \in 1..(n + d) /\ k + j <= n
      BY <1>1, <1>4
    <2> HIDE DEF k
    <2>2. \A j \in 1..d : w[k + j] = r[k + j]
      BY <1>7, <2>1
    <2>3. \A j \in 1..d : w[k + j] = D[j]
      BY <1>6, <2>2 DEF k
    <2> QED BY <1>7, <1>8, <2>3 DEF Here
  <1>10. k \in MatchesOf(D, w, 0)
    <2>1. MatchesOf(D, w, 0) = {i \in Nat : 0 <= i /\ Here(D, w, i)}
      BY <1>7, MatchesAre
    <2> HIDE DEF k
    <2> QED BY <1>8, <1>9, <2>1
  <1>11. ~PlainBy(D, r)
    <2> HIDE DEF k
    <2> QED BY <1>8, <1>10 DEF PlainBy, w
  <1> QED BY <1>4, <1>11

\* A record that the encoder takes: if it is plain it is the next line.
LEMMA RecordEncoded ==
  ASSUME FramingInv, Lines!Encode
  PROVE  FramingInv'
  <1> DEFINE D == framing.delimiter
  <1>1. PICK r \in Lines!BoundedSeq(Bytes, MaxChunk) :
          Lines!Receive(Lines!Encoded(r)) /\ sent' = Append(sent, r) /\ encoded' = encoded
    BY DEF Lines!Encode
  <1> DEFINE chunk == Lines!Encoded(r)
  <1>2. r \in Texts /\ D \in Texts /\ Lines!Delimiter = D
    BY LineLibrary, FramingTypes DEF Texts, Lines!Delimiter
  <1>3. stage = "idle" /\ text' = text \o chunk /\ framing' = framing
    BY <1>1 DEF Lines!Receive
  <1>4. StreamInv
    BY <1>3 DEF FramingInv
  <1>5. /\ D # <<>> /\ text \in Texts /\ sent \in Lists /\ RoundInv(framing, text, sent, encoded)
    BY <1>4 DEF StreamInv
  <1>6. Len(D) \in Nat \ {0} /\ Len(r) \in Nat
    BY <1>2, <1>5, LenProperties, EmptySeq DEF Texts
  <1>7. r \o D \in Texts /\ Len(r \o D) = Len(r) + Len(D)
    BY <1>2, ConcatProperties DEF Texts
  <1>8. chunk \in Texts /\ chunk # <<>>
    <2>1. CASE Lines!IsSuffix(D, r)
      <3>1. chunk = r /\ Len(D) <= Len(r)
        BY <1>2, <1>5, <2>1, SuffixIsHere DEF Lines!Encoded
      <3> QED BY <1>2, <1>6, <3>1
    <2>2. CASE ~Lines!IsSuffix(D, r)
      <3>1. chunk = r \o D
        BY <1>2, <2>2 DEF Lines!Encoded
      <3>2. Len(r \o D) # 0
        BY <1>6, <1>7
      <3> HIDE DEF chunk
      <3>3. Len(chunk) # 0 /\ chunk \in Texts
        BY <1>7, <3>1, <3>2
      <3> QED BY <3>3
    <2> QED BY <2>1, <2>2
  <1>9. /\ sent' \in Lists /\ sent' = sent \o <<r>> /\ DOMAIN sent' = 1..(Len(sent) + 1) /\ Len(sent) \in Nat
        /\ DOMAIN sent = 1..Len(sent)
        /\ \A i \in 1..Len(sent) : sent'[i] = sent[i]
        /\ sent'[Len(sent) + 1] = r
    <2>1. /\ Append(sent, r) \in Seq(Texts) /\ Len(Append(sent, r)) = Len(sent) + 1
          /\ \A i \in 1..Len(sent) : Append(sent, r)[i] = sent[i]
          /\ Append(sent, r)[Len(sent) + 1] = r
      BY <1>2, <1>5, AppendProperties DEF Lists
    <2>2. Append(sent, r) = sent \o <<r>>
      BY <1>2, <1>5, AppendIsConcat DEF Lists
    <2>3. Len(sent) \in Nat /\ DOMAIN sent = 1..Len(sent)
      BY <1>5, LenProperties DEF Lists
    <2>4. DOMAIN Append(sent, r) = 1..(Len(sent) + 1)
      BY <2>1, LenProperties
    <2> QED BY <1>1, <2>1, <2>2, <2>3, <2>4 DEF Lists
  <1> HIDE DEF chunk
  <1>10. ASSUME encoded', \A i \in DOMAIN sent' : PlainBy(D, sent'[i])
         PROVE  Cutting(D, text', sent', Len(text'))
    <2>1. encoded /\ PlainBy(D, r) /\ \A i \in DOMAIN sent : PlainBy(D, sent[i])
      <3>1. \A i \in 1..Len(sent) : i \in 1..(Len(sent) + 1)
        BY <1>9
      <3>2. Len(sent) + 1 \in 1..(Len(sent) + 1)
        BY <1>9
      <3> QED BY <1>1, <1>9, <1>10, <3>1, <3>2
    <2>2. Cutting(D, text, sent, Len(text))
      BY <1>5, <2>1 DEF RoundInv
    <2>3. ~Lines!IsSuffix(D, r)
      BY <1>2, <1>5, <2>1, SuffixIsHere
    <2>4. chunk = r \o D
      BY <1>2, <2>3 DEF chunk, Lines!Encoded
    <2> DEFINE c == Len(text)
               t == text \o chunk
    <2>5. /\ t \in Texts /\ Len(t) = c + Len(chunk) /\ c \in Nat /\ c \in 0..c
      BY <1>5, <1>8, ConcatProperties, LenProperties DEF Texts
    <2>6. Cutting(D, t, sent, c)
      BY <1>5, <1>8, <2>2, CuttingGrows
    <2>7. chunk = From(t, c)
      <3>1. From(text, c) \o chunk = From(t, c)
        BY <1>5, <1>8, <2>5, FromGrows
      <3>2. <<>> \o chunk = chunk
        BY <1>8, ConcatEmptySeq DEF Texts
      <3> HIDE DEF t
      <3>3. From(text, c) = <<>>
        BY <1>5, FromEnd
      <3> QED BY <3>1, <3>2, <3>3
    <2>8. MatchesOf(D, chunk, 0) = {Len(r)}
      BY <2>1, <2>4 DEF PlainBy
    <2>9. Lines!Least({Len(r)}) = Len(r)
      <3> DEFINE n == Len(r)
                 M == {n}
      <3>1. M \subseteq Nat /\ M # {}
        BY <1>6
      <3> HIDE DEF M, n
      <3>2. Lines!Least(M) \in M
        BY <3>1, LeastIs
      <3> QED BY <3>2 DEF M, n
    <2>10. SubSeq(chunk, 1, Len(r)) = r
      <3> DEFINE p == SubSeq(chunk, 1, Len(r))
                 n == Len(r)
      <3>1. \A i \in 1..(Len(r) + Len(D)) : chunk[i] = IF i <= Len(r) THEN r[i] ELSE D[i - Len(r)]
        BY <1>2, <2>4, ConcatProperties DEF Texts
      <3>2. \A i \in 1..n : chunk[i] = r[i]
        <4>1. \A i \in 1..Len(r) : i \in 1..(Len(r) + Len(D)) /\ i <= Len(r)
          BY <1>6
        <4> QED BY <3>1, <4>1
      <3>3. n <= Len(chunk)
        BY <1>6, <1>7, <2>4
      <3>4. p \in Seq(Bytes) /\ Len(p) = n /\ \A i \in 1..n : p[i] = chunk[i]
        <4> DEFINE z == 0
        <4>1. z \in Nat /\ z <= n /\ n \in Nat
          BY <1>6
        <4>2. z + 1 = 1 /\ n - z = n /\ \A i \in 1..n : z + i = i
          BY <1>6
        <4> HIDE DEF z, n
        <4>3. /\ SubSeq(chunk, z + 1, n) \in Seq(Bytes) /\ Len(SubSeq(chunk, z + 1, n)) = n - z
              /\ \A i \in 1..(n - z) : SubSeq(chunk, z + 1, n)[i] = chunk[z + i]
          BY <1>8, <3>3, <4>1, PartOf DEF Texts
        <4> QED BY <4>2, <4>3 DEF n
      <3> HIDE DEF p
      <3>5. p = r
        BY <1>2, <3>2, <3>4, SeqEqual DEF Texts
      <3> QED BY <3>5 DEF p
    <2>11. c + (Len(r) + Len(D)) = Len(t)
      BY <1>7, <2>4, <2>5
    <2> HIDE DEF c, t
    <2>12. Cutting(D, t, sent \o <<LineTo(chunk, Len(r))>>, c + (Len(r) + Len(D)))
      <3> DEFINE at == Len(r)
      <3>1. at = Lines!Least(MatchesOf(D, chunk, 0)) /\ MatchesOf(D, chunk, 0) # {}
        BY <2>8, <2>9
      <3> HIDE DEF at
      <3>2. Cutting(D, t, sent \o <<LineTo(chunk, at)>>, c + (at + Len(D)))
        <4>1. NextAt(D, t, c, chunk, at)
          BY <2>7, <3>1 DEF NextAt
        <4> QED BY <1>2, <1>5, <2>5, <2>6, <4>1, CuttingNext
      <3> QED BY <3>2 DEF at
    <2> QED BY <1>3, <1>9, <2>10, <2>11, <2>12 DEF t, LineTo
  <1>11. RoundInv(framing, text', sent', encoded')
    BY <1>10 DEF RoundInv
  <1> QED BY <1>1, <1>8, <1>9, <1>11, BufferReceived DEF chunk

\* While it waits or drains, what the parser finds from the offset on is what
\* there is; what it has cut, read off when it hands over bytes.
LEMMA AdapterRead ==
  ASSUME FramingInv, Lines!Handing
  PROVE  LET D == framing.delimiter
             found == Lines!Matches(adapter, Lines!Smaller(scanOffset, Len(adapter)))
         IN /\ D \in Texts /\ D # <<>> /\ Len(D) \in Nat \ {0} /\ Lines!Delimiter = D /\ framing.max \in Nat
            /\ stage \in {"chaining", "draining"} /\ StreamInv
            /\ found = MatchesOf(D, adapter, 0)
            /\ adapter \in Texts /\ Len(adapter) \in Nat /\ (stage = "draining" => adapter # <<>>)
            /\ Pushed(framing, text, adapter, records)
  <1> DEFINE D == framing.delimiter
             found == Lines!Matches(adapter, Lines!Smaller(scanOffset, Len(adapter)))
  <1>1. stage \in {"chaining", "draining"} /\ StreamInv
    BY DEF Lines!Handing, FramingInv
  <1>2. /\ D # <<>> /\ adapter \in Texts /\ Scanned(D, adapter, scanOffset)
        /\ stage = "chaining" => Pushed(framing, text, adapter, records)
        /\ stage = "draining" =>
             Pushed(framing, text, adapter, records) \/ Tailed(framing, text, adapter, records)
        /\ minFrameSize \in Nat /\ minFrameSize <= Len(adapter) + 1
    BY <1>1 DEF StreamInv
  <1>3. /\ D \in Texts /\ framing.max \in Nat /\ Lines!Delimiter = D /\ Len(D) \in Nat \ {0}
        /\ Len(adapter) \in Nat
    BY <1>2, FramingTypes, LenProperties, EmptySeq DEF Texts, Lines!Delimiter
  <1>4. found = MatchesOf(D, adapter, 0)
    <2>1. scanOffset \in Nat /\ Lines!Smaller(scanOffset, Len(adapter)) = scanOffset
      BY <1>2, <1>3 DEF Scanned, Lines!Smaller
    <2>2. found = MatchesOf(D, adapter, scanOffset)
      BY <1>3, <2>1, OfDelimiter
    <2>3. MatchesOf(D, adapter, scanOffset) = {k \in Nat : scanOffset <= k /\ Here(D, adapter, k)}
      BY <1>2, <1>3, <2>1, MatchesAre
    <2>4. MatchesOf(D, adapter, 0) = {k \in Nat : 0 <= k /\ Here(D, adapter, k)}
      BY <1>2, <1>3, MatchesAre
    <2>5. \A k \in Nat : Here(D, adapter, k) => scanOffset <= k /\ 0 <= k
      BY <1>2, <2>1 DEF Scanned
    <2> HIDE DEF found
    <2> QED BY <2>2, <2>3, <2>4, <2>5
  <1>5. Pushed(framing, text, adapter, records) /\ (stage = "draining" => adapter # <<>>)
    BY <1>1, <1>2 DEF Lines!Handing, Tailed
  <1> QED BY <1>1, <1>2, <1>3, <1>4, <1>5

\* All records are some, some more and others.
Followed(all, rs, more) == \E z \in Lists : all = rs \o (more \o z)

\* The first delimiter in the adapter.
FirstAt(f, a, at) ==
  MatchesOf(f.delimiter, a, 0) # {} /\ at = Lines!Least(MatchesOf(f.delimiter, a, 0))

\* The line up to the first delimiter in the adapter is the next of the text.
LEMMA NextLine ==
  ASSUME NEW f, f.delimiter \in Texts, f.delimiter # <<>>, NEW t \in Texts, NEW a, NEW rs,
         Pushed(f, t, a, rs), NEW at, FirstAt(f, a, at)
  PROVE  /\ at \in Nat /\ at + Len(f.delimiter) <= Len(a)
         /\ LineTo(a, at) \in Texts /\ Len(LineTo(a, at)) = at
         /\ Given(f.omitEmpty, LineTo(a, at)) \in Lists
         /\ Followed(AllRecords(f, t), rs, Given(f.omitEmpty, LineTo(a, at)))
         /\ Pushed(f, t, From(a, at + Len(f.delimiter)), rs \o Given(f.omitEmpty, LineTo(a, at)))
         /\ From(a, at + Len(f.delimiter)) \in Texts
  <1> DEFINE D == f.delimiter
             r == LineTo(a, at)
             omit == f.omitEmpty
             rest == From(a, at + Len(D))
             g == Given(omit, r)
  <1>1. PICK ls, c : Cutting(D, t, ls, c) /\ a = From(t, c) /\ rs = KeptOf(omit, ls)
    BY DEF Pushed
  <1> DEFINE next == c + (at + Len(D))
             ms == ls \o <<r>>
  <1>2. /\ at \in Nat /\ at + Len(D) <= Len(a) /\ r \in Texts /\ Len(r) = at
        /\ Cutting(D, t, ms, next) /\ rest = From(t, next)
    <2>3. D \in Texts /\ D # <<>>
      OBVIOUS
    <2>1. Cutting(D, t, ls, c) /\ a = From(t, c)
      BY <1>1
    <2>2. NextAt(D, t, c, a, at)
      BY <2>1 DEF NextAt, FirstAt
    <2> HIDE DEF omit, D
    <2>4. at \in Nat /\ at + Len(D) <= Len(a)
      BY <2>1, <2>2, <2>3, CuttingNext
    <2>5. r \in Texts
      BY <2>1, <2>2, <2>3, CuttingNext
    <2>6. Cutting(D, t, ms, next)
      BY <2>1, <2>2, <2>3, CuttingNext
    <2>7. Divides(D, t, c, a, at)
      BY <2>1, <2>2, <2>3, CuttingNext
    <2>8. Len(r) = at /\ rest = From(t, next)
      BY <2>7 DEF Divides
    <2> QED BY <2>4, <2>5, <2>6, <2>8
  <1>3. g \in Lists /\ KeptOf(omit, <<r>>) = g
    BY <1>2, KeptOfOne
  <1>4. ls \in Lists /\ <<r>> \in Lists
    BY <1>1, <1>2, OneRecord DEF Cutting, Lists
  <1>5. rs \in Lists /\ KeptOf(omit, ms) = rs \o g
    <2> DEFINE y == <<r>>
    <2>1. y \in Lists /\ KeptOf(omit, y) = g
      BY <1>3, <1>4
    <2> HIDE DEF y, g, omit, r
    <2>2. KeptOf(omit, ls) \in Lists /\ KeptOf(omit, ls \o y) = KeptOf(omit, ls) \o KeptOf(omit, y)
      BY <1>4, <2>1, KeptConcat
    <2> QED BY <1>1, <2>1, <2>2 DEF y
  <1>6. ms \in Lists /\ next \in 0..Len(t)
    BY <1>2 DEF Cutting
  <1>7. rest \in Texts
    <2> HIDE DEF next, rest
    <2>1. next \in 0..Len(t) /\ rest = From(t, next)
      BY <1>2, <1>6
    <2> QED BY <2>1, EmptySeq, Onward DEF Texts
  <1> HIDE DEF r, rest, g, ms, next
  <1>8. Pushed(f, t, rest, rs \o g)
    <2>1. rs \o g = KeptOf(omit, ms)
      BY <1>5
    <2> QED BY <1>2, <2>1 DEF Pushed
  <1>9. Followed(AllRecords(f, t), rs, g)
    <2>1. PICK x \in Cuts : CutOf(D, t)[0] = After(ms, x)
      BY <1>2, CuttingReads
    <2>2. PICK z \in Lists : Append(KeptOf(omit, After(ms, x).lines), After(ms, x).rest) = KeptOf(omit, ms) \o z
      BY <1>6, RecordsBegin
    <2>3. AllRecords(f, t) = (rs \o g) \o z
      BY <1>5, <2>1, <2>2 DEF AllRecords
    <2>4. (rs \o g) \o z = rs \o (g \o z)
      BY <1>3, <1>5, ConcatAssociative DEF Lists
    <2> QED BY <2>3, <2>4 DEF Followed
  <1> QED BY <1>2, <1>3, <1>7, <1>8, <1>9 DEF r, rest, g

\* The records are those of all lines of a text, and some bytes are its rest.
AllCut(f, t, a, rs) ==
  \E ls \in Lists :
    CutOf(f.delimiter, t)[0] = [lines |-> ls, rest |-> a] /\ rs = KeptOf(f.omitEmpty, ls)

\* Without a delimiter in the adapter, it is the rest of the text.
LEMMA LastLine ==
  ASSUME NEW f, NEW D \in Texts, D = f.delimiter, D # <<>>, NEW t \in Texts, NEW a, NEW rs,
         Pushed(f, t, a, rs), MatchesOf(D, a, 0) = {}
  PROVE  /\ AllRecords(f, t) = Append(rs, a)
         /\ AllCut(f, t, a, rs)
  <1>1. PICK ls, c : Cutting(D, t, ls, c) /\ a = From(t, c) /\ rs = KeptOf(f.omitEmpty, ls)
    BY DEF Pushed
  <1>2. CutOf(D, t)[0] = [lines |-> ls, rest |-> a]
    BY <1>1, CuttingEnds
  <1>3. ls \in Lists
    BY <1>1 DEF Cutting
  <1> QED BY <1>1, <1>2, <1>3 DEF AllRecords, AllCut

\* A step within a stream: what is to be shown of the state it leads to.
LEMMA FramingFrom ==
  ASSUME FramingInv, stage # "ready",
         framing' = framing, text' = text, sent' = sent, encoded' = encoded,
         stage' \in {"idle", "chaining", "draining", "eos", "failed", "refused"},
         adapter' \in Texts, records' \in Lists, Short(framing, records'),
         stage' \in {"idle", "chaining"} => Pushed(framing, text, adapter', records'),
         stage' = "draining" =>
           Pushed(framing, text, adapter', records') \/ Tailed(framing, text, adapter', records'),
         stage' \in {"idle", "chaining", "draining"} =>
           Scanned(framing.delimiter, adapter', scanOffset') /\ minFrameSize' \in Nat
             /\ minFrameSize' <= Len(adapter') + 1,
         stage' = "idle" \/ (stage' = "chaining" /\ minFrameSize' = Len(adapter') + 1) =>
           Waits(framing, adapter'),
         stage' = "eos" => Ended(framing, text, records'),
         stage' = "failed" => FailedAt(framing, text, records')
  PROVE  FramingInv'
  <1>1. /\ StreamInv /\ framing.delimiter # <<>> /\ text \in Texts /\ sent \in Lists
        /\ RoundInv(framing, text, sent, encoded)
    BY DEF FramingInv, StreamInv
  <1>2. StreamInv'
    BY <1>1 DEF StreamInv
  <1> QED BY <1>2 DEF FramingInv

\* A line that is too long: the parser fails at the record it would be.
LEMMA LineRefused ==
  ASSUME FramingInv, Lines!Handing, framing' = framing, text' = text, sent' = sent, encoded' = encoded,
         MatchesOf(framing.delimiter, adapter, 0) # {},
         Lines!Least(MatchesOf(framing.delimiter, adapter, 0)) > framing.max,
         Lines!Fail
  PROVE  FramingInv'
  <1> DEFINE D == framing.delimiter
             at == Lines!Least(MatchesOf(D, adapter, 0))
             r == LineTo(adapter, at)
             omit == framing.omitEmpty
  <1>1. /\ D \in Texts /\ D # <<>> /\ framing.max \in Nat /\ stage \in {"chaining", "draining"} /\ StreamInv
        /\ Pushed(framing, text, adapter, records)
    BY AdapterRead
  <1>2. text \in Texts /\ adapter \in Texts /\ records \in Lists /\ Short(framing, records)
    BY <1>1 DEF StreamInv
  <1>3. stage' = "failed" /\ adapter' = adapter /\ records' = records
    BY DEF Lines!Fail
  <1> HIDE DEF at
  <1>4. at = Lines!Least(MatchesOf(D, adapter, 0)) /\ at > framing.max
    BY DEF at
  <1> HIDE DEF D
  <1>5. FirstAt(framing, adapter, at) /\ framing.delimiter \in Texts /\ framing.delimiter # <<>>
    BY <1>1 DEF at, D, FirstAt
  <1>6. /\ at \in Nat /\ r \in Texts /\ Len(r) = at
        /\ Followed(AllRecords(framing, text), records, Given(omit, r))
    <2>1. at \in Nat /\ r \in Texts /\ Len(r) = at
      BY <1>1, <1>2, <1>5, NextLine
    <2> HIDE DEF omit
    <2>2. omit = framing.omitEmpty /\ framing.delimiter = D
      BY DEF omit, D
    <2>3. Followed(AllRecords(framing, text), records, Given(framing.omitEmpty, r))
      BY <1>1, <1>2, <1>5, NextLine
    <2> QED BY <2>1, <2>2, <2>3
  <1>7. PICK z \in Lists : AllRecords(framing, text) = records \o (Given(omit, r) \o z)
    BY <1>6 DEF Followed
  <1> HIDE DEF r
  <1>8. Given(omit, r) = <<r>>
    <2>1. Len(r) # 0
      BY <1>1, <1>4, <1>6
    <2>2. r # <<>>
      BY <2>1
    <2> QED BY <2>2 DEF Given
  <1>9. /\ Lines!IsPrefix(records, AllRecords(framing, text))
        /\ AllRecords(framing, text)[Len(records) + 1] = r
    <2>1. /\ Lines!IsPrefix(records, records \o (<<r>> \o z))
          /\ (records \o (<<r>> \o z))[Len(records) + 1] = r
      BY <1>2, <1>6, <1>7, OneRecord
    <2>2. AllRecords(framing, text) = records \o (<<r>> \o z)
      BY <1>7, <1>8
    <2> QED BY <2>1, <2>2
  <1>10. FailedAt(framing, text, records')
    BY <1>3, <1>4, <1>6, <1>9 DEF FailedAt
  <1> QED BY <1>1, <1>2, <1>3, <1>10, FramingFrom

\* A line: its record is pushed or, when it is empty, perhaps omitted; the
\* search starts over in what follows its delimiter.
LEMMA LineFinished ==
  ASSUME FramingInv, Lines!Handing, framing' = framing, text' = text, sent' = sent, encoded' = encoded,
         MatchesOf(framing.delimiter, adapter, 0) # {},
         NEW at, at = Lines!Least(MatchesOf(framing.delimiter, adapter, 0)), at <= framing.max,
         Lines!Finish(SubSeq(adapter, 1, at), at + Len(framing.delimiter), ~(at = 0 /\ framing.omitEmpty))
  PROVE  FramingInv'
  <1> DEFINE D == framing.delimiter
             r == LineTo(adapter, at)
             omit == framing.omitEmpty
             rest == From(adapter, at + Len(D))
             keep == ~(at = 0 /\ omit)
  <1>1. /\ D \in Texts /\ D # <<>> /\ framing.max \in Nat /\ stage \in {"chaining", "draining"} /\ StreamInv
        /\ Len(D) \in Nat /\ Pushed(framing, text, adapter, records)
    BY AdapterRead
  <1>2. text \in Texts /\ adapter \in Texts /\ records \in Lists /\ Short(framing, records)
    BY <1>1 DEF StreamInv
  <1>3. /\ scanOffset' = 0 /\ minFrameSize' = 1 /\ adapter' = rest
        /\ \/ keep /\ records' = Append(records, r) /\ stage' = stage
           \/ keep /\ stage' = "refused" /\ records' = records
           \/ ~keep /\ records' = records /\ stage' = stage
    BY DEF Lines!Finish, LineTo, From
  <1> HIDE DEF D
  <1>4. FirstAt(framing, adapter, at) /\ framing.delimiter \in Texts /\ framing.delimiter # <<>>
    BY <1>1 DEF D, FirstAt
  <1>5. /\ at \in Nat /\ r \in Texts /\ Len(r) = at /\ rest \in Texts
        /\ Pushed(framing, text, rest, records \o Given(omit, r))
    BY <1>1, <1>2, <1>4, NextLine DEF D
  <1> HIDE DEF r, rest
  <1>6. keep => Given(omit, r) = <<r>>
    <2>1. Len(r) = 0 => at = 0
      BY <1>5
    <2>2. r = <<>> => at = 0
      BY <1>5
    <2> QED BY <2>2 DEF Given
  <1>7. ~keep => Given(omit, r) = <<>>
    BY <1>5 DEF Given
  <1>8. /\ Append(records, r) = records \o <<r>> /\ Append(records, r) \in Lists
        /\ records \o <<>> = records
    <2>1. <<>> \in Lists
      BY EmptySeq DEF Lists
    <2> QED BY <1>2, <1>5, <2>1, OneRecord, ConcatEmptySeq DEF Lists
  <1>9. records' \in Lists /\ (stage' # "refused" => records' = records \o Given(omit, r))
    BY <1>1, <1>2, <1>3, <1>6, <1>7, <1>8
  <1>10. Short(framing, Append(records, r))
    <2>1. /\ Append(records, r) \in Seq(Texts) /\ Len(Append(records, r)) = Len(records) + 1
          /\ \A i \in 1..Len(records) : Append(records, r)[i] = records[i]
          /\ Append(records, r)[Len(records) + 1] = r
      BY <1>2, <1>5, AppendProperties DEF Lists
    <2>2. DOMAIN Append(records, r) = 1..(Len(records) + 1) /\ Len(records) \in Nat
          /\ DOMAIN records = 1..Len(records)
      BY <1>2, <2>1, LenProperties DEF Lists
    <2> DEFINE y == Append(records, r)
    <2> HIDE DEF y
    <2>3. ASSUME NEW i \in DOMAIN y PROVE Len(y[i]) <= framing.max
      <3>1. CASE i = Len(records) + 1
        BY <1>5, <2>1, <3>1 DEF y
      <3>2. CASE i # Len(records) + 1
        <4>1. i \in DOMAIN records
          BY <2>2, <3>2 DEF y
        <4> QED BY <1>2, <2>1, <2>2, <4>1 DEF Short, y
      <3> QED BY <3>1, <3>2
    <2> QED BY <2>3 DEF Short, y
  <1>11. Short(framing, records')
    BY <1>2, <1>3, <1>10
  <1>12. stage' # "refused" => Pushed(framing, text, adapter', records')
    BY <1>3, <1>5, <1>9
  <1>13. Len(rest) \in Nat /\ Scanned(D, rest, 0)
    BY <1>5, LenProperties DEF Texts, Scanned
  <1>14. 1 = Len(rest) + 1 => Waits(framing, rest)
    <2> SUFFICES ASSUME 1 = Len(rest) + 1 PROVE Waits(framing, rest)
      OBVIOUS
    <2>1. Len(rest) = 0
      BY <1>13
    <2>2. rest = <<>>
      BY <1>5, <2>1, EmptySeq DEF Texts
    <2>3. MatchesOf(D, rest, 0) = {}
      BY <1>1, <2>2, NoneInNothing
    <2>4. Len(D) \in Nat \ {0}
      BY <1>1, LenProperties, EmptySeq DEF Texts
    <2> QED BY <1>1, <2>1, <2>3, <2>4 DEF Waits, D
  <1>15. stage' \in {"chaining", "draining", "refused"}
    BY <1>1, <1>3
  <1>16. /\ adapter' \in Texts /\ Scanned(D, adapter', scanOffset') /\ minFrameSize' \in Nat
         /\ minFrameSize' <= Len(adapter') + 1
         /\ minFrameSize' = Len(adapter') + 1 => Waits(framing, adapter')
    BY <1>3, <1>5, <1>13, <1>14
  <1> QED BY <1>1, <1>9, <1>11, <1>12, <1>15, <1>16, FramingFrom DEF D

\* The rest of a stream that drains: it is the last record.
LEMMA RestFinished ==
  ASSUME FramingInv, Lines!Handing, framing' = framing, text' = text, sent' = sent, encoded' = encoded,
         MatchesOf(framing.delimiter, adapter, 0) = {}, stage = "draining", Len(adapter) <= framing.max,
         Lines!Finish(adapter, Len(adapter), TRUE)
  PROVE  FramingInv'
  <1> DEFINE D == framing.delimiter
             e == <<>>
  <1>1. /\ D \in Texts /\ D # <<>> /\ framing.max \in Nat /\ StreamInv /\ Len(D) \in Nat
        /\ Pushed(framing, text, adapter, records) /\ adapter # <<>> /\ Len(adapter) \in Nat
    BY AdapterRead
  <1>2. text \in Texts /\ adapter \in Texts /\ records \in Lists /\ Short(framing, records)
    BY <1>1 DEF StreamInv
  <1>3. /\ scanOffset' = 0 /\ minFrameSize' = 1 /\ adapter' = From(adapter, Len(adapter))
        /\ \/ records' = Append(records, adapter) /\ stage' = stage
           \/ stage' = "refused" /\ records' = records
    BY DEF Lines!Finish, From
  <1>4. From(adapter, Len(adapter)) = e
    BY <1>2, FromEnd
  <1>5. e \in Texts /\ Len(e) = 0 /\ MatchesOf(D, e, 0) = {}
    BY <1>1, NoneInNothing
  <1>6. Scanned(D, e, 0)
    BY <1>5 DEF Scanned
  <1>7. AllCut(framing, text, adapter, records)
    BY <1>1, <1>2, LastLine
  <1>8. Tailed(framing, text, e, Append(records, adapter))
    BY <1>1, <1>2, <1>7 DEF Tailed, AllCut
  <1>9. Append(records, adapter) \in Lists /\ Short(framing, Append(records, adapter))
    <2> DEFINE y == Append(records, adapter)
    <2>1. /\ y \in Seq(Texts) /\ Len(y) = Len(records) + 1
          /\ \A i \in 1..Len(records) : y[i] = records[i]
          /\ y[Len(records) + 1] = adapter
      BY <1>2, AppendProperties DEF Lists
    <2>2. DOMAIN y = 1..(Len(records) + 1) /\ Len(records) \in Nat /\ DOMAIN records = 1..Len(records)
      BY <1>2, <2>1, LenProperties DEF Lists
    <2> HIDE DEF y
    <2>3. ASSUME NEW i \in DOMAIN y PROVE Len(y[i]) <= framing.max
      <3>1. CASE i = Len(records) + 1
        BY <2>1, <3>1
      <3>2. CASE i # Len(records) + 1
        <4>1. i \in DOMAIN records
          BY <2>2, <3>2
        <4> QED BY <1>2, <2>1, <2>2, <4>1 DEF Short
      <3> QED BY <3>1, <3>2
    <2>4. y \in Lists /\ Short(framing, y)
      BY <2>1, <2>3 DEF Short, Lists
    <2> QED BY <2>4 DEF y
  <1>10. stage' \in {"draining", "refused"} /\ records' \in Lists /\ Short(framing, records')
    BY <1>2, <1>3, <1>9
  <1>11. stage' = "draining" => Tailed(framing, text, adapter', records')
    BY <1>3, <1>4, <1>8
  <1>12. adapter' \in Texts /\ Scanned(D, adapter', scanOffset') /\ minFrameSize' \in Nat
         /\ minFrameSize' <= Len(adapter') + 1
    BY <1>3, <1>4, <1>5, <1>6
  <1> QED BY <1>10, <1>11, <1>12, FramingFrom

\* The bytes without a delimiter are too many: it fails at the rest.
LEMMA RestRefused ==
  ASSUME FramingInv, Lines!Handing, framing' = framing, text' = text, sent' = sent, encoded' = encoded,
         MatchesOf(framing.delimiter, adapter, 0) = {},
         Len(adapter) > framing.max \/ Len(adapter) >= Lines!Lookahead,
         Lines!Fail
  PROVE  FramingInv'
  <1> DEFINE D == framing.delimiter
             y == Append(records, adapter)
  <1>1. /\ D \in Texts /\ D # <<>> /\ framing.max \in Nat /\ stage \in {"chaining", "draining"} /\ StreamInv
        /\ Pushed(framing, text, adapter, records) /\ Len(adapter) \in Nat /\ Len(D) \in Nat \ {0}
        /\ Lines!Delimiter = D
    BY AdapterRead
  <1>2. text \in Texts /\ adapter \in Texts /\ records \in Lists /\ Short(framing, records)
    BY <1>1 DEF StreamInv
  <1>3. stage' = "failed" /\ adapter' = adapter /\ records' = records
    BY DEF Lines!Fail
  <1>4. Len(adapter) > framing.max
    BY <1>1 DEF Lines!Lookahead
  <1>5. AllRecords(framing, text) = y
    BY <1>1, <1>2, LastLine
  <1>6. Lines!IsPrefix(records, y) /\ y[Len(records) + 1] = adapter
    <2> DEFINE x == <<adapter>>
    <2>1. x \in Seq(Texts) /\ records \in Seq(Texts)
      BY <1>2 DEF Lists
    <2>2. y = records \o x /\ y[Len(records) + 1] = adapter
      BY <1>2, AppendIsConcat, AppendProperties DEF Lists
    <2> HIDE DEF x, y
    <2>3. Lines!IsPrefix(records, records \o x)
      BY <2>1, PrefixOf
    <2> QED BY <2>2, <2>3
  <1> HIDE DEF y
  <1>7. FailedAt(framing, text, records')
    BY <1>3, <1>4, <1>5, <1>6 DEF FailedAt
  <1> QED BY <1>1, <1>2, <1>3, <1>7, FramingFrom

\* It waits for one byte more than there is, and may have the delimiter's
\* first bytes: the search resumes before them.
LEMMA FrameAwaited ==
  ASSUME FramingInv, Lines!Handing, framing' = framing, text' = text, sent' = sent, encoded' = encoded,
         MatchesOf(framing.delimiter, adapter, 0) = {}, stage = "chaining", Len(adapter) < Lines!Lookahead,
         scanOffset' = Lines!NextOffset, minFrameSize' = Lines!Smaller(Len(adapter) + 1, Lines!Lookahead),
         stage' = stage, adapter' = adapter, records' = records
  PROVE  FramingInv'
  <1> DEFINE D == framing.delimiter
             n == Len(adapter)
             d == Len(D)
             offset == Lines!NextOffset
  <1>1. /\ D \in Texts /\ D # <<>> /\ framing.max \in Nat /\ StreamInv
        /\ Pushed(framing, text, adapter, records) /\ n \in Nat /\ d \in Nat \ {0}
        /\ Lines!Delimiter = D
    BY AdapterRead
  <1>2. text \in Texts /\ adapter \in Texts /\ records \in Lists /\ Short(framing, records)
    BY <1>1 DEF StreamInv
  <1>3. n < framing.max + d /\ minFrameSize' = n + 1
    <2>1. Lines!Lookahead = framing.max + d /\ n < Lines!Lookahead
      BY <1>1 DEF Lines!Lookahead
    <2> QED BY <1>1, <2>1 DEF Lines!Smaller
  <1>4. offset \in Nat /\ offset <= n /\ \A k \in Nat : k < offset => k + d <= n
    <2>1. Lines!Minus(d, 1) = d - 1
      BY <1>1 DEF Lines!Minus
    <2>2. offset = IF n > d - 1 THEN n - (d - 1) ELSE 0
      BY <1>1, <2>1 DEF Lines!NextOffset, Lines!Minus
    <2> HIDE DEF offset, n, d
    <2> QED BY <1>1, <2>2
  <1>5. \A k \in Nat : ~Here(D, adapter, k)
    <2>1. MatchesOf(D, adapter, 0) = {k \in Nat : 0 <= k /\ Here(D, adapter, k)}
      BY <1>1, <1>2, MatchesAre
    <2> QED BY <2>1
  <1> HIDE DEF offset
  <1>6. Scanned(D, adapter, offset)
    BY <1>4, <1>5 DEF Scanned
  <1>7. Waits(framing, adapter)
    BY <1>3 DEF Waits
  <1>8. /\ Scanned(D, adapter', scanOffset') /\ Waits(framing, adapter')
        /\ Pushed(framing, text, adapter', records')
    BY <1>1, <1>6, <1>7 DEF offset
  <1>9. minFrameSize' \in Nat /\ minFrameSize' <= Len(adapter') + 1
    BY <1>1, <1>3
  <1> QED BY <1>1, <1>2, <1>8, <1>9, FramingFrom

\* What the parser does with the bytes it is handed.
LEMMA FrameHandled ==
  ASSUME FramingInv, Lines!HandleFrame
  PROVE  FramingInv'
  <1> DEFINE D == framing.delimiter
             found == MatchesOf(D, adapter, 0)
             at == Lines!Least(found)
  <1>1. Lines!Handing /\ framing' = framing /\ text' = text /\ sent' = sent /\ encoded' = encoded
    BY DEF Lines!HandleFrame
  <1>2. /\ Lines!Matches(adapter, Lines!Smaller(scanOffset, Len(adapter))) = found
        /\ Lines!Delimiter = D /\ stage \in {"chaining", "draining"}
        /\ Len(adapter) \in Nat /\ framing.max \in Nat /\ Len(D) \in Nat
    BY <1>1, AdapterRead
  <1> HIDE DEF found
  <1>3. \/ found # {} /\ at > framing.max /\ Lines!Fail
        \/ /\ found # {} /\ at <= framing.max
           /\ Lines!Finish(SubSeq(adapter, 1, at), at + Len(D), ~(at = 0 /\ framing.omitEmpty))
        \/ /\ found = {} /\ stage = "draining" /\ Len(adapter) <= framing.max
           /\ Lines!Finish(adapter, Len(adapter), TRUE)
        \/ found = {} /\ (Len(adapter) > framing.max \/ Len(adapter) >= Lines!Lookahead) /\ Lines!Fail
        \/ /\ found = {} /\ stage = "chaining" /\ Len(adapter) < Lines!Lookahead
           /\ scanOffset' = Lines!NextOffset
           /\ minFrameSize' = Lines!Smaller(Len(adapter) + 1, Lines!Lookahead)
           /\ stage' = stage /\ adapter' = adapter /\ records' = records
    BY <1>2 DEF Lines!HandleFrame
  <1>4. CASE found # {} /\ at > framing.max /\ Lines!Fail
    BY <1>1, <1>4, LineRefused DEF found
  <1>5. CASE /\ found # {} /\ at <= framing.max
             /\ Lines!Finish(SubSeq(adapter, 1, at), at + Len(D), ~(at = 0 /\ framing.omitEmpty))
    BY <1>1, <1>5, LineFinished DEF found
  <1>6. CASE /\ found = {} /\ stage = "draining" /\ Len(adapter) <= framing.max
             /\ Lines!Finish(adapter, Len(adapter), TRUE)
    BY <1>1, <1>6, RestFinished DEF found
  <1>7. CASE found = {} /\ (Len(adapter) > framing.max \/ Len(adapter) >= Lines!Lookahead) /\ Lines!Fail
    BY <1>1, <1>7, RestRefused DEF found
  <1>8. CASE /\ found = {} /\ stage = "chaining" /\ Len(adapter) < Lines!Lookahead
             /\ scanOffset' = Lines!NextOffset
             /\ minFrameSize' = Lines!Smaller(Len(adapter) + 1, Lines!Lookahead)
             /\ stage' = stage /\ adapter' = adapter /\ records' = records
    BY <1>1, <1>8, FrameAwaited DEF found
  <1> QED BY <1>3, <1>4, <1>5, <1>6, <1>7, <1>8

\* The chain function returns: nothing is left to do with what there is.
LEMMA ChainEnded ==
  ASSUME FramingInv, Lines!ChainEnds
  PROVE  FramingInv'
  <1> DEFINE D == framing.delimiter
  <1>1. /\ stage = "chaining" /\ ~(Len(adapter) >= minFrameSize) /\ stage' = "idle"
        /\ framing' = framing /\ text' = text /\ sent' = sent /\ encoded' = encoded
        /\ adapter' = adapter /\ records' = records /\ scanOffset' = scanOffset /\ minFrameSize' = minFrameSize
    BY DEF Lines!ChainEnds, Lines!Handing, Lines!streamVars
  <1>2. StreamInv
    BY <1>1 DEF FramingInv
  <1>3. /\ adapter \in Texts /\ records \in Lists /\ Short(framing, records)
        /\ Pushed(framing, text, adapter, records) /\ Scanned(D, adapter, scanOffset)
        /\ minFrameSize \in Nat /\ minFrameSize <= Len(adapter) + 1
        /\ minFrameSize = Len(adapter) + 1 => Waits(framing, adapter)
    BY <1>1, <1>2 DEF StreamInv
  <1>4. Len(adapter) \in Nat
    BY <1>3, LenProperties DEF Texts
  <1>5. minFrameSize = Len(adapter) + 1
    BY <1>1, <1>3, <1>4
  <1> QED BY <1>1, <1>3, <1>5, FramingFrom

\* It begins to drain what it has.
LEMMA DrainBegun ==
  ASSUME FramingInv, Lines!Drain
  PROVE  FramingInv'
  <1>1. /\ stage = "idle" /\ stage' = "draining"
        /\ framing' = framing /\ text' = text /\ sent' = sent /\ encoded' = encoded
        /\ adapter' = adapter /\ records' = records /\ scanOffset' = scanOffset /\ minFrameSize' = minFrameSize
    BY DEF Lines!Drain, Lines!streamVars
  <1>2. StreamInv
    BY <1>1 DEF FramingInv
  <1>3. /\ adapter \in Texts /\ records \in Lists /\ Short(framing, records)
        /\ Pushed(framing, text, adapter, records) /\ Scanned(framing.delimiter, adapter, scanOffset)
        /\ minFrameSize \in Nat /\ minFrameSize <= Len(adapter) + 1
    BY <1>1, <1>2 DEF StreamInv
  <1> QED BY <1>1, <1>3, FramingFrom

\* It has drained all of it, at the end of the stream.
LEMMA StreamEnded ==
  ASSUME FramingInv, Lines!Drained, ~segment
  PROVE  FramingInv'
  <1> DEFINE D == framing.delimiter
             e == <<>>
  <1>1. /\ stage = "draining" /\ stage' = "eos" /\ adapter = e
        /\ framing' = framing /\ text' = text /\ sent' = sent /\ encoded' = encoded
        /\ adapter' = adapter /\ records' = records
    BY DEF Lines!Drained, Lines!streamVars
  <1>2. StreamInv
    BY <1>1 DEF FramingInv
  <1>3. /\ D # e /\ text \in Texts /\ adapter \in Texts /\ records \in Lists /\ Short(framing, records)
        /\ Pushed(framing, text, adapter, records) \/ Tailed(framing, text, adapter, records)
    BY <1>1, <1>2 DEF StreamInv
  <1>4. D \in Texts /\ MatchesOf(D, e, 0) = {}
    BY <1>3, FramingTypes, NoneInNothing
  <1>5. CASE Pushed(framing, text, adapter, records)
    <2>1. AllCut(framing, text, adapter, records)
      BY <1>1, <1>3, <1>4, <1>5, LastLine
    <2>2. PICK ls \in Lists : /\ CutOf(D, text)[0] = [lines |-> ls, rest |-> adapter]
                              /\ records = KeptOf(framing.omitEmpty, ls)
      BY <2>1 DEF AllCut
    <2>3. records \o e = records
      BY <1>3, ConcatEmptySeq DEF Lists
    <2>4. Ended(framing, text, records)
      <3> DEFINE x == CutOf(D, text)[0]
      <3>1. x.lines = ls /\ x.rest = e
        BY <1>1, <2>2
      <3> HIDE DEF x
      <3>2. records = KeptOf(framing.omitEmpty, x.lines) \o (IF x.rest = <<>> THEN <<>> ELSE <<x.rest>>)
        BY <2>2, <2>3, <3>1
      <3> QED BY <3>2 DEF Ended, x
    <2> QED BY <1>1, <1>3, <2>4, FramingFrom
  <1>6. CASE Tailed(framing, text, adapter, records)
    <2>1. PICK ls \in Lists, x \in Texts :
            /\ x # e /\ CutOf(D, text)[0] = [lines |-> ls, rest |-> x]
            /\ records = Append(KeptOf(framing.omitEmpty, ls), x)
      BY <1>6 DEF Tailed
    <2>2. KeptOf(framing.omitEmpty, ls) \in Lists
      BY KeptConcat
    <2>3. records = KeptOf(framing.omitEmpty, ls) \o <<x>>
      BY <2>1, <2>2, AppendIsConcat DEF Lists
    <2>4. Ended(framing, text, records)
      BY <2>1, <2>3 DEF Ended
    <2> QED BY <1>1, <1>3, <2>4, FramingFrom
  <1> QED BY <1>3, <1>5, <1>6

\* It has drained all of it, at a new segment.
LEMMA SegmentBegins ==
  ASSUME FramingInv, Lines!Drained, segment
  PROVE  FramingInv'
  <1> DEFINE D == framing.delimiter
             e == <<>>
  <1>1. /\ stage = "draining" /\ stage' = "idle" /\ adapter = e /\ framing' = framing
        /\ text' = e /\ sent' = e /\ encoded' = TRUE /\ records' = e
        /\ adapter' = e /\ scanOffset' = scanOffset /\ minFrameSize' = minFrameSize
    BY DEF Lines!Drained, Lines!streamVars
  <1>2. StreamInv
    BY <1>1 DEF FramingInv
  <1>3. /\ D # <<>> /\ Scanned(D, e, scanOffset) /\ minFrameSize \in Nat /\ minFrameSize <= Len(e) + 1
    BY <1>1, <1>2 DEF StreamInv
  <1>4. D \in Texts /\ framing.max \in Nat /\ Len(D) \in Nat \ {0}
    BY <1>3, FramingTypes, EmptySeq DEF Texts
  <1>5. e \in Texts /\ e \in Lists /\ Len(e) = 0 /\ DOMAIN e = {} /\ MatchesOf(D, e, 0) = {}
    BY <1>3, <1>4, NoneInNothing, EmptySeq DEF Lists
  <1>6. Cutting(D, e, e, 0) /\ Cutting(D, e, e, Len(e)) /\ From(e, 0) = e
    BY <1>3, <1>4, <1>5, CuttingStarts, FromEnd
  <1>7. KeptOf(framing.omitEmpty, e) = e
    BY <1>5, KeptOfOne
  <1> HIDE DEF e, D
  <1>8. Pushed(framing, e, e, e)
    BY <1>6, <1>7 DEF Pushed, D
  <1>9. Waits(framing, e) /\ Short(framing, e) /\ RoundInv(framing, e, e, TRUE)
    BY <1>4, <1>5, <1>6 DEF Waits, Short, RoundInv, D
  <1>10. StreamInv'
    <2>1. framing'.delimiter # <<>> /\ stage' = "idle" /\ framing' = framing
      BY <1>1, <1>3 DEF D
    <2>2. text' \in Texts /\ adapter' \in Texts /\ records' \in Lists /\ sent' \in Lists
      BY <1>1, <1>5
    <2>3. Short(framing', records') /\ RoundInv(framing', text', sent', encoded')
      BY <1>1, <1>9
    <2>4. Pushed(framing', text', adapter', records') /\ Waits(framing', adapter')
      BY <1>1, <1>8, <1>9
    <2>5. Scanned(framing'.delimiter, adapter', scanOffset')
      BY <1>1, <1>3 DEF D
    <2>6. minFrameSize' \in Nat /\ minFrameSize' <= Len(adapter') + 1
      BY <1>1, <1>3
    <2> QED BY <2>1, <2>2, <2>3, <2>4, <2>5, <2>6 DEF StreamInv
  <1> QED BY <1>1, <1>10 DEF FramingInv

\* A new stream: the search starts over, in what there is.
LEMMA StreamRestarted ==
  ASSUME FramingInv, Lines!StreamStart
  PROVE  FramingInv'
  <1>1. /\ stage = "idle" /\ stage' = "idle" /\ scanOffset' = 0 /\ minFrameSize' = 1
        /\ framing' = framing /\ text' = text /\ sent' = sent /\ encoded' = encoded
        /\ adapter' = adapter /\ records' = records
    BY DEF Lines!StreamStart
  <1>2. StreamInv
    BY <1>1 DEF FramingInv
  <1>3. /\ adapter \in Texts /\ records \in Lists /\ Short(framing, records)
        /\ Pushed(framing, text, adapter, records) /\ Waits(framing, adapter)
    BY <1>1, <1>2 DEF StreamInv
  <1>4. Len(adapter) \in Nat
    BY <1>3, LenProperties DEF Texts
  <1>5. Scanned(framing.delimiter, adapter, 0) /\ 1 \in Nat /\ 1 <= Len(adapter) + 1
    BY <1>4 DEF Scanned
  <1>6. /\ Scanned(framing.delimiter, adapter', scanOffset') /\ minFrameSize' \in Nat
        /\ minFrameSize' <= Len(adapter') + 1
    BY <1>1, <1>5
  <1> QED BY <1>1, <1>3, <1>6, FramingFrom

\* Every step keeps the invariant.
LEMMA FramingSteps ==
  ASSUME FramingInv, Lines!Next
  PROVE  FramingInv'
  <1>1. ASSUME Lines!Drained PROVE FramingInv'
    BY <1>1, StreamEnded, SegmentBegins
  <1> QED BY <1>1, StreamBegins, StreamUnknown, StreamReceived, RecordEncoded, FrameHandled,
             ChainEnded, DrainBegun, StreamRestarted DEF Lines!Next

\* A step of another part keeps the invariant.
LEMMA FramingKept ==
  ASSUME FramingInv, UNCHANGED Lines!vars
  PROVE  FramingInv'
  <1>1. /\ framing' = framing /\ stage' = stage /\ text' = text /\ sent' = sent /\ encoded' = encoded
        /\ adapter' = adapter /\ records' = records /\ scanOffset' = scanOffset /\ minFrameSize' = minFrameSize
    BY DEF Lines!vars, Lines!streamVars
  <1>2. StreamInv' <=> StreamInv
    BY <1>1 DEF StreamInv
  <1> QED BY <1>1, <1>2 DEF FramingInv

\* The invariant holds of the first state: the settings have their defaults.
LEMMA FramingStarts ==
  ASSUME Lines!Init
  PROVE  FramingInv
  <1> DEFINE P(d) == d \in Delimiters /\ Len(d) = 1
             Q(n) == n \in RecordSizes
             d0 == CHOOSE d \in Delimiters : Len(d) = 1
             n0 == CHOOSE n \in RecordSizes : TRUE
  <1>1. (\E d : P(d)) /\ (\E n : Q(n))
    BY DataPathsAssumption DEF DataPathsAssumption, Lines!FramingAssumption
  <1>2. d0 = CHOOSE d : P(d)
    OBVIOUS
  <1>3. n0 = CHOOSE n : Q(n)
    OBVIOUS
  <1> HIDE DEF P, Q
  <1>4. P(CHOOSE d : P(d)) /\ Q(CHOOSE n : Q(n))
    BY <1>1
  <1>5. d0 \in Delimiters /\ n0 \in RecordSizes
    BY <1>2, <1>3, <1>4 DEF P, Q
  <1>6. framing = [delimiter |-> d0, max |-> n0, omitEmpty |-> FALSE] /\ stage = "ready"
    BY DEF Lines!Init
  <1> HIDE DEF d0, n0
  <1> QED BY <1>5, <1>6 DEF FramingInv

\* In every behaviour of the sum, for any bytes, delimiters and bounds, and however
\* the text is cut into buffers: the records that lineparse pushes are those of the
\* whole text cut at once, all that are complete whenever it waits, the rest too at
\* EOS; it fails only at a record longer than max-record-size, which it never pushes;
\* and what lineenc took comes back (handle_frame, start, drain and flush).
THEOREM FramingStaysConsistent ==
  Spec => []FramingConsistent
  <1> DEFINE Inv == part = "lines" => FramingInv
  <1>1. Init => Inv
    BY FramingStarts DEF Init
  <1>2. Inv /\ [Next]_dataVars => Inv'
    <2> SUFFICES ASSUME Inv, [Next]_dataVars, part' = "lines" PROVE FramingInv'
      OBVIOUS
    <2>1. CASE OnlyOf("lines") /\ Lines!Next
      BY <2>1, FramingSteps DEF OnlyOf
    <2>2. CASE UNCHANGED dataVars
      <3>1. part' = part /\ UNCHANGED Lines!vars
        BY <2>2 DEF dataVars, lineVars, Lines!vars, Lines!streamVars
      <3> QED BY <3>1, FramingKept
    <2>3. CASE OnlyOf("boxes") \/ OnlyOf("engines") \/ OnlyOf("packing") \/ OnlyOf("meta")
      BY <2>3 DEF OnlyOf
    <2> QED BY <2>1, <2>2, <2>3 DEF Next
  <1>3. Inv => FramingConsistent
    BY FramingFollows DEF FramingConsistent
  <1> QED BY <1>1, <1>2, <1>3, PTL DEF Spec
=============================================================================
