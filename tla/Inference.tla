----------------------------- MODULE Inference -----------------------------
(***************************************************************************)
(* tractinference and ortinference over the shared helpers: the model-info *)
(* file is read and checked, the engine binds it to the model by name, the *)
(* caps carry the tensor group it produces, and each buffer is run: a      *)
(* frame as the one image input, or the tensors that upstream attached, by *)
(* id. The model and the runtime are external. A dimension of a model or a *)
(* declaration is positive when fixed. Wildcard is the -1 of a declaration *)
(* and a dynamic axis of a model, where a negative one is a symbol.        *)
(***************************************************************************)
EXTENDS Integers, Sequences, FiniteSets, SequencesExt

CONSTANTS
  Models,       \* [inputs, outputs]: sequences of [name, type, dims]
  Infos,        \* [inputs, outputs, ranges]: sequences of [name, id, type, dims]
  Tensors,      \* tensors of a buffer: [id, type, dims, whole]
  MaxTensors,   \* bound on the tensors of a buffer
  Sizes,        \* sizes of dynamic axes at run time
  MaxFrames     \* bound on the buffers of a run

VARIABLES
  props,    \* the settings: [engine, mode, model, info, provider, strict]
  plan,     \* Unloaded or what start() loads: [engine, mode, model, info, slots, outputs]
  video,    \* the negotiated [width, height], NoVideo before
  frame,    \* the last buffer: [buffer, outcome, fed, attached]
  frames

vars == <<props, plan, video, frame, frames>>

\* Names tell the tensors of a model apart, and the sections of a model-info.
NamedApart(entries) ==
  /\ entries \in Seq(ToSet(entries)) /\ \A e \in ToSet(entries) : e.dims \in Seq(Int)
  /\ \A i, j \in DOMAIN entries : entries[i].name = entries[j].name => i = j
ModelsAssumption ==
  /\ Models # {} /\ \A model \in Models : NamedApart(model.inputs) /\ NamedApart(model.outputs)
  /\ Infos # {} /\ \A info \in Infos :
       /\ NamedApart(info.inputs) /\ NamedApart(info.outputs)
       /\ \A e \in ToSet(info.outputs) : DOMAIN e = {"name", "id", "type", "dims"}
  /\ \A tensor \in Tensors : tensor.dims \in Seq(Int)
  /\ MaxTensors \in Nat

Wildcard == 0
Unloaded == [engine |-> "none"]
NoVideo == [width |-> 0, height |-> 0]
NoFrame == [buffer |-> <<>>, outcome |-> "none", fed |-> <<>>, attached |-> <<>>]

Init ==
  /\ props = [engine |-> "tract", mode |-> "video", provider |-> "cpu", strict |-> FALSE,
              model |-> CHOOSE m \in Models : TRUE, info |-> CHOOSE i \in Infos : TRUE]
  /\ plan = Unloaded /\ video = NoVideo /\ frame = NoFrame /\ frames = 0

\* The properties of one element or the other, in READY.
SetProperty(engine) ==
  /\ plan = Unloaded
  /\ \E model \in Models, info \in Infos, mode \in {"video", "tensor"},
        provider \in {"cpu", "accelerator"}, strict \in BOOLEAN :
       props' = [engine |-> engine, mode |-> mode, model |-> model, info |-> info,
                 provider |-> provider, strict |-> strict /\ engine = "ort"]
  /\ UNCHANGED <<plan, video, frame, frames>>
SetTract == SetProperty("tract")
SetOrt == SetProperty("ort")
-----------------------------------------------------------------------------
(* The model-info file: one section to a tensor, so names are unique. *)

DimsMatch(model, declared) ==
  /\ Len(model) = Len(declared)
  /\ \A i \in DOMAIN model : declared[i] = Wildcard \/ model[i] <= 0 \/ model[i] = declared[i]

ValidateDims(actual, declared) ==
  /\ Len(actual) = Len(declared) /\ actual # <<>>
  /\ \A i \in DOMAIN actual : actual[i] > 0 /\ declared[i] \in {Wildcard, actual[i]}

\* image_layout: unit axes, then 3,H,W or H,W,3, whichever is unambiguous.
Layout(dims) ==
  LET n == Len(dims)
      At(i) == dims[n - 3 + i]
  IN IF n < 4 \/ \E i \in 1..(n - 3) : dims[i] # 1 THEN {}
     ELSE IF At(1) = 3 /\ At(3) # 3 THEN {[first |-> TRUE, height |-> At(2), width |-> At(3)]}
     ELSE IF At(3) = 3 /\ At(1) # 3 THEN {[first |-> FALSE, height |-> At(1), width |-> At(2)]}
     ELSE {}

Wild(declarations) == \E i \in DOMAIN declarations : Wildcard \in ToSet(declarations[i].dims)

\* parse_model: ids are unique over inputs and outputs, and there is an output.
Parses(info) ==
  LET all == info.inputs \o info.outputs
  IN /\ info.outputs # <<>>
     /\ \A i, j \in DOMAIN all : all[i].id = all[j].id => i = j

ParsesImage(info) ==
  /\ Parses(info) /\ ~Wild(info.inputs \o info.outputs)
  /\ Len(info.inputs) = 1
  /\ info.inputs[1].type \in {"float32", "uint8"}
  /\ Layout(info.inputs[1].dims) # {} /\ info.ranges \in {1, 3}

ParsesTensors(info) == Parses(info) /\ info.inputs # <<>>

Readable == IF props.mode = "video" THEN ParsesImage(props.info) ELSE ParsesTensors(props.info)
-----------------------------------------------------------------------------
(* What the engines bind. *)

Named(entries, name) == {i \in DOMAIN entries : entries[i].name = name}
Fits(entry, declaration) == entry.type = declaration.type /\ DimsMatch(entry.dims, declaration.dims)

\* Every input of the model is declared, every declared input is the model's,
\* and the outputs are among the model's: input_slots, output_outlets and
\* validate_session.
Binds(model, info) ==
  /\ \A i \in DOMAIN model.inputs : \E j \in Named(info.inputs, model.inputs[i].name) :
       Fits(model.inputs[i], info.inputs[j])
  /\ \A j \in DOMAIN info.inputs : Named(model.inputs, info.inputs[j].name) # {}
  /\ \A j \in DOMAIN info.outputs : \E i \in Named(model.outputs, info.outputs[j].name) :
       Fits(model.outputs[i], info.outputs[j])

\* Mutant: the inputs in the order they are declared.
SlotsByPosition(model, info) == [i \in DOMAIN model.inputs |-> i]

\* Tract: for each input of the model, the place of its tensor in the
\* model-info's order; the first of that name.
Slots(model, info) ==
  [i \in DOMAIN model.inputs |->
     CHOOSE j \in Named(info.inputs, model.inputs[i].name) :
       \A k \in Named(info.inputs, model.inputs[i].name) : j <= k]

\* ORT: a wildcard of an output is bound to the model's axis, fixed or not.
Bound(axis, declared) == IF declared = Wildcard /\ axis > 0 THEN axis ELSE declared
Constrained(model, info) ==
  [j \in DOMAIN info.outputs |->
     LET output == model.outputs[CHOOSE i \in Named(model.outputs, info.outputs[j].name) : TRUE]
     IN [info.outputs[j] EXCEPT !.dims = [k \in DOMAIN @ |-> Bound(output.dims[k], @[k])]]]

Load(outputs, slots) ==
  plan' = [engine |-> props.engine, mode |-> props.mode, model |-> props.model,
           info |-> props.info, slots |-> slots, outputs |-> outputs]

\* start() of either element; one that is refused leaves it unloaded.
StartTract ==
  /\ plan = Unloaded /\ props.engine = "tract" /\ props.provider = "cpu"
  /\ Readable /\ Binds(props.model, props.info)
  /\ ~Wild(props.info.inputs \o props.info.outputs)
  /\ Load(props.info.outputs, Slots(props.model, props.info))
  /\ UNCHANGED <<props, video, frame, frames>>

StartOrt ==
  /\ plan = Unloaded /\ props.engine = "ort"
  /\ props.strict => props.provider # "cpu"
  /\ Readable /\ Binds(props.model, props.info)
  /\ Load(Constrained(props.model, props.info), Slots(props.model, props.info))
  /\ UNCHANGED <<props, video, frame, frames>>

\* stop() drops the plan and the video info with it.
Stop ==
  /\ plan # Unloaded
  /\ plan' = Unloaded /\ video' = NoVideo /\ frame' = NoFrame
  /\ UNCHANGED <<props, frames>>
-----------------------------------------------------------------------------
(* Caps: [format, width, height, groups], a group being the tensors of one *)
(* producer; Own is the element's.                                         *)

Own == "own"
Formats == {"RGB", "BGRA"}
Structures == [format: Formats \cup {"NV12"}, width: Sizes, height: Sizes,
               groups: SUBSET {Own, "upstream", "decoder"}]
Image == CHOOSE layout \in Layout(plan.info.inputs[1].dims) : TRUE

\* transform_caps() of one structure; none for a format that is unsupported.
TransformCaps(direction, caps) ==
  {[caps EXCEPT
      !.width = IF plan.mode = "video" THEN Image.width ELSE @,
      !.height = IF plan.mode = "video" THEN Image.height ELSE @,
      !.groups = IF direction = "src" THEN {} ELSE IF Own \in @ THEN {Own} ELSE @ \cup {Own}] :
     format \in {f \in {caps.format} : plan.mode = "video" => f \in Formats}}

\* fixate_caps(): candidates with other groups than this transform produces
\* came from a mixture of peers, and go.
FixateCaps(caps, candidates) ==
  {c \in candidates : \E expected \in TransformCaps("sink", caps) : c.groups = expected.groups}

SetCaps ==
  /\ plan # Unloaded /\ plan.mode = "video"
  /\ \E caps \in Structures :
       /\ caps.format \in Formats /\ caps.width = Image.width /\ caps.height = Image.height
       /\ video' = [width |-> caps.width, height |-> caps.height]
  /\ UNCHANGED <<props, plan, frame, frames>>
-----------------------------------------------------------------------------
(* A buffer. *)

Found(buffer, id) == {p \in DOMAIN buffer : buffer[p].id = id}
Inputs == plan.info.inputs

Ambiguous(buffer) == \E j \in DOMAIN Inputs : Cardinality(Found(buffer, Inputs[j].id)) > 1
Without(buffer) == {j \in DOMAIN Inputs : Found(buffer, Inputs[j].id) = {}}

\* collect_inputs: the places in the buffer of the inputs, in model-info order.
Collected(buffer) == [j \in DOMAIN Inputs |-> CHOOSE p \in Found(buffer, Inputs[j].id) : TRUE]
Matches(tensor, declaration) ==
  tensor.type = declaration.type /\ tensor.whole /\ ValidateDims(tensor.dims, declaration.dims)

\* What the model's inputs receive: Tract takes the tensors out of their
\* slots, ORT names them.
Fed(collected) == [i \in DOMAIN plan.model.inputs |-> collected[plan.slots[i]]]

\* ORT checks the axes of its inputs and that a symbol has one size, of a frame
\* as of tensors.
SymbolsAgree(buffer, fed) ==
  LET axes == UNION {{<<plan.model.inputs[i].dims[k], buffer[fed[i]].dims[k]>> :
                        k \in DOMAIN buffer[fed[i]].dims} : i \in DOMAIN fed}
  IN /\ \A axis \in axes : axis[1] > 0 => axis[1] = axis[2]
     /\ \A a, b \in axes : a[1] < 0 /\ a[1] = b[1] => a[2] = b[2]

\* The runtime returns outputs of the model's shape, dynamic axes of any size.
Returned(output) ==
  {dims \in [DOMAIN output.dims -> Sizes \cup ToSet(output.dims)] :
     \A k \in DOMAIN dims : dims[k] > 0 /\ (output.dims[k] > 0 => dims[k] = output.dims[k])}
Results ==
  {[j \in DOMAIN plan.outputs |-> [id |-> plan.outputs[j].id, dims |-> dims[j]]] :
     dims \in {d \in [DOMAIN plan.outputs -> UNION {Returned(plan.model.outputs[i]) : i \in DOMAIN plan.model.outputs}] :
                 \A j \in DOMAIN d : \E i \in Named(plan.model.outputs, plan.outputs[j].name) :
                   d[j] \in Returned(plan.model.outputs[i])}}
Valid(result) == \A j \in DOMAIN result : ValidateDims(result[j].dims, plan.outputs[j].dims)

Answer(buffer, outcome, fed, attached) ==
  frame' = [buffer |-> buffer, outcome |-> outcome, fed |-> fed, attached |-> attached]

Run(buffer, fed) ==
  \/ Answer(buffer, "error", <<>>, <<>>)
  \/ /\ plan.engine = "ort" => SymbolsAgree(buffer, fed)
     /\ \E result \in Results :
          IF Valid(result) THEN Answer(buffer, "ran", fed, result)
          ELSE Answer(buffer, "error", fed, <<>>)

\* transform_ip() of a buffer with tensors.
TransformTensors ==
  /\ plan # Unloaded /\ plan.mode = "tensor" /\ frames < MaxFrames
  /\ \E buffer \in BoundedSeq(Tensors, MaxTensors) :
       IF Ambiguous(buffer) THEN Answer(buffer, "error", <<>>, <<>>)
       ELSE IF Without(buffer) = DOMAIN Inputs THEN Answer(buffer, "pass", <<>>, <<>>)
       ELSE IF Without(buffer) # {} THEN Answer(buffer, "error", <<>>, <<>>)
       ELSE LET collected == Collected(buffer)
            IN IF \E j \in DOMAIN Inputs : ~Matches(buffer[collected[j]], Inputs[j])
               THEN Answer(buffer, "error", <<>>, <<>>)
               ELSE Run(buffer, Fed(collected))
  /\ frames' = frames + 1
  /\ UNCHANGED <<props, plan, video>>

\* transform_ip() of a video frame: preprocess() packs it as the one input,
\* once caps are negotiated and the frame is as large as the model's image.
TransformVideo ==
  /\ plan # Unloaded /\ plan.mode = "video" /\ frames < MaxFrames
  /\ IF video = NoVideo THEN Answer(<<>>, "error", <<>>, <<>>)
     ELSE Run(<<[id |-> Inputs[1].id, type |-> Inputs[1].type, dims |-> Inputs[1].dims, whole |-> TRUE]>>, <<1>>)
  /\ frames' = frames + 1
  /\ UNCHANGED <<props, plan, video>>

Next ==
  \/ SetTract \/ SetOrt \/ StartTract \/ StartOrt \/ Stop \/ SetCaps
  \/ TransformTensors \/ TransformVideo

Spec == Init /\ [][Next]_vars
-----------------------------------------------------------------------------
\* A plan binds each input of the model to one declaration and each
\* declaration to one input, and the frame size is the model's.
BindingExact ==
  plan # Unloaded =>
    /\ Len(plan.slots) = Len(Inputs) /\ ToSet(plan.slots) = DOMAIN Inputs
    /\ video # NoVideo => plan.mode = "video" /\ video = [width |-> Image.width, height |-> Image.height]

\* A run gave each input of the model the one tensor of the buffer that its
\* declaration names by id, of a shape that the model takes, and under ORT one
\* size per symbol, whatever the orders of the model, the model-info and the
\* buffer.
InputsByName ==
  frame.outcome = "ran" =>
    \A i \in DOMAIN plan.model.inputs :
      LET given == frame.buffer[frame.fed[i]]
      IN /\ \E j \in Named(Inputs, plan.model.inputs[i].name) :
              /\ Inputs[j].id = given.id
              /\ Found(frame.buffer, given.id) = {frame.fed[i]}
         /\ given.whole /\ given.type = plan.model.inputs[i].type
         /\ Len(given.dims) = Len(plan.model.inputs[i].dims)
         /\ \A k \in DOMAIN given.dims :
              plan.model.inputs[i].dims[k] > 0 => plan.model.inputs[i].dims[k] = given.dims[k]
         /\ plan.engine = "ort" => SymbolsAgree(frame.buffer, frame.fed)

\* What a run attaches is what the model-info declares, in its order, each of
\* a concrete shape that both the declaration and the model allow; all inputs
\* or none are taken, and nothing is attached otherwise.
OutputsDeclared ==
  /\ frame.outcome = "ran" =>
       /\ Len(frame.attached) = Len(plan.info.outputs)
       /\ \A j \in DOMAIN frame.attached :
            /\ frame.attached[j].id = plan.info.outputs[j].id
            /\ ValidateDims(frame.attached[j].dims, plan.info.outputs[j].dims)
  /\ frame.outcome = "pass" =>
       \A j \in DOMAIN Inputs : Found(frame.buffer, Inputs[j].id) = {}
  /\ frame.outcome # "ran" => frame.attached = <<>>

\* Downstream always learns of the element's own tensors at the model's size,
\* upstream is never asked for them, and no candidate that survives fixation
\* carries a group that this element neither received nor produces.
CapsHonest ==
  plan # Unloaded /\ frames = 0 =>
    \A caps \in Structures :
      /\ \A c \in TransformCaps("sink", caps) :
           /\ Own \in c.groups
           /\ TransformCaps("src", c) # {} /\ \A back \in TransformCaps("src", c) : back.groups = {}
           /\ \A again \in TransformCaps("sink", c) : again.groups = {Own}
           /\ plan.mode = "video" => c.width = Image.width /\ c.height = Image.height
      /\ \A c \in FixateCaps(caps, Structures) : c.groups \subseteq caps.groups \cup {Own}

InferenceConsistent == BindingExact /\ InputsByName /\ OutputsDeclared /\ CapsHonest
=============================================================================
