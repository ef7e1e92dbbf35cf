------------------------------- MODULE NcnnNet -------------------------------
(***************************************************************************)
(* A network of ncnn (ncnn/net.cpp, net.h, layer.cpp) as the detector uses *)
(* it: the structure and the weights are loaded, an extractor gets the     *)
(* input and is asked for one blob after the other.  What a layer computes *)
(* is in Layers; here a value is the list of the layers it went through.   *)
(* Mats share counted buffers, and in light mode a layer may write into    *)
(* the buffer it was given: what can go wrong is who else still looks at   *)
(* that buffer, and whether a blob that was thrown away is needed again.   *)
(***************************************************************************)
EXTENDS Integers, Sequences, FiniteSets, SequencesExt

CONSTANTS
    Files,      \* network files: [magic, lines, weights], see below
    MaxBuf      \* buffers are numbered 1 .. MaxBuf

(* A line of a file is [type, name, bottoms, tops], with names of blobs;     *)
(* its parameters are the subject of ParamDict.  weights is the model file:  *)
(* the names of the layers whose weights it holds, in order.                 *)

VARIABLES
    file,       \* the file in use
    form,       \* "text", "bin" or "mem"; "none" before it is loaded, "gone" once
                \* the process has died
    net,        \* [ret, blobs, layers]: what Net holds and load_param returned
    trained,    \* what load_model returned, 1 before it ran
    ext,        \* [light, mats]: the Extractor
    heap,       \* the value in each buffer
    feats       \* the caller's Mats: blob name -> buffer, 0 for an empty one

netVars == <<file, form, net, trained, ext, heap, feats>>

-----------------------------------------------------------------------------
(* The registry of layer.cpp *)

LayerRegistry == <<"Convolution", "InnerProduct", "Pooling", "PReLU", "Softmax",
                   "Input", "Split", "Dropout">>

LayerToIndex(type) ==
    IF \E i \in DOMAIN LayerRegistry : LayerRegistry[i] = type
    THEN CHOOSE i \in DOMAIN LayerRegistry : LayerRegistry[i] = type ELSE 0

\* create_layer, and the registry of custom layers, which nobody fills.
CanCreate(index) == index \in DOMAIN LayerRegistry

SupportInplace(type) == type \in {"PReLU", "Softmax", "Input", "Dropout"}

HasWeights(type) == type \in {"Convolution", "InnerProduct", "PReLU"}

\* Which part of the model file is layer i's: the next after the layers before.
Turn(layers, i) == Cardinality({j \in 1 .. i : HasWeights(layers[j].type)})

(* Files as converters write them: the input comes first, every other layer  *)
(* reads one blob that an earlier line made, what several read has gone      *)
(* through a Split.  The weights are in the order of the layers.  The magic  *)
(* number may be wrong, a type unknown, and the weights may break off; but   *)
(* the parameters can be read.  A line of text whose parameters cannot is    *)
(* passed over after its blobs are entered (net.cpp:182-193): the lines      *)
(* behind it move up, producers name the wrong layers, and the slot that     *)
(* stays null kills the process in load_model unless it stops before.        *)
WellFormed(f) ==
    LET lines == f.lines
        Others == DOMAIN lines \ {1}
    IN  /\ f.magic \in BOOLEAN /\ f.weights \in Seq(STRING)
        /\ lines \in Seq([type : STRING, name : STRING,
                          bottoms : Seq(STRING), tops : Seq(STRING)])
        /\ lines # <<>> /\ lines[1].type = "Input"
        /\ lines[1].bottoms = <<>> /\ lines[1].tops = <<"data">>
        /\ \A i \in Others :
             /\ lines[i].type # "Input"
             /\ \E j \in 1 .. i - 1 : \E k \in DOMAIN lines[j].tops :
                  lines[i].bottoms = <<lines[j].tops[k]>>
        /\ \A i, j \in Others : lines[i].bottoms = lines[j].bottoms => i = j
        /\ \A i, j \in DOMAIN lines :
           \A k \in DOMAIN lines[i].tops, l \in DOMAIN lines[j].tops :
             lines[i].tops[k] = lines[j].tops[l] => i = j /\ k = l
        /\ \A i \in DOMAIN lines :
             HasWeights(lines[i].type) /\ Turn(lines, i) <= Len(f.weights) =>
               f.weights[Turn(lines, i)] = lines[i].name

\* The blobs of a file in the order of the tops that make them: the numbers
\* that the converter writes into the binary form.
BlobIds(f) == FlattenSeq([i \in DOMAIN f.lines |-> f.lines[i].tops])

ASSUME FileAssumption == \A f \in Files : WellFormed(f)
ASSUME MaxBufAssumption ==
    MaxBuf \in Nat /\ \A f \in Files : MaxBuf > 2 * Len(BlobIds(f)) + 1

-----------------------------------------------------------------------------
(* load_param.  Blobs and layers are numbered from 1; producer 0 is none.   *)

NoNet(ret) == [ret |-> ret, blobs |-> <<>>, layers |-> <<>>]

FindBlobIndexByName(blobs, name) ==
    IF \E i \in DOMAIN blobs : blobs[i].name = name
    THEN CHOOSE i \in DOMAIN blobs :
           blobs[i].name = name /\ \A j \in 1 .. i - 1 : blobs[j].name # name
    ELSE 0

\* A bottom that is not known yet becomes a blob without a producer.
AddBottom(blobs, name) ==
    IF FindBlobIndexByName(blobs, name) # 0 THEN blobs
    ELSE Append(blobs, [name |-> name, producer |-> 0])

LayerOf(line, bottoms, tops) ==
    [type |-> line.type, name |-> line.name, bottoms |-> bottoms, tops |-> tops,
     weights |-> "none"]

\* One line of the text.
TextLine(n, line) ==
    LET index == Len(n.layers) + 1
        grown[k \in 0 .. Len(line.bottoms)] ==
          IF k = 0 THEN n.blobs ELSE AddBottom(grown[k - 1], line.bottoms[k])
        known == grown[Len(line.bottoms)]
        made == known \o [i \in DOMAIN line.tops |->
                            [name |-> line.tops[i], producer |-> index]]
        bottoms == [i \in DOMAIN line.bottoms |->
                      FindBlobIndexByName(known, line.bottoms[i])]
        tops == [i \in DOMAIN line.tops |-> Len(known) + i]
    IN  IF n.ret # 0 THEN n
        ELSE IF ~CanCreate(LayerToIndex(line.type)) THEN NoNet(-1)
        ELSE [n EXCEPT !.blobs = made,
                       !.layers = Append(@, LayerOf(line, bottoms, tops))]

LoadText(f) ==
    LET after[i \in 0 .. Len(f.lines)] ==
          IF i = 0 THEN NoNet(0) ELSE TextLine(after[i - 1], f.lines[i])
    IN  IF ~f.magic THEN NoNet(-1) ELSE after[Len(f.lines)]

IdOf(f, name) == IF \E i \in DOMAIN BlobIds(f) : BlobIds(f)[i] = name
                 THEN CHOOSE i \in DOMAIN BlobIds(f) : BlobIds(f)[i] = name ELSE 0

\* One record of the binary form, with its numbers; names are not in it.
BinLine(f, n, i) ==
    LET line == f.lines[i]
        bottoms == [k \in DOMAIN line.bottoms |-> IdOf(f, line.bottoms[k])]
        tops == [k \in DOMAIN line.tops |-> IdOf(f, line.tops[k])]
    IN  IF n.ret # 0 THEN n
        ELSE IF ~CanCreate(LayerToIndex(line.type)) THEN NoNet(-1)
        ELSE [n EXCEPT
               !.blobs = [b \in DOMAIN @ |-> IF \E k \in DOMAIN tops : tops[k] = b
                                             THEN [@[b] EXCEPT !.producer = i] ELSE @[b]],
               !.layers[i] = LayerOf(line, bottoms, tops)]

LoadBin(f) ==
    LET sized == [NoNet(0) EXCEPT
                    !.blobs = [b \in DOMAIN BlobIds(f) |-> [name |-> "", producer |-> 0]],
                    !.layers = [i \in DOMAIN f.lines |-> LayerOf(f.lines[i], <<>>, <<>>)]]
        after[i \in 0 .. Len(f.lines)] ==
          IF i = 0 THEN sized ELSE BinLine(f, after[i - 1], i)
    IN  IF ~f.magic THEN NoNet(-1) ELSE after[Len(f.lines)]

\* From memory: the bytes consumed are returned, and 0 tells the failure.
LoadMem(f) == LoadBin(f)

-----------------------------------------------------------------------------
(* load_model: each layer takes its part of the stream in its turn, up to   *)
(* the first that does not find it all.  That one has room for its weights  *)
(* by then, or not even that, and the layers after it have none.            *)

Share(layers, weights, i) ==
    LET turn == Turn(layers, i)
    IN  CASE HasWeights(layers[i].type) /\ turn <= Len(weights)    -> weights[turn]
          [] HasWeights(layers[i].type) /\ turn = Len(weights) + 1 -> "partial"
          [] OTHER -> "none"

LoadWeights(layers, weights) ==
    [ret |-> IF \A i \in DOMAIN layers : HasWeights(layers[i].type) =>
                  Turn(layers, i) <= Len(weights)
             THEN 0 ELSE -1,
     layers |-> [i \in DOMAIN layers |->
                   [layers[i] EXCEPT !.weights = Share(layers, weights, i)]]]

-----------------------------------------------------------------------------
(* Buffers.  A buffer is free when no Mat holds it: none of the extractor,   *)
(* none of the caller, not the one the running layer holds.                  *)

Holders(mats, buf) ==
    Cardinality({b \in DOMAIN mats : mats[b] = buf})
    + Cardinality({name \in DOMAIN feats : feats[name] = buf})

FreshBuf(mats, held) ==
    CHOOSE k \in 1 .. MaxBuf :
      /\ Holders(mats, k) = 0 /\ k # held
      /\ \A j \in 1 .. k - 1 : Holders(mats, j) # 0 \/ j = held

\* What the layer makes of a value.  A network's Dropout may scale.
Apply(layer, value) ==
    IF layer.type \in {"Input", "Split"} THEN value
    ELSE Append(value, <<layer.name, layer.weights>>)

ForwardLayer_NoClone(s, layer) ==                                \* mutant
    LET bottom == layer.bottoms[1]
        buf == s.mats[bottom]
        taken == IF ext.light THEN [s.mats EXCEPT ![bottom] = 0] ELSE s.mats
        inplace == ext.light /\ SupportInplace(layer.type)
        out == IF layer.type = "Split" \/ inplace THEN buf ELSE FreshBuf(taken, buf)
        tops == {layer.tops[i] : i \in DOMAIN layer.tops}
    IN  [ok |-> TRUE,
         mats |-> [b \in DOMAIN taken |-> IF b \in tops THEN out ELSE taken[b]],
         heap |-> [s.heap EXCEPT ![out] = Apply(layer, s.heap[buf])]]

\* forward_layer once its bottom is there; s is [ok, mats, heap].  All layers of
\* the registry read one bottom, so the branch for several is the same.
ForwardLayer(s, layer) ==
    LET bottom == layer.bottoms[1]
        buf == s.mats[bottom]
        taken == IF ext.light THEN [s.mats EXCEPT ![bottom] = 0] ELSE s.mats
        inplace == ext.light /\ SupportInplace(layer.type)
        \* the refcount also counts the Mat the running layer holds
        shared == Holders(taken, buf) + 1 # 1
        out == CASE layer.type = "Split" -> buf
                 [] inplace /\ ~shared -> buf
                 [] OTHER -> FreshBuf(taken, buf)
        tops == {layer.tops[i] : i \in DOMAIN layer.tops}
    IN  [ok |-> TRUE,
         mats |-> [b \in DOMAIN taken |-> IF b \in tops THEN out ELSE taken[b]],
         heap |-> [s.heap EXCEPT ![out] = Apply(layer, s.heap[buf])]]

\* extract of blob b, and the forward_layer of its producer: what the layer
\* reads is made first.  A blob that nothing makes any more (its producer has
\* no bottom to read) cannot be made, and nothing runs.
Forward(b) ==
    LET untouched(ok) == [ok |-> ok, mats |-> ext.mats, heap |-> heap]
        made[c \in DOMAIN ext.mats] ==
          LET p == net.blobs[c].producer
              s == made[net.layers[p].bottoms[1]]
          IN  IF ext.mats[c] # 0 THEN untouched(TRUE)
              ELSE IF p = 0 \/ net.layers[p].bottoms = <<>> THEN untouched(FALSE)
              ELSE IF ~s.ok THEN s
              ELSE ForwardLayer(s, net.layers[p])
    IN  made[b]

-----------------------------------------------------------------------------
(* Actions *)

Index(name) == IF form = "text" THEN FindBlobIndexByName(net.blobs, name)
               ELSE IF net.blobs = <<>> THEN 0 ELSE IdOf(file, name)

NoExtractor == [light |-> FALSE, mats |-> <<>>]

NetStart(f) ==
    /\ file = f
    /\ form = "none"
    /\ net = NoNet(0)
    /\ trained = 1
    /\ ext = NoExtractor
    /\ heap = [k \in 1 .. MaxBuf |-> <<>>]
    /\ feats = << >>

NetInit == \E f \in Files : NetStart(f)

LoadParam(f) ==
    /\ form = "none"
    /\ form' = f
    /\ net' = CASE f = "text" -> LoadText(file)
                [] f = "bin" -> LoadBin(file)
                [] f = "mem" -> LoadMem(file)
    /\ UNCHANGED <<file, trained, ext, heap, feats>>

\* The result is not looked at by the detector, nor is that of load_param.
LoadModel ==
    /\ form \notin {"none", "gone"} /\ trained = 1
    /\ LET l == LoadWeights(net.layers, file.weights)
       IN  /\ trained' = l.ret
           /\ net' = [net EXCEPT !.layers = l.layers]
    /\ UNCHANGED <<file, form, ext, heap, feats>>

\* create_extractor, set_light_mode and the input, whose Mat the caller keeps.
CreateExtractor(light) ==
    /\ trained # 1 /\ ext = NoExtractor /\ feats = << >>
    /\ LET data == Index("data")
           empty == [b \in DOMAIN net.blobs |-> 0]
       IN  ext' = [light |-> light,
                   mats |-> IF data = 0 THEN empty ELSE [empty EXCEPT ![data] = 1]]
    /\ feats' = [name \in {"data"} |-> 1]
    /\ UNCHANGED <<file, form, net, trained, heap>>

Consumed(name) ==
    \E i \in DOMAIN file.lines : \E k \in DOMAIN file.lines[i].bottoms :
       file.lines[i].bottoms[k] = name

\* The layers that extract of blob b runs.
Ran(b) ==
    LET run[c \in DOMAIN ext.mats] ==
          LET p == net.blobs[c].producer
          IN  IF ext.mats[c] # 0 \/ p = 0 \/ net.layers[p].bottoms = <<>> THEN {}
              ELSE run[net.layers[p].bottoms[1]] \cup {net.layers[p]}
    IN  IF b = 0 THEN {} ELSE IF Forward(b).ok THEN run[b] ELSE {}

\* A layer that uses its weights reads through a null pointer, or memory of
\* which not all has been written.  Only PReLU may get by without: it uses
\* them where its input is negative.
Unread(layer) == HasWeights(layer.type) /\ layer.weights \in {"none", "partial"}
CannotRun(layer) == Unread(layer) /\ layer.weights = "none" /\ layer.type # "PReLU"

\* extract; in light mode callers ask for outputs of the network only.
\* Whether load_model succeeded is not asked.
Extract(name) ==
    /\ feats # << >>
    /\ ext.light => ~Consumed(name)
    /\ \A layer \in Ran(Index(name)) : ~CannotRun(layer)
    /\ LET b == Index(name)
           s == IF b = 0 THEN [mats |-> ext.mats, heap |-> heap] ELSE Forward(b)
           mat == IF b = 0 THEN 0 ELSE s.mats[b]
       IN  /\ ext' = [ext EXCEPT !.mats = s.mats]
           /\ heap' = s.heap
           /\ feats' = [x \in DOMAIN feats \cup {name} |->
                          IF x = name THEN mat ELSE feats[x]]
    /\ UNCHANGED <<file, form, net, trained>>

\* A layer that runs reads through a null pointer, and the process is gone.
ExtractCrashes(name) ==
    /\ feats # << >>
    /\ ext.light => ~Consumed(name)
    /\ \E layer \in Ran(Index(name)) : Unread(layer)
    /\ form' = "gone"
    /\ net' = NoNet(0)
    /\ trained' = 1
    /\ ext' = NoExtractor
    /\ heap' = [k \in 1 .. MaxBuf |-> <<>>]
    /\ feats' = << >>
    /\ UNCHANGED file

Names(f) == {BlobIds(f)[i] : i \in DOMAIN BlobIds(f)}

NetNext ==
    \/ \E f \in {"text", "bin", "mem"} : LoadParam(f)
    \/ LoadModel
    \/ \E light \in BOOLEAN : CreateExtractor(light)
    \/ \E name \in Names(file) \ {"data"} : Extract(name) \/ ExtractCrashes(name)

-----------------------------------------------------------------------------
(* What the lines of the file say a blob is, and the property.               *)

LineNumber(name) ==
    CHOOSE i \in DOMAIN file.lines :
      \E k \in DOMAIN file.lines[i].tops : file.lines[i].tops[k] = name

LineOf(name) == file.lines[LineNumber(name)]

\* What the file has of the weights of its line i: its own, if they do not break
\* off before.
WeightsFor(f, i) ==
    LET turn == Turn(f.lines, i)
    IN  IF ~HasWeights(f.lines[i].type) \/ turn > Len(f.weights) + 1 THEN "none"
        ELSE IF turn = Len(f.weights) + 1 THEN "partial" ELSE f.lines[i].name

Meaning ==
    LET value[name \in Names(file)] ==
          LET line == LineOf(name)
          IN  IF name = "data" THEN <<>>
              ELSE IF line.type = "Split" THEN value[line.bottoms[1]]
              ELSE Append(value[line.bottoms[1]],
                          <<line.name, WeightsFor(file, LineNumber(name))>>)
    IN  value

GoodFile(f) ==
    /\ f.magic
    /\ \A i \in DOMAIN f.lines : CanCreate(LayerToIndex(f.lines[i].type))
    /\ f.weights = LET with == SelectSeq(f.lines, LAMBDA l : HasWeights(l.type))
                   IN  [i \in DOMAIN with |-> with[i].name]

\* Every Mat the caller got, and the input it keeps, has the value the file
\* gives that blob, and keeps it while other blobs are extracted, in light
\* mode and without, for the three forms of the file; of a file that cannot be
\* loaded every Mat is empty.  The detector goes on when the weights break off:
\* then what it gets, if the process survives, is the value of the right layers,
\* and rests on weights that were never read exactly if the file lacks those of
\* a layer on the way to that blob (net.cpp:324-340, 543-758; mtcnn.cpp:25-30).
ExtractAgrees ==
    \A name \in DOMAIN feats :
       /\ GoodFile(file) => feats[name] # 0
       /\ feats[name] # 0 => heap[feats[name]] = Meaning[name]
=============================================================================
