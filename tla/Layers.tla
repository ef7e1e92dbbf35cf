------------------------------- MODULE Layers -------------------------------
(***************************************************************************)
(* The layers the networks are made of (ncnn/layer/...): their parameters, *)
(* how they read their weights from one stream, and what they compute, by  *)
(* the offsets into flat buffers the code uses.  Numbers are integers; the *)
(* average and Softmax, which divide, say how they are represented.        *)
(***************************************************************************)
EXTENDS Mats, FiniteSetsExt

INSTANCE ParamDict

MinFloat == -999999                                         \* -FLT_MAX

SumOver(n, term(_)) == MapThenSumSet(term, 0 .. n - 1)

-----------------------------------------------------------------------------
(* Parameters *)

ConvolutionParam(pd) ==
    [num_output |-> GetInt(pd, 0, 0), kernel_size |-> GetInt(pd, 1, 0),
     dilation |-> GetInt(pd, 2, 1), stride |-> GetInt(pd, 3, 1),
     pad |-> GetInt(pd, 4, 0), bias_term |-> GetInt(pd, 5, 0),
     weight_data_size |-> GetInt(pd, 6, 0)]

InnerProductParam(pd) ==
    [num_output |-> GetInt(pd, 0, 0), bias_term |-> GetInt(pd, 1, 0),
     weight_data_size |-> GetInt(pd, 2, 0)]

\* Heights default to widths, the right to the left, the bottom to the top.
PoolingParam(pd) ==
    LET kernel == GetInt(pd, 1, 0)
        stride == GetInt(pd, 2, 1)
        left == GetInt(pd, 3, 0)
        top == GetInt(pd, 13, left)
    IN  [pooling_type |-> GetInt(pd, 0, 0), kernel_w |-> kernel,
         kernel_h |-> GetInt(pd, 11, kernel), stride_w |-> stride,
         stride_h |-> GetInt(pd, 12, stride), pad_left |-> left,
         pad_right |-> GetInt(pd, 14, left), pad_top |-> top,
         pad_bottom |-> GetInt(pd, 15, top),
         global_pooling |-> GetInt(pd, 4, 0), pad_mode |-> GetInt(pd, 5, 0)]

PReLUParam(pd) == [num_slope |-> GetInt(pd, 0, 0)]
SoftmaxParam(pd) == [axis |-> GetInt(pd, 0, 0)]
DropoutParam(pd) == [scale |-> GetFloat(pd, 0, 1)]
InputParam(pd) == [w |-> GetInt(pd, 0, 0), h |-> GetInt(pd, 1, 0), c |-> GetInt(pd, 2, 0)]

-----------------------------------------------------------------------------
(* Weights.  The stream is a sequence of 4 byte words.  A word is a tag, a   *)
(* float, two halves or four indices, as the writer of the file put it.      *)

QuantSize == 256

WordsFor(n, size) == AlignSize(n * size, 4) \div 4

\* The n weights after the tag; table and indices for the quantized form.
Weights(tag, words, n) ==
    CASE tag = "half" ->
           [i \in 0 .. n - 1 |-> words[i \div 2 + 1][(i % 2) + 1]]
      [] tag = "quantized" ->
           [i \in 0 .. n - 1 |->
              words[words[QuantSize + i \div 4 + 1][(i % 4) + 1] + 1]]
      [] tag = "raw" -> [i \in 0 .. n - 1 |-> words[i + 1]]

WeightWords(tag, n) ==
    CASE tag = "half" -> WordsFor(n, 2)
      [] tag = "quantized" -> QuantSize + WordsFor(n, 1)
      [] tag = "raw" -> n

Failed(ret, rest) == [ret |-> ret, weights |-> <<>>, bias |-> <<>>, rest |-> rest]

\* From memory: nothing says where the stream ends.
LoadModelMem(stream, n, bias_term, num_output) ==
    LET tag == stream[1]
        used == WeightWords(tag, n)
        bias == IF bias_term # 0 THEN num_output ELSE 0
    IN  IF n = 0 /\ tag # "raw" THEN Failed(-100, stream)
        ELSE [ret |-> 0, weights |-> Weights(tag, Tail(stream), n),
              bias |-> [i \in 0 .. bias - 1 |-> stream[1 + used + i + 1]],
              rest |-> SubSeq(stream, 2 + used + bias, Len(stream))]

\* From a file: a short read or an empty Mat ends it.
LoadModelFile(stream, n, bias_term, num_output) ==
    CASE stream = <<>> -> Failed(-1, stream)
      [] stream # <<>> /\ n = 0 -> Failed(-100, stream)
      [] OTHER ->
           LET used == WeightWords(stream[1], n)
               bias == IF bias_term # 0 THEN num_output ELSE 0
           IN  IF Len(stream) < 1 + used THEN Failed(-1, stream)
               ELSE IF bias_term # 0 /\ num_output = 0 THEN Failed(-100, stream)
               ELSE IF Len(stream) < 1 + used + bias THEN Failed(-1, stream)
               ELSE LoadModelMem(stream, n, bias_term, num_output)

InnerProductModelFile(stream, n, bias_term, num_output) ==
    LoadModelFile(stream, n, bias_term, num_output)
InnerProductModelMem(stream, n, bias_term, num_output) ==
    LoadModelMem(stream, n, bias_term, num_output)

\* PReLU: the slopes alone, without a tag.
PReLUModelFile(stream, num_slope) ==
    IF num_slope = 0 THEN Failed(-100, stream)
    ELSE IF Len(stream) < num_slope THEN Failed(-1, stream)
    ELSE [ret |-> 0, weights |-> [i \in 0 .. num_slope - 1 |-> stream[i + 1]],
          bias |-> <<>>, rest |-> SubSeq(stream, num_slope + 1, Len(stream))]

-----------------------------------------------------------------------------
(* Convolution.  weights and bias are functions from 0; bias is empty when   *)
(* there is none.                                                            *)

\* The zero border: a fixed one, or for -233 what makes the output as large
\* as the input divided by the stride, the odd pixel at the right and bottom.
Bordered(m, pad, extent_w, extent_h, stride_w, stride_h, v) ==
    LET wpad == extent_w + ((m.w - 1) \div stride_w) * stride_w - m.w
        hpad == extent_h + ((m.h - 1) \div stride_h) * stride_h - m.h
        halfw == Truncate(wpad, 2)
        halfh == Truncate(hpad, 2)
    IN  CASE pad > 0 -> MakeBorder(m, pad, pad, pad, pad, "constant", v)
          [] pad = -233 /\ (wpad > 0 \/ hpad > 0) ->
               MakeBorder(m, halfh, hpad - halfh, halfw, wpad - halfw, "constant", v)
          [] OTHER -> m

\* Offsets of the kernel's elements from its first, over rows of w.
SpaceOfs(w, kernel_w, kernel_h, dilation) ==
    LET gap == w * dilation - kernel_w * dilation
    IN  [k \in 0 .. kernel_w * kernel_h - 1 |-> k * dilation + (k \div kernel_w) * gap]

BiasOf(bias, p) == IF p \in DOMAIN bias THEN bias[p] ELSE 0

ConvolutionForward(p, bottom, weights, bias) ==
    LET extent == p.dilation * (p.kernel_size - 1) + 1
        m == Bordered(bottom, p.pad, extent, extent, p.stride, p.stride, 0)
        maxk == p.kernel_size * p.kernel_size
        ofs == SpaceOfs(m.w, p.kernel_size, p.kernel_size, p.dilation)
        at(o, i, j) ==
          LET start(q) == m.cstep * q + m.w * i * p.stride + j * p.stride
              term(t) == m.data[start(t \div maxk) + ofs[t % maxk]]
                         * weights[maxk * m.c * o + t]
          IN  BiasOf(bias, o) + SumOver(maxk * m.c, term)
    IN  Image(3, (m.w - extent) \div p.stride + 1, (m.h - extent) \div p.stride + 1,
              p.num_output, at)

RowStart_SkipsOne(i, k, w, outw, outh) ==                        \* mutant
    IF i < 2 * (outh \div 2)
    THEN (i \div 2) * (outw + (k - 1)) + (i % 2) * w
    ELSE (outh \div 2) * (outw + (k - 1) + w)

\* The unrolled kernels of stride one: output rows are made in pairs, and the
\* row pointers run on over one pair and skip to the next; a last single row
\* follows them.
RowStart(i, k, w, outw, outh) ==
    IF i < 2 * (outh \div 2)
    THEN (i \div 2) * (outw + (k - 1) + w) + (i % 2) * w
    ELSE (outh \div 2) * (outw + (k - 1) + w)

ConvUnrolled(k, m, top, weights, bias) ==
    LET at(o, i, j) ==
          LET r0(q) == m.cstep * q + RowStart(i, k, m.w, top.w, top.h) + j
              term(t) == LET q == t \div (k * k)
                             a == (t % (k * k)) \div k
                             b == t % k
                         IN  m.data[r0(q) + a * m.w + b] * weights[o * m.c * k * k + t]
          IN  BiasOf(bias, o) + SumOver(m.c * k * k, term)
    IN  Image(3, top.w, top.h, top.c, at)

Conv3x3s1(m, top, weights, bias) == ConvUnrolled(3, m, top, weights, bias)
Conv5x5s1(m, top, weights, bias) == ConvUnrolled(5, m, top, weights, bias)

\* The layer the registry makes on x86 tries the unrolled kernels first.
ConvolutionX86Forward(p, bottom, weights, bias) ==
    IF p.kernel_size \in {3, 5} /\ p.stride = 1 /\ p.dilation = 1
    THEN LET m == Bordered(bottom, p.pad, p.kernel_size, p.kernel_size, 1, 1, 0)
             top == Create(3, m.w - p.kernel_size + 1, m.h - p.kernel_size + 1, p.num_output)
         IN  IF p.kernel_size = 3 THEN Conv3x3s1(m, top, weights, bias)
             ELSE Conv5x5s1(m, top, weights, bias)
    ELSE ConvolutionForward(p, bottom, weights, bias)

-----------------------------------------------------------------------------
(* Inner product: one number per output, each in a channel of its own.       *)

InnerProductForward(p, m, weights, bias) ==
    LET size == m.w * m.h
        at(o, i, j) ==
          LET term(t) == m.data[m.cstep * (t \div size) + (t % size)]
                         * weights[size * m.c * o + t]
          IN  BiasOf(bias, o) + SumOver(size * m.c, term)
    IN  Image(3, 1, 1, p.num_output, at)

-----------------------------------------------------------------------------
(* Pooling; type 0 is the maximum, 1 the average.  Averages divide exactly   *)
(* for the inputs they are checked on (multiples of 36).                     *)

WindowMax(m, start, ofs) ==
    Max({m.data[start]} \cup {m.data[start + ofs[k]] : k \in DOMAIN ofs})

WindowSum(m, start, ofs) ==
    LET term(k) == m.data[start + ofs[k]] IN MapThenSumSet(term, DOMAIN ofs)

GlobalPooling(p, m) ==
    LET size == m.w * m.h
        each == [i \in 0 .. size - 1 |-> i]
        value(q) == IF p.pooling_type = 0 THEN WindowMax(m, m.cstep * q, each)
                    ELSE WindowSum(m, m.cstep * q, each) \div size
    IN  Filled(1, m.c, 1, 1, value)

\* What full padding adds at the right or bottom to fill the last window.
TailPad(n, before, after, kernel, stride) ==
    LET tail == (n + before + after - kernel) % stride
    IN  IF tail # 0 THEN stride - tail ELSE 0

PoolingBorder(p, m) ==
    LET v == IF p.pooling_type = 0 THEN MinFloat ELSE 0
        wtail == TailPad(m.w, p.pad_left, p.pad_right, p.kernel_w, p.stride_w)
        htail == TailPad(m.h, p.pad_top, p.pad_bottom, p.kernel_h, p.stride_h)
    IN  CASE p.pad_mode = 0 -> MakeBorder(m, p.pad_top, p.pad_bottom + htail,
                                          p.pad_left, p.pad_right + wtail, "constant", v)
          [] p.pad_mode = 1 -> MakeBorder(m, p.pad_top, p.pad_bottom,
                                          p.pad_left, p.pad_right, "constant", v)
          [] p.pad_mode = 2 -> Bordered(m, -233, p.kernel_w, p.kernel_h,
                                        p.stride_w, p.stride_h, v)

\* Averages counted the zeros of the border: the first and last row and
\* column are scaled up by the kernel over its part inside.
FixPad(p, m, i, j, outw, outh, sum) ==
    LET tail(n, before, after, kernel, stride) ==
          IF p.pad_mode = 0 THEN TailPad(n, before, after, kernel, stride) ELSE 0
        bottom == p.pad_bottom + tail(m.h, p.pad_top, p.pad_bottom, p.kernel_h, p.stride_h)
        right == p.pad_right + tail(m.w, p.pad_left, p.pad_right, p.kernel_w, p.stride_w)
        scaled(v, at_edge, pad, kernel) ==
          IF at_edge /\ pad # 0 THEN (v * kernel) \div (kernel - pad) ELSE v
        top == scaled(sum, i = 0, p.pad_top, p.kernel_h)
        low == scaled(top, i = outh - 1, bottom, p.kernel_h)
        left == scaled(low, j = 0, p.pad_left, p.kernel_w)
    IN  scaled(left, j = outw - 1, right, p.kernel_w)

PoolingForward(p, bottom) ==
    LET m == PoolingBorder(p, bottom)
        outw == (m.w - p.kernel_w) \div p.stride_w + 1
        outh == (m.h - p.kernel_h) \div p.stride_h + 1
        ofs == SpaceOfs(m.w, p.kernel_w, p.kernel_h, 1)
        start(q, i, j) == m.cstep * q + m.w * i * p.stride_h + j * p.stride_w
        value(q, i, j) ==
          IF p.pooling_type = 0 THEN WindowMax(m, start(q, i, j), ofs)
          ELSE FixPad(p, bottom, i, j, outw, outh,
                      WindowSum(m, start(q, i, j), ofs) \div (p.kernel_w * p.kernel_h))
    IN  IF p.global_pooling # 0 THEN GlobalPooling(p, bottom)
        ELSE Image(3, outw, outh, m.c, value)

-----------------------------------------------------------------------------
(* Softmax.  Exp stands for the exponential, doubled per unit and scaled;    *)
(* a quotient is the pair of its numerator and denominator.  Each branch     *)
(* keeps its maxima and sums in a Mat of its own; which element of it an     *)
(* offset of the blob belongs to is all they differ in.                      *)

Exp(d) == 2 ^ (d + 10)

PlaceOfVector(m, i) == 0
PlaceOfColumn(m, i) == i % m.w                      \* 2 dimensions, axis 0
PlaceOfRow(m, i) == i \div m.w                      \* 2 dimensions, axis 1
PlaceOfPixel(m, i) == i % m.cstep                   \* 3 dimensions, axis 0
PlaceOfLine(m, i) == m.h * (i \div m.cstep) + ((i % m.cstep) \div m.w)
PlaceOfUpright(m, i) == m.w * (i \div m.cstep) + ((i % m.cstep) % m.w)

SoftmaxPlace(m, axis, i) ==
    CASE m.dims = 1 -> PlaceOfVector(m, i)
      [] m.dims = 2 /\ axis = 0 -> PlaceOfColumn(m, i)
      [] m.dims = 2 /\ axis = 1 -> PlaceOfRow(m, i)
      [] m.dims = 3 /\ axis = 0 -> PlaceOfPixel(m, i)
      [] m.dims = 3 /\ axis = 1 -> PlaceOfLine(m, i)
      [] m.dims = 3 /\ axis = 2 -> PlaceOfUpright(m, i)

\* The offsets the loops visit: the gaps between channels are left alone.
Visited(m) == {i \in 0 .. Total(m) - 1 : i % m.cstep < m.w * m.h}

SoftmaxForward(axis, m) ==
    LET place == [i \in Visited(m) |-> SoftmaxPlace(m, axis, i)]
        group(i) == {j \in Visited(m) : place[j] = place[i]}
        max(i) == Max({MinFloat} \cup {m.data[j] : j \in group(i)})
        e(i) == Exp(m.data[i] - max(i))
    IN  [i \in Visited(m) |-> <<e(i), MapThenSumSet(e, group(i))>>]

-----------------------------------------------------------------------------
(* The layers that work in place.                                            *)

\* One slope for all, or one per element, row or channel by the dimension.
PReLUForward(num_slope, slope, m) ==
    LET place(i) == CASE m.dims = 1 -> i
                      [] m.dims = 2 -> i \div m.w
                      [] m.dims = 3 -> i \div m.cstep
        s(i) == IF num_slope > 1 THEN slope[place(i)] ELSE slope[0]
    IN  [m EXCEPT !.data = [i \in 0 .. Total(m) - 1 |->
           IF i \in Visited(m) /\ m.data[i] < 0 THEN m.data[i] * s(i) ELSE m.data[i]]]

DropoutForward(scale, m) ==
    IF scale = 1 THEN m
    ELSE [m EXCEPT !.data = [i \in 0 .. Total(m) - 1 |->
            IF i \in Visited(m) THEN m.data[i] * scale ELSE m.data[i]]]

InputForward(m) == m
=============================================================================
