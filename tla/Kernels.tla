------------------------------- MODULE Kernels -------------------------------
(***************************************************************************)
(* What the pure functions of Mats, Pixels, ParamDict, Layers, Codec and   *)
(* Config ought to compute, said without buffers, gaps, row pointers and   *)
(* offsets, and the bounded inputs the two are compared on.  Nothing here  *)
(* is code of the server.                                                  *)
(***************************************************************************)
EXTENDS Layers, Pixels, Codec, Config

\* Elements that differ by place, and small ones for arithmetic.
Place(q, y, x) == 100 * q + 10 * y + x + 1
Mixed(q, y, x) == ((31 * q + 17 * y * y + 7 * x) % 9) - 4

MatOf(s, value(_, _, _)) == Image(s[1], s[2], s[3], s[4], value)

\* <<dims, w, h, c>>; a stack of 1x1, 3x1 and 3x3 images has gaps.
Shapes == {<<1, 6, 1, 1>>, <<2, 3, 2, 1>>, <<2, 2, 4, 1>>, <<3, 3, 1, 2>>,
           <<3, 2, 2, 2>>, <<3, 1, 1, 6>>, <<3, 3, 3, 2>>, <<3, 4, 1, 2>>}

SameMat(m, dims, w, h, c, value(_, _, _)) ==
    /\ m.dims = dims /\ m.w = w /\ m.h = h /\ m.c = c
    /\ \A q \in 0 .. c - 1, y \in 0 .. h - 1, x \in 0 .. w - 1 :
         At(m, q, y, x) = value(q, y, x)

Coords(m) == {<<q, y, x>> : q \in 0 .. m.c - 1, y \in 0 .. m.h - 1, x \in 0 .. m.w - 1}

-----------------------------------------------------------------------------
(* Views: a reshape keeps the elements in their order, or refuses.           *)

ViewJobs == [kind : {"view"}, shape : Shapes, to : Shapes]

ViewResult(j) ==
    LET m == MatOf(j.shape, Place)
    IN  CASE j.to[1] = 1 -> Reshape1(m, j.to[2])
          [] j.to[1] = 2 -> Reshape2(m, j.to[2], j.to[3])
          [] j.to[1] = 3 -> Reshape3(m, j.to[2], j.to[3], j.to[4])

ViewMeant(j, r) ==
    LET m == MatOf(j.shape, Place)
        filled == Fill(m, 5)
    IN  /\ IF j.to[2] * j.to[3] * j.to[4] = m.w * m.h * m.c
           THEN /\ <<r.dims, r.w, r.h, r.c>> = j.to
                /\ Elements(r) = Elements(m)
           ELSE IsEmpty(r)
        /\ Clone(m) = m
        /\ \A p \in Coords(m) : At(filled, p[1], p[2], p[3]) = 5
        /\ \A q \in 0 .. m.c - 1, y \in 0 .. m.h - 1 :
             Row(Channel(m, q), y) = [x \in 0 .. m.w - 1 |-> Place(q, y, x)]

-----------------------------------------------------------------------------
(* Borders: constant or repeated around the image, and cut off again.        *)

BorderJobs == [kind : {"border"}, shape : {<<2, 3, 2, 1>>, <<3, 3, 3, 2>>, <<3, 1, 2, 2>>},
               sides : {<<0, 0, 0, 0>>, <<1, 0, 0, 2>>, <<2, 1, 1, 1>>, <<0, 1, 2, 0>>},
               type : {"constant", "replicate"}]

BorderResult(j) ==
    MakeBorder(MatOf(j.shape, Place), j.sides[1], j.sides[2], j.sides[3], j.sides[4], j.type, -7)

Clamped(v, n) == IF v < 0 THEN 0 ELSE IF v >= n THEN n - 1 ELSE v

BorderMeant(j, r) ==
    LET m == MatOf(j.shape, Place)
        t == j.sides[1]
        l == j.sides[3]
        meant(q, y, x) ==
          IF j.type = "constant" /\ (y - t \notin 0 .. m.h - 1 \/ x - l \notin 0 .. m.w - 1)
          THEN -7 ELSE At(m, q, Clamped(y - t, m.h), Clamped(x - l, m.w))
        back == CutBorder(r, j.sides[1], j.sides[2], j.sides[3], j.sides[4])
    IN  /\ SameMat(r, m.dims, m.w + l + j.sides[4], m.h + t + j.sides[2], m.c, meant)
        /\ SameMat(back, m.dims, m.w, m.h, m.c, Place)

-----------------------------------------------------------------------------
(* Resizing: an output pixel is the bilinear mean at its centre's place in   *)
(* the source.  In front of the first source pixel the code extrapolates     *)
(* where others repeat the pixel: those output pixels are not compared.      *)

Sizes == {<<2, 2>>, <<3, 2>>, <<4, 3>>, <<5, 4>>}
Targets == {<<1, 1>>, <<2, 2>>, <<3, 3>>, <<4, 5>>, <<8, 4>>}

\* n pixels onto w: the left neighbour of pixel d and its distance in 2w-ths.
Centre(n, w, d) ==
    LET f == (2 * d + 1) * n - w
    IN  IF f >= 2 * w * (n - 1) THEN <<n - 2, 2 * w>> ELSE <<f \div (2 * w), f % (2 * w)>>

Inside(n, w, d) == (2 * d + 1) * n >= w

Bilinear(value(_, _), n, size, y, x) ==
    LET a == Centre(n[1], size[1], x)
        b == Centre(n[2], size[2], y)
        row(sy) == value(sy, a[1]) * (2 * size[1] - a[2]) + value(sy, a[1] + 1) * a[2]
    IN  row(b[1]) * (2 * size[2] - b[2]) + row(b[1] + 1) * b[2]

ResizeJobs == [kind : {"resize"}, size : Sizes, to : Targets, dims : {2, 3}]

ResizeResult(j) ==
    Resize(MatOf(<<j.dims, j.size[1], j.size[2], j.dims - 1>>, Place), j.to[1], j.to[2])

ResizeMeant(j, r) ==
    \/ j.size = j.to
    \/ \A q \in 0 .. j.dims - 2, y \in 0 .. j.to[2] - 1, x \in 0 .. j.to[1] - 1 :
         Inside(j.size[1], j.to[1], x) /\ Inside(j.size[2], j.to[2], y) =>
           LET value(sy, sx) == Place(q, sy, sx)
           IN  At(r, q, y, x) = Bilinear(value, j.size, j.to, y, x)

-----------------------------------------------------------------------------
(* Pixels.  Conversions by the names of the channels, and the fixed point    *)
(* resize within two grey levels.                                            *)

Names == [RGB |-> <<"R", "G", "B">>, BGR |-> <<"B", "G", "R">>,
          GRAY |-> <<"Y">>, RGBA |-> <<"R", "G", "B", "A">>]

Byte(i) == (i * 47 + (i \div 5) * 29) % 256

Photo(format, w, h) == [i \in 0 .. Size[format] * w * h - 1 |-> Byte(i)]

PixelJobs == [kind : {"pixel"}, from : DOMAIN Size, to : DOMAIN Size, size : {<<3, 2>>, <<1, 3>>}]

PixelResult(j) == FromPixels(Photo(j.from, j.size[1], j.size[2]), j.from, j.to, j.size[1], j.size[2])

ColourOf(px, format, p, name) ==
    LET at(n) == px[Size[format] * p + (CHOOSE k \in DOMAIN Names[format] : Names[format][k] = n) - 1]
    IN  IF format = "GRAY" THEN px[p]
        ELSE IF name = "Y" THEN (77 * at("R") + 150 * at("G") + 29 * at("B")) \div 256
        ELSE at(name)

\* Nothing converts to pixels with an alpha channel.
PixelMeant(j, r) ==
    LET px == Photo(j.from, j.size[1], j.size[2])
        meant(q, y, x) == ColourOf(px, j.from, y * j.size[1] + x, Names[j.to][q + 1])
        back == ToPixels(r, j.to, IF j.from \in {"RGB", "BGR"} THEN j.from ELSE j.to)
    IN  IF j.to = "RGBA" /\ j.from # "RGBA" THEN IsEmpty(r)
        ELSE /\ SameMat(r, 3, j.size[1], j.size[2], Size[j.to], meant)
             /\ j.from = j.to \/ {j.from, j.to} = {"RGB", "BGR"} => back = px

ScaleJobs == [kind : {"scale"}, format : {"GRAY", "RGB", "RGBA"}, size : Sizes, to : Targets,
              way : {"from", "to"}]

ScaleResult(j) ==
    LET px == Photo(j.format, j.size[1], j.size[2])
        m == FromPixelsResize(px, j.format, j.format, j.size[1], j.size[2], j.to[1], j.to[2])
        whole == FromPixels(px, j.format, j.format, j.size[1], j.size[2])
    IN  IF j.way = "from" THEN ToPixels(m, j.format, j.format)
        ELSE ToPixelsResize(whole, j.format, j.format, j.to[1], j.to[2])

ScaleMeant(j, r) ==
    LET n == Size[j.format]
        px == Photo(j.format, j.size[1], j.size[2])
        unit == 4 * j.to[1] * j.to[2]
    IN  \/ j.size = j.to /\ r = px
        \/ \A b \in 0 .. n - 1, y \in 0 .. j.to[2] - 1, x \in 0 .. j.to[1] - 1 :
             Inside(j.size[1], j.to[1], x) /\ Inside(j.size[2], j.to[2], y) =>
               LET value(sy, sx) == px[n * (j.size[1] * sy + sx) + b]
                   exact == Bilinear(value, j.size, j.to, y, x)
                   got == r[n * (j.to[1] * y + x) + b] * unit
               IN  exact - 2 * unit <= got /\ got <= exact + 2 * unit

-----------------------------------------------------------------------------
(* Arithmetic on a Mat, and half precision numbers by their value: in 2^24ths *)
(* a half is a whole number, and a float of ten significant bits too.        *)

ScalarJobs == [kind : {"scalar"}, mean : {<<>>, <<3, -2>>}, norm : {<<>>, <<2, 5>>}]

ScalarResult(j) == SubstractMeanNormalize(MatOf(<<3, 3, 1, 2>>, Mixed), j.mean, j.norm)

ScalarMeant(j, r) ==
    LET meant(q, y, x) == (Mixed(q, y, x) - IF j.mean = <<>> THEN 0 ELSE j.mean[q + 1])
                          * (IF j.norm = <<>> THEN 1 ELSE j.norm[q + 1])
    IN  SameMat(r, 3, 3, 1, 2, meant)

HalfJobs == [kind : {"half"}, sign : {0, 1}, exponent : {0, 1, 15, 20},
             significand : {0, 1, 2, 3, 511, 512, 513, 1023}]

HalfResult(j) == FromFloat16(<<<<j.sign, j.exponent, j.significand>>>>).data[0]

HalfValue(j) == IF j.exponent = 0 THEN j.significand
                ELSE (1024 + j.significand) * 2 ^ (j.exponent - 1)

HalfMeant(j, r) ==
    /\ r.sign = j.sign
    /\ IF r.exp = 0 THEN HalfValue(j) = 0 /\ r.sig = 0
       ELSE IF r.exp >= 113 THEN HalfValue(j) = (1024 + r.sig) * 2 ^ (r.exp - 113)
       ELSE HalfValue(j) * 2 ^ (113 - r.exp) = 1024 + r.sig

-----------------------------------------------------------------------------
(* Parameters: whichever way they are written, and whatever the dictionary   *)
(* was used for before, a layer reads what was written or its default.       *)

IntParam(n) == Value(n, FALSE)

\* What is written: id -> values; more than one makes an array.
Written == {[id \in {0, 1} |-> <<IntParam(id + 4)>>],
            [id \in {2} |-> <<Value(3, TRUE)>>],
            [id \in {0, 3} |-> IF id = 0 THEN <<IntParam(9)>> ELSE <<IntParam(7), IntParam(8)>>]}

ParamJobs == [kind : {"param"}, before : Written, now : Written, form : {"text", "bin", "mem"}]

KeyOf(id, values) == IF Len(values) = 1 THEN id ELSE ArrayKey(id)

\* The line and the words of a file, by ascending ids.
LineFor(written) ==
    LET ids == SetToSortSeq(DOMAIN written, LAMBDA a, b : a < b)
    IN  [i \in DOMAIN ids |-> [key |-> KeyOf(ids[i], written[ids[i]]),
                               len |-> Len(written[ids[i]]), values |-> written[ids[i]]]]

WordsOf(written) ==
    LET words(t) == <<IntParam(t.key)>>
                    \o (IF IsArray(t.key) THEN <<IntParam(t.len)>> ELSE <<>>) \o t.values
        line == LineFor(written)
    IN  FlattenSeq([i \in DOMAIN line |-> words(line[i])]) \o <<IntParam(EndKey)>>

\* The words of the next layer follow in the stream.
NextLayer == <<IntParam(77), IntParam(78)>>

Loaded(pd, written, form) ==
    CASE form = "text" -> LoadText(pd, LineFor(written)).pd
      [] form = "bin" -> LoadBin(pd, WordsOf(written) \o NextLayer).pd
      [] form = "mem" -> LoadMem(pd, WordsOf(written) \o NextLayer).pd

ParamResult(j) == Loaded(Loaded(Empty, j.before, j.form), j.now, j.form)

ParamMeant(j, r) ==
    /\ \A id \in 0 .. 4 :
         IF id \notin DOMAIN j.now
         THEN GetInt(r, id, -5) = -5 /\ GetFloat(r, id, -6) = -6 /\ GetArray(r, id, <<>>) = <<>>
         ELSE LET v == j.now[id]
              IN  CASE Len(v) > 1 -> GetArray(r, id, <<>>) = v
                    [] Len(v) = 1 /\ v[1].isFloat -> GetFloat(r, id, -6) = v[1].n
                    [] Len(v) = 1 /\ ~v[1].isFloat -> GetInt(r, id, -5) = v[1].n
    /\ LoadBin(Empty, WordsOf(j.now) \o NextLayer).rest = NextLayer
    /\ \A cut \in {t \in DOMAIN LineFor(j.now) : LineFor(j.now)[t].len > 1} :
         LoadText(Empty, [LineFor(j.now) EXCEPT ![cut].values = Tail(@)]).ret = -1

-----------------------------------------------------------------------------
(* Weights: of the three ways to store them each gives them back and leaves  *)
(* the stream at the next layer's; a file that ends too early is an error.   *)

WeightJobs == [kind : {"weight"}, tag : {"half", "quantized", "raw"}, n : {1, 2, 4, 5},
               bias : {0, 1}, source : {"file", "mem"}, missing : {0, 1, 3},
               layer : {"Convolution", "InnerProduct"}]

Meant(i) == 3 + 2 * i

Stored(tag, n) ==
    LET w(i) == IF i < n THEN Meant(i) ELSE 0
        table == [k \in 1 .. QuantSize |-> k + 2]
    IN  CASE tag = "half" -> [k \in 1 .. WordsFor(n, 2) |-> <<w(2 * k - 2), w(2 * k - 1)>>]
          [] tag = "quantized" -> table \o
               [k \in 1 .. WordsFor(n, 1) |->
                  [b \in 1 .. 4 |-> IF 4 * (k - 1) + b - 1 < n THEN w(4 * (k - 1) + b - 1) - 3 ELSE 0]]
          [] tag = "raw" -> [k \in 1 .. n |-> w(k - 1)]

\* Tag, weights, two biases, and two words of the next layer.
StreamOf(j) == <<j.tag>> \o Stored(j.tag, j.n) \o (IF j.bias = 1 THEN <<40, 41>> ELSE <<>>)

WeightResult(j) ==
    LET stream == StreamOf(j)
        given == IF j.missing = 0 THEN stream \o <<50, 51>>
                 ELSE SubSeq(stream, 1, Len(stream) - j.missing)
    IN  CASE j.layer = "Convolution" /\ j.source = "mem" ->
               LoadModelMem(stream \o <<50, 51>>, j.n, j.bias, 2)
          [] j.layer = "Convolution" /\ j.source = "file" ->
               LoadModelFile(given, j.n, j.bias, 2)
          [] j.layer = "InnerProduct" /\ j.source = "mem" ->
               InnerProductModelMem(stream \o <<50, 51>>, j.n, j.bias, 2)
          [] j.layer = "InnerProduct" /\ j.source = "file" ->
               InnerProductModelFile(given, j.n, j.bias, 2)

WeightMeant(j, r) ==
    IF j.source = "file" /\ j.missing > 0 THEN r.ret # 0
    ELSE /\ r.ret = 0
         /\ r.weights = [i \in 0 .. j.n - 1 |-> Meant(i)]
         /\ r.bias = IF j.bias = 1 THEN [i \in 0 .. 1 |-> 40 + i] ELSE [i \in {} |-> 0]
         /\ r.rest = <<50, 51>>
         /\ PReLUModelFile(r.rest, 2).weights = [i \in 0 .. 1 |-> 50 + i]
         /\ PReLUModelFile(r.rest, 3).ret # 0

-----------------------------------------------------------------------------
(* Convolution: the sum of the kernel over the image with zeros around it.   *)

ConvJobs == {j \in [kind : {"conv"}, shape : {<<3, 5, 6, 1>>, <<3, 6, 7, 2>>},
                    kernel_size : {1, 2, 3, 5}, stride : {1, 2}, dilation : {1, 2},
                    pad : {0, 1, -233}, num_output : {1, 2}, bias_term : {0, 1}] :
               /\ j.dilation * (j.kernel_size - 1) < 5
               /\ j.num_output = 1 + j.bias_term}

WeightsFor(n) == [i \in 0 .. n - 1 |-> ((i * 5) % 7) - 3]

BiasFor(j) == IF j.bias_term = 0 THEN [i \in {} |-> 0] ELSE [i \in 0 .. 1 |-> 10 + i]

ConvResult(j) ==
    ConvolutionX86Forward(j, MatOf(j.shape, Mixed),
      WeightsFor(j.num_output * j.shape[4] * j.kernel_size * j.kernel_size), BiasFor(j))

\* Where the window of output 0 begins, and how many windows there are.
WindowStart(j, n) ==
    LET extent == j.dilation * (j.kernel_size - 1) + 1
        wanted == extent + ((n - 1) \div j.stride) * j.stride - n
    IN  CASE j.pad = -233 -> IF wanted > 0 THEN -(wanted \div 2) ELSE 0
          [] j.pad # -233 -> -j.pad

Windows(j, n) ==
    IF j.pad = -233 THEN (n - 1) \div j.stride + 1
    ELSE (n + 2 * j.pad - j.dilation * (j.kernel_size - 1) - 1) \div j.stride + 1

Around(m, q, y, x, v) ==
    IF y \in 0 .. m.h - 1 /\ x \in 0 .. m.w - 1 THEN At(m, q, y, x) ELSE v

ConvMeant(j, r) ==
    LET m == MatOf(j.shape, Mixed)
        k == j.kernel_size
        weights == WeightsFor(j.num_output * m.c * k * k)
        meant(o, y, x) ==
          LET term(t) ==
                LET q == t \div (k * k)
                    a == (t % (k * k)) \div k
                IN  Around(m, q, WindowStart(j, m.h) + y * j.stride + a * j.dilation,
                           WindowStart(j, m.w) + x * j.stride + (t % k) * j.dilation, 0)
                    * weights[o * m.c * k * k + t]
          IN  SumOver(m.c * k * k, term) + IF j.bias_term = 1 THEN 10 + o ELSE 0
    IN  SameMat(r, 3, Windows(j, m.w), Windows(j, m.h), j.num_output, meant)

InnerJobs == [kind : {"inner"}, shape : Shapes, num_output : {2}, bias_term : {0, 1}]

InnerResult(j) ==
    InnerProductForward(j, MatOf(j.shape, Mixed),
      WeightsFor(2 * j.shape[2] * j.shape[3] * j.shape[4]), BiasFor(j))

\* As a convolution whose kernel is the whole input.
InnerMeant(j, r) ==
    LET m == MatOf(j.shape, Mixed)
        weights == WeightsFor(2 * m.w * m.h * m.c)
        meant(o, y, x) ==
          LET term(p) == At(m, p[1], p[2], p[3])
                         * weights[((o * m.c + p[1]) * m.h + p[2]) * m.w + p[3]]
          IN  MapThenSumSet(term, Coords(m)) + IF j.bias_term = 1 THEN 10 + o ELSE 0
    IN  SameMat(r, 3, 1, 1, 2, meant)

-----------------------------------------------------------------------------
(* Pooling: the largest or the mean of what the window sees of the image.    *)
(* For the mean the inputs are multiples of 36, so that all quotients are    *)
(* whole, and the border is at most the kernel less one.                     *)

PoolJobs == {j \in [kind : {"pool"}, shape : {<<3, 5, 4, 2>>, <<3, 3, 3, 2>>},
                    pooling_type : {0, 1}, kernel : {2, 3}, stride : {1, 2}, pad : {0, 1},
                    global_pooling : {0, 1}, pad_mode : {0, 1, 2}] :
               /\ j.pad_mode = 2 => j.pad = 0 /\ j.pooling_type = 0
               /\ j.global_pooling = 1 => <<j.kernel, j.stride, j.pad, j.pad_mode>> = <<2, 1, 0, 1>>
               \* the last window reaches the border: the code scales it in any case
               /\ j.pooling_type = 1 /\ j.pad = 1 => j.stride = 1}

PoolInput(q, y, x) == 36 * ((31 * q + 17 * y * y + 7 * x) % 9)

PoolResult(j) ==
    LET p == [pooling_type |-> j.pooling_type, kernel_w |-> j.kernel, kernel_h |-> j.kernel,
              stride_w |-> j.stride, stride_h |-> j.stride, pad_left |-> j.pad,
              pad_right |-> j.pad, pad_top |-> j.pad, pad_bottom |-> j.pad,
              global_pooling |-> j.global_pooling, pad_mode |-> j.pad_mode]
    IN  PoolingForward(p, MatOf(j.shape, PoolInput))

PoolStart(j, n) ==
    LET wanted == j.kernel + ((n - 1) \div j.stride) * j.stride - n
    IN  IF j.pad_mode = 2 /\ wanted > 0 THEN -(wanted \div 2) ELSE -j.pad

\* Full padding rounds the number of windows up.
PoolWindows(j, n) ==
    LET left == n + 2 * j.pad - j.kernel
    IN  CASE j.pad_mode = 0 -> (left + j.stride - 1) \div j.stride + 1
          [] j.pad_mode = 1 -> left \div j.stride + 1
          [] j.pad_mode = 2 -> (n - 1) \div j.stride + 1

Seen(j, m, q, y, x) ==
    LET row == PoolStart(j, m.h) + y * j.stride
        col == PoolStart(j, m.w) + x * j.stride
    IN  {<<q, a, b>> : a \in (row .. row + j.kernel - 1) \cap (0 .. m.h - 1),
                       b \in (col .. col + j.kernel - 1) \cap (0 .. m.w - 1)}

Pooled(j, m, cells) ==
    LET v(p) == At(m, p[1], p[2], p[3])
    IN  IF j.pooling_type = 0 THEN Max({MinFloat} \cup {v(p) : p \in cells})
        ELSE MapThenSumSet(v, cells) \div Cardinality(cells)

PoolMeant(j, r) ==
    LET m == MatOf(j.shape, PoolInput)
        image(q) == {<<q, y, x>> : y \in 0 .. m.h - 1, x \in 0 .. m.w - 1}
        meant(q, y, x) == Pooled(j, m, Seen(j, m, q, y, x))
    IN  IF j.global_pooling = 1
        THEN r.w = m.c /\ \A q \in 0 .. m.c - 1 : r.data[q] = Pooled(j, m, image(q))
        ELSE SameMat(r, 3, PoolWindows(j, m.w), PoolWindows(j, m.h), m.c, meant)

-----------------------------------------------------------------------------
(* Softmax: each element's part of the sum over its axis, which the first     *)
(* axis of a stack is the channel's; and the layers in place.                *)

SoftJobs == {[kind |-> "soft", shape |-> s, axis |-> a] : s \in Shapes, a \in {0, 1, 2}}
            \ {[kind |-> "soft", shape |-> s, axis |-> a] :
                 s \in {t \in Shapes : t[1] < 3}, a \in {2}}

SoftResult(j) == SoftmaxForward(j.axis, MatOf(j.shape, Mixed))

\* The line of elements through a place.  Of a stack the second axis runs
\* along the row and the third along the column.
Along(j, m, p) ==
    CASE m.dims = 1 -> Coords(m)
      [] <<m.dims, j.axis>> \in {<<2, 0>>, <<3, 2>>} -> {c \in Coords(m) : c[1] = p[1] /\ c[3] = p[3]}
      [] <<m.dims, j.axis>> \in {<<2, 1>>, <<3, 1>>} -> {c \in Coords(m) : c[1] = p[1] /\ c[2] = p[2]}
      [] m.dims = 3 /\ j.axis = 0 -> {c \in Coords(m) : c[2] = p[2] /\ c[3] = p[3]}

SoftMeant(j, r) ==
    LET m == MatOf(j.shape, Mixed)
        offset(p) == m.cstep * p[1] + m.w * p[2] + p[3]
        power(p) == 2 ^ (Mixed(p[1], p[2], p[3]) + 4)
    IN  /\ DOMAIN r = {offset(p) : p \in Coords(m)}
        /\ \A p \in Coords(m) :
             LET e == r[offset(p)]
             IN  e[1] * MapThenSumSet(power, Along(j, m, p)) = e[2] * power(p)

PlaceJobs == [kind : {"inplace"}, shape : Shapes, layer : {"PReLU", "Dropout", "Input"}, many : BOOLEAN]

SlopeOf(m, p) == CASE m.dims = 1 -> p[3] [] m.dims = 2 -> p[2] [] m.dims = 3 -> p[1]

PlaceResult(j) ==
    LET m == MatOf(j.shape, Mixed)
    IN  CASE j.layer = "PReLU" -> PReLUForward(IF j.many THEN 6 ELSE 1, [i \in 0 .. 5 |-> i + 2], m)
          [] j.layer = "Dropout" -> DropoutForward(IF j.many THEN 3 ELSE 1, m)
          [] j.layer = "Input" -> InputForward(m)

PlaceMeant(j, r) ==
    LET m == MatOf(j.shape, Mixed)
        meant(q, y, x) ==
          LET v == Mixed(q, y, x)
          IN  CASE j.layer = "PReLU" ->
                     IF v >= 0 THEN v ELSE v * (2 + IF j.many THEN SlopeOf(m, <<q, y, x>>) ELSE 0)
                [] j.layer = "Dropout" -> IF j.many THEN 3 * v ELSE v
                [] j.layer = "Input" -> v
    IN  SameMat(r, m.dims, m.w, m.h, m.c, meant)

\* The parameters of the layers, read from what a converter writes.
LayerJobs == [kind : {"layer"}, given : SUBSET {0, 1, 2, 3, 5, 11, 13}]

LayerResult(j) ==
    LET pd == [id \in 0 .. MaxParamCount - 1 |->
                 IF id \in j.given
                 THEN [loaded |-> TRUE, scalar |-> IntParam(id + 20), v |-> <<>>] ELSE NoParam]
    IN  [conv |-> ConvolutionParam(pd), pool |-> PoolingParam(pd), inner |-> InnerProductParam(pd),
         input |-> InputParam(pd), slopes |-> PReLUParam(pd), axis |-> SoftmaxParam(pd),
         dropout |-> DropoutParam(pd)]

LayerMeant(j, r) ==
    LET given(id, def) == IF id \in j.given THEN id + 20 ELSE def
    IN  /\ <<r.conv.num_output, r.conv.kernel_size, r.conv.dilation, r.conv.stride,
             r.conv.bias_term>> = <<given(0, 0), given(1, 0), given(2, 1), given(3, 1), given(5, 0)>>
        /\ <<r.pool.kernel_w, r.pool.stride_w, r.pool.stride_h, r.pool.pad_left>>
             = <<given(1, 0), given(2, 1), given(2, 1), given(3, 0)>>
        /\ r.pool.kernel_h = given(11, given(1, 0))
        /\ r.pool.pad_right = given(3, 0)
        /\ r.pool.pad_top = given(13, given(3, 0)) /\ r.pool.pad_bottom = r.pool.pad_top
        /\ <<r.inner.num_output, r.inner.bias_term>> = <<given(0, 0), given(1, 0)>>
        /\ r.input.c = given(2, 0) /\ r.slopes.num_slope = given(0, 0) /\ r.axis.axis = given(0, 0)
        /\ 0 \notin j.given => r.dropout.scale = 1

-----------------------------------------------------------------------------
(* base64: bytes survive the way to text and back, in the other alphabet and *)
(* broken into lines too, and a picture arrives as it was sent.              *)

Bytes3 == {0, 63, 64, 191, 251, 255}

CodecJobs == [kind : {"codec"}, bytes : UNION {[1 .. n -> Bytes3] : n \in 0 .. 3},
              tail : {<<>>, <<7, 77>>}, written : {"plain", "url", "lines", "cut"}]

\* What another encoder may make of the same text.
Rewritten(text, how) ==
    LET url(c) == CASE c = 43 -> Dash [] c = 47 -> Underscore [] OTHER -> c
    IN  CASE how = "plain" -> text
          [] how = "url" -> [i \in DOMAIN text |-> url(text[i])]
          [] how = "lines" -> FlattenSeq([i \in DOMAIN text |-> <<text[i], 13, 10>>])
          [] how = "cut" -> SelectSeq(text, LAMBDA c : c # Pad)

CodecResult(j) == base64_decode(Rewritten(base64_encode(j.bytes \o j.tail), j.written))

CodecMeant(j, r) ==
    LET bytes == j.bytes \o j.tail
        jpeg == [m \in {<<1>>, <<2>>} |-> IF m = <<1>> THEN bytes \o <<1>> ELSE bytes \o <<2>>]
        text == base64_encode(bytes)
    IN  /\ r = bytes
        /\ Len(text) = 4 * ((Len(bytes) + 2) \div 3)
        /\ \A m \in DOMAIN jpeg : /\ base64_to_mat(mat_to_base64(m, jpeg), jpeg) = m
                                  /\ str_to_mat(mat_to_str(m, jpeg), jpeg) = m
        /\ base64_to_mat(text, jpeg) = <<>>

-----------------------------------------------------------------------------
(* Configuration: a start succeeds with a file only if nothing it needs is    *)
(* missing, and then every worker has its connection.                        *)

Servers == {<<>>} \cup
    UNION {[1 .. n -> [mode : {"write", "read"}, ip : {"db"}, port : {0, 3306}, db : {"face"},
                       user : {"u"}, pwd : {"", "p"}, chars : {"utf8"}]] : n \in {1, 2}}

ConfJobs == [kind : {"conf"},
             file : [id : {"", "s1"}, ip : {"missing", "a"}, ip_out : {"missing", "", "b"},
                     port : {<<>>, <<65536>>, <<200000>>, <<9000>>},
                     thr_num : {<<>>, <<0>>, <<4>>, <<65540>>},
                     max_queue_size : {<<>>, <<5>>, <<300000>>}, TZ : {"missing"},
                     recognizer : {"missing"},
                     svr : {s \in Servers : Len(s) < 2 \/ s[1] # s[2]}],
             connects : {TRUE, FALSE}]

ConfResult(j) == InitConf(j.file, 8, j.connects)

ConfMeant(j, r) ==
    LET f == j.file
        whole == /\ f.id # "" /\ f.ip = "a" /\ f.ip_out # ""
                 /\ f.port \in {<<200000>>, <<9000>>} /\ f.thr_num # <<0>>
                 /\ f.svr # <<>>
                 /\ \A i \in DOMAIN f.svr :
                      f.svr[i].mode = "write" /\ f.svr[i].port # 0 /\ f.svr[i].pwd # ""
    IN  /\ (r.ret = 0) = (whole /\ j.connects)
        /\ r.ret = 0 =>
             /\ r.sys.port \in 1 .. 65535 /\ r.sys.thr_num \in {4, 8}
             /\ r.sys.max_queue_size >= 100000
             /\ f.max_queue_size = <<300000>> => r.sys.max_queue_size = 300000
             /\ r.mysql.num > r.sys.thr_num
             /\ r.sys.ip_out = IF f.ip_out = "b" THEN "b" ELSE r.sys.ip
             /\ r.recognizer = "recognizer_model_v1.pb"

-----------------------------------------------------------------------------
Kinds == {"view", "border", "resize", "pixel", "scale", "scalar", "half", "param", "weight",
          "conv", "inner", "pool", "soft", "inplace", "layer", "codec", "conf"}

JobsOf(kind) ==
    CASE kind = "view" -> ViewJobs [] kind = "border" -> BorderJobs [] kind = "resize" -> ResizeJobs
      [] kind = "pixel" -> PixelJobs [] kind = "scale" -> ScaleJobs [] kind = "scalar" -> ScalarJobs
      [] kind = "half" -> HalfJobs [] kind = "param" -> ParamJobs [] kind = "weight" -> WeightJobs
      [] kind = "conv" -> ConvJobs [] kind = "inner" -> InnerJobs [] kind = "pool" -> PoolJobs
      [] kind = "soft" -> SoftJobs [] kind = "inplace" -> PlaceJobs [] kind = "layer" -> LayerJobs
      [] kind = "codec" -> CodecJobs [] kind = "conf" -> ConfJobs

ResultOf(j) ==
    CASE j.kind = "view" -> ViewResult(j) [] j.kind = "border" -> BorderResult(j)
      [] j.kind = "resize" -> ResizeResult(j) [] j.kind = "pixel" -> PixelResult(j)
      [] j.kind = "scale" -> ScaleResult(j) [] j.kind = "scalar" -> ScalarResult(j)
      [] j.kind = "half" -> HalfResult(j) [] j.kind = "param" -> ParamResult(j)
      [] j.kind = "weight" -> WeightResult(j) [] j.kind = "conv" -> ConvResult(j)
      [] j.kind = "inner" -> InnerResult(j) [] j.kind = "pool" -> PoolResult(j)
      [] j.kind = "soft" -> SoftResult(j) [] j.kind = "inplace" -> PlaceResult(j)
      [] j.kind = "layer" -> LayerResult(j) [] j.kind = "codec" -> CodecResult(j)
      [] j.kind = "conf" -> ConfResult(j)

AsMeant(j, r) ==
    CASE j.kind = "view" -> ViewMeant(j, r) [] j.kind = "border" -> BorderMeant(j, r)
      [] j.kind = "resize" -> ResizeMeant(j, r) [] j.kind = "pixel" -> PixelMeant(j, r)
      [] j.kind = "scale" -> ScaleMeant(j, r) [] j.kind = "scalar" -> ScalarMeant(j, r)
      [] j.kind = "half" -> HalfMeant(j, r) [] j.kind = "param" -> ParamMeant(j, r)
      [] j.kind = "weight" -> WeightMeant(j, r) [] j.kind = "conv" -> ConvMeant(j, r)
      [] j.kind = "inner" -> InnerMeant(j, r) [] j.kind = "pool" -> PoolMeant(j, r)
      [] j.kind = "soft" -> SoftMeant(j, r) [] j.kind = "inplace" -> PlaceMeant(j, r)
      [] j.kind = "layer" -> LayerMeant(j, r) [] j.kind = "codec" -> CodecMeant(j, r)
      [] j.kind = "conf" -> ConfMeant(j, r)
=============================================================================
