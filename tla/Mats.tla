-------------------------------- MODULE Mats --------------------------------
(***************************************************************************)
(* The Mat of ncnn (ncnn/mat.h, ncnn/mat.cpp): a vector, an image or a     *)
(* stack of channels over one flat buffer.  In a stack every channel       *)
(* starts at a multiple of 16 bytes, so there may be a gap between two of  *)
(* them; all code that walks a buffer has to know about it.  A Mat is a    *)
(* value here; who shares the buffer is the subject of NcnnNet.  Elements  *)
(* are integers; where the code divides, the result is scaled, see below.  *)
(***************************************************************************)
EXTENDS Integers, Sequences

\* What an allocated and never written element holds.
Junk == -1000000

Bytes == 4                                            \* sizeof(float)

AlignSize(sz, n) == ((sz + n - 1) \div n) * n

\* The distance of two channels, in elements.
CStep(dims, w, h) ==
    IF dims = 3 THEN AlignSize(w * h * Bytes, 16) \div Bytes ELSE w * h

NoMat == [dims |-> 0, w |-> 0, h |-> 0, c |-> 0, cstep |-> 0, data |-> <<>>]

Total(m) == m.cstep * m.c

IsEmpty(m) == m.dims = 0 \/ Total(m) = 0

\* Mat::create; value(i) is what the caller then writes at offset i.
Filled(dims, w, h, c, value(_)) ==
    LET cstep == CStep(dims, w, h)
    IN  [dims |-> dims, w |-> w, h |-> h, c |-> c, cstep |-> cstep,
         data |-> [i \in 0 .. cstep * c - 1 |-> value(i)]]

Create(dims, w, h, c) == LET junk(i) == Junk IN Filled(dims, w, h, c, junk)

Channel(m, q) ==
    [dims |-> 2, w |-> m.w, h |-> m.h, c |-> 1, cstep |-> m.w * m.h,
     data |-> [i \in 0 .. m.w * m.h - 1 |-> m.data[m.cstep * q + i]]]

Row(m, y) == [x \in 0 .. m.w - 1 |-> m.data[m.w * y + x]]

At(m, q, y, x) == m.data[m.cstep * q + m.w * y + x]

\* The elements without the gaps, in the order of channel, row and column.
Elements(m) ==
    [i \in 0 .. m.w * m.h * m.c - 1 |->
       m.data[m.cstep * (i \div (m.w * m.h)) + (i % (m.w * m.h))]]

\* A stack from its elements, the gaps left as they are allocated.
Image(dims, w, h, c, value(_, _, _)) ==
    LET cstep == CStep(dims, w, h)
        at(i) == IF i % cstep >= w * h THEN Junk
                 ELSE value(i \div cstep, (i % cstep) \div w, (i % cstep) % w)
    IN  Filled(dims, w, h, c, at)

-----------------------------------------------------------------------------
(* Copies and views *)

Clone(m) ==
    LET copied(i) == m.data[i]
    IN  IF IsEmpty(m) THEN NoMat ELSE Filled(m.dims, m.w, m.h, m.c, copied)

\* fill: the multiples of eight and then the rest, over gaps and all.
Fill(m, v) ==
    LET n == Total(m)
    IN  [m EXCEPT !.data = [i \in 0 .. n - 1 |->
           IF i < 8 * (n \div 8) + (n % 8) THEN v ELSE m.data[i]]]

\* The memcpy of each channel to its place in a buffer without gaps.
Flatten(m, dims, w, h) ==
    LET size == m.w * m.h
        from(i) == m.data[(i \div size) * m.cstep + (i % size)]
    IN  Filled(dims, w, h, 1, from)

Reshaped(m, dims, w, h, c) ==
    [m EXCEPT !.dims = dims, !.w = w, !.h = h, !.c = c,
              !.cstep = CStep(dims, w, h)]

HasGaps(m) == m.dims = 3 /\ m.cstep # m.w * m.h

Reshape1(m, w) ==
    IF m.w * m.h * m.c # w THEN NoMat
    ELSE IF HasGaps(m) THEN Flatten(m, 1, w, 1)
    ELSE Reshaped(m, 1, w, 1, 1)

Reshape2(m, w, h) ==
    IF m.w * m.h * m.c # w * h THEN NoMat
    ELSE IF HasGaps(m) THEN Flatten(m, 2, w, h)
    ELSE Reshaped(m, 2, w, h, 1)

\* The other way: each channel copied to its aligned place.
AlignChannels(m, w, h, c) ==
    LET cstep == CStep(3, w, h)
        from(i) == IF i % cstep < w * h
                   THEN m.data[(i \div cstep) * w * h + (i % cstep)] ELSE Junk
    IN  Filled(3, w, h, c, from)

Reshape3(m, w, h, c) ==
    LET n == IF m.dims = 3 /\ m.c # c THEN Reshape1(m, w * h * c) ELSE m
    IN  IF m.w * m.h * m.c # w * h * c THEN NoMat
        ELSE IF n.dims < 3 /\ w * h # CStep(3, w, h)
             THEN AlignChannels(n, w, h, c)
             ELSE Reshaped(n, 3, w, h, c)

-----------------------------------------------------------------------------
(* Arithmetic.  mean and norm are a sequence per channel or <<>> (the null  *)
(* pointer); only the w*h elements of a channel are touched.                *)

SubstractMeanNormalize(m, mean, norm) ==
    LET change(q, v) == CASE mean # <<>> /\ norm = <<>> -> v - mean[q + 1]
                          [] mean = <<>> /\ norm # <<>> -> v * norm[q + 1]
                          [] mean # <<>> /\ norm # <<>> ->
                               (v - mean[q + 1]) * norm[q + 1]
                          [] OTHER -> v
    IN  [m EXCEPT !.data = [i \in 0 .. Total(m) - 1 |->
           IF i % m.cstep < m.w * m.h
           THEN change(i \div m.cstep, m.data[i]) ELSE m.data[i]]]

\* A half precision number by its three fields, and the single precision
\* number it becomes by its own (the upper ten bits of the significand).
\* shift doubles a denormal significand until its highest bit is set.
shift[s \in 1 .. 1023] == IF s >= 512 THEN <<s, 0>>
                          ELSE <<shift[2 * s][1], shift[2 * s][2] + 1>>

HalfToFloat(sign, exponent, significand) ==
    CASE exponent = 0 /\ significand = 0 -> [sign |-> sign, exp |-> 0, sig |-> 0]
      [] exponent = 0 /\ significand # 0 ->
           [sign |-> sign, exp |-> 127 - 15 - shift[significand][2],
            sig |-> (2 * shift[significand][1]) % 1024]
      [] exponent = 31 -> [sign |-> sign, exp |-> 255, sig |-> significand]
      [] OTHER -> [sign |-> sign, exp |-> exponent + 127 - 15, sig |-> significand]

FromFloat16(halves) ==
    LET value(i) == HalfToFloat(halves[i + 1][1], halves[i + 1][2], halves[i + 1][3])
    IN  IF halves = <<>> THEN NoMat ELSE Filled(1, Len(halves), 1, 1, value)

-----------------------------------------------------------------------------
(* Borders.  type is "constant" (with the value v) or "replicate".          *)

\* Where the source pixel of row y of the output lies: the pointer moves in
\* the centre rows only and steps one row back for the rows below.
SourceRow(src, top, y) ==
    IF y < top THEN 0 ELSE IF y < top + src.h THEN y - top ELSE src.h - 1

MakeBorderImage(src, w, h, top, left, type, v) ==
    LET inside(y, x) == y \in top .. top + src.h - 1 /\ x \in left .. left + src.w - 1
        column(x) == IF x < left THEN 0
                     ELSE IF x < left + src.w THEN x - left ELSE src.w - 1
        value(i) == IF type = "constant" /\ ~inside(i \div w, i % w) THEN v
                    ELSE src.data[SourceRow(src, top, i \div w) * src.w + column(i % w)]
    IN  Filled(2, w, h, 1, value)

\* A new stack whose channel q is images[q], made of channel q of src.
PerChannel(src, w, h, images) ==
    LET value(q, y, x) == images[q].data[w * y + x]
    IN  IF w <= 0 \/ h <= 0 THEN NoMat
        ELSE IF src.dims = 2 THEN images[0] ELSE Image(3, w, h, src.c, value)

MakeBorder(src, top, bottom, left, right, type, v) ==
    LET w == src.w + left + right
        h == src.h + top + bottom
        images == [q \in 0 .. src.c - 1 |->
                     MakeBorderImage(Channel(src, q), w, h, top, left, type, v)]
    IN  IF w = src.w /\ h = src.h THEN src ELSE PerChannel(src, w, h, images)

CutBorderImage(src, w, h, top, left) ==
    LET value(i) == src.data[src.w * top + left + src.w * (i \div w) + (i % w)]
    IN  Filled(2, w, h, 1, value)

CutBorder(src, top, bottom, left, right) ==
    LET w == src.w - left - right
        h == src.h - top - bottom
        images == [q \in 0 .. src.c - 1 |-> CutBorderImage(Channel(src, q), w, h, top, left)]
    IN  IF w = src.w /\ h = src.h THEN src ELSE PerChannel(src, w, h, images)

-----------------------------------------------------------------------------
(* Bilinear resize.  A coordinate (dx + 0.5) * n / w - 0.5 is a number of    *)
(* 2w-ths; the weights are too, and the result is in (2w)(2h)-ths.          *)

\* The C conversion to int: towards zero, so the first coordinate of an
\* enlarged image, which is negative, keeps its (negative) fraction.
Truncate(n, d) == IF n >= 0 THEN n \div d ELSE -((-n) \div d)

\* Offset of the left (upper) sample and the weight of the right (lower) one.
Coefficient(n, w, d) ==
    LET f == (2 * d + 1) * n - w
        s == Truncate(f, 2 * w)
    IN  IF s >= n - 1 THEN [ofs |-> n - 2, frac |-> 2 * w]
        ELSE [ofs |-> s, frac |-> f - s * 2 * w]

\* One row of the source, resized to w.
HResize(src, w, sy) ==
    [dx \in 0 .. w - 1 |->
       LET k == Coefficient(src.w, w, dx)
       IN  src.data[src.w * sy + k.ofs] * (2 * w - k.frac)
           + src.data[src.w * sy + k.ofs + 1] * k.frac]

\* The two row buffers while output rows 0 .. dy are made: when the next
\* pair of rows begins with the row the last one ended with, the buffers
\* change places and one row is computed.
Buffers(src, w, h) ==
    LET buf[dy \in 0 .. h - 1] ==
          LET sy == Coefficient(src.h, h, dy).ofs
          IN  IF dy > 0 /\ sy = Coefficient(src.h, h, dy - 1).ofs + 1
              THEN <<buf[dy - 1][2], HResize(src, w, sy + 1)>>
              ELSE <<HResize(src, w, sy), HResize(src, w, sy + 1)>>
    IN  buf

ResizeImage(src, w, h) ==
    LET buf == Buffers(src, w, h)
        value(i) == LET frac == Coefficient(src.h, h, i \div w).frac
                    IN  buf[i \div w][1][i % w] * (2 * h - frac)
                        + buf[i \div w][2][i % w] * frac
    IN  Filled(2, w, h, 1, value)

Resize(src, w, h) ==
    LET images == [q \in 0 .. src.c - 1 |-> ResizeImage(Channel(src, q), w, h)]
    IN  IF w = src.w /\ h = src.h THEN src ELSE PerChannel(src, w, h, images)
=============================================================================
