------------------------------- MODULE Pixels -------------------------------
(***************************************************************************)
(* Pixels to and from Mats (ncnn/mat_pixel.cpp).  A picture is a function  *)
(* from 0 .. n*w*h-1 to bytes, n bytes per pixel, rows from top to bottom. *)
(* The NEON branches do the same eight pixels at a time and are not kept   *)
(* apart.                                                                  *)
(***************************************************************************)
EXTENDS Mats

Saturate(v) == IF v < 0 THEN 0 ELSE IF v > 255 THEN 255 ELSE v

\* Channel q of the Mat is byte pick[q + 1] of each pixel of n bytes.
Unpack(px, n, w, h, pick) ==
    LET value(q, y, x) == px[n * (w * y + x) + pick[q + 1]]
    IN  Image(3, w, h, Len(pick), value)

\* Byte b of each pixel is channel pick[b + 1] of the Mat.
Pack(m, pick) ==
    LET n == Len(pick)
    IN  [i \in 0 .. n * m.w * m.h - 1 |->
           Saturate(m.data[m.cstep * pick[(i % n) + 1] + i \div n])]

\* 0.299 R + 0.587 G + 0.114 B in 256ths; r and b are the places of the bytes.
Gray(px, n, w, h, r, b) ==
    LET value(q, y, x) ==
          LET p == n * (w * y + x)
          IN  (77 * px[p + r] + 150 * px[p + 1] + 29 * px[p + b]) \div 256
    IN  Image(3, w, h, 1, value)

FromRgb(px, w, h) == Unpack(px, 3, w, h, <<0, 1, 2>>)
FromGray(px, w, h) == Unpack(px, 1, w, h, <<0>>)
FromRgba(px, w, h) == Unpack(px, 4, w, h, <<0, 1, 2, 3>>)
FromRgb2Bgr(px, w, h) == Unpack(px, 3, w, h, <<2, 1, 0>>)
FromGray2Rgb(px, w, h) == Unpack(px, 1, w, h, <<0, 0, 0>>)
FromRgba2Rgb(px, w, h) == Unpack(px, 4, w, h, <<0, 1, 2>>)
FromRgba2Bgr(px, w, h) == Unpack(px, 4, w, h, <<2, 1, 0>>)
FromRgb2Gray(px, w, h) == Gray(px, 3, w, h, 0, 2)
FromBgr2Gray(px, w, h) == Gray(px, 3, w, h, 2, 0)
FromRgba2Gray(px, w, h) == Gray(px, 4, w, h, 0, 2)

ToRgb(m) == Pack(m, <<0, 1, 2>>)
ToGray(m) == Pack(m, <<0>>)
ToRgba(m) == Pack(m, <<0, 1, 2, 3>>)
ToBgr2Rgb(m) == Pack(m, <<2, 1, 0>>)

-----------------------------------------------------------------------------
(* A pixel type is the format it is in and the one it is converted to; equal *)
(* when nothing is to be converted.                                          *)

Size == [RGB |-> 3, BGR |-> 3, GRAY |-> 1, RGBA |-> 4]

FromPixels(px, from, to, w, h) ==
    CASE <<from, to>> \in {<<"RGB", "BGR">>, <<"BGR", "RGB">>} -> FromRgb2Bgr(px, w, h)
      [] <<from, to>> = <<"RGB", "GRAY">> -> FromRgb2Gray(px, w, h)
      [] <<from, to>> = <<"BGR", "GRAY">> -> FromBgr2Gray(px, w, h)
      [] from = "GRAY" /\ to \in {"RGB", "BGR"} -> FromGray2Rgb(px, w, h)
      [] <<from, to>> = <<"RGBA", "RGB">> -> FromRgba2Rgb(px, w, h)
      [] <<from, to>> = <<"RGBA", "BGR">> -> FromRgba2Bgr(px, w, h)
      [] <<from, to>> = <<"RGBA", "GRAY">> -> FromRgba2Gray(px, w, h)
      [] from = to /\ from \in {"RGB", "BGR"} -> FromRgb(px, w, h)
      [] from = to /\ from = "GRAY" -> FromGray(px, w, h)
      [] from = to /\ from = "RGBA" -> FromRgba(px, w, h)
      [] OTHER -> NoMat

\* For the other conversions the code writes nothing; none is asked for.
ToPixels(m, from, to) ==
    CASE <<from, to>> \in {<<"RGB", "BGR">>, <<"BGR", "RGB">>} -> ToBgr2Rgb(m)
      [] from = to /\ from \in {"RGB", "BGR"} -> ToRgb(m)
      [] from = to /\ from = "GRAY" -> ToGray(m)
      [] from = to /\ from = "RGBA" -> ToRgba(m)

-----------------------------------------------------------------------------
(* The fixed point resize: weights are 2048ths in 16 bits, a row keeps 7 bits *)
(* of fraction in 16 bits.                                                   *)

ToShort(v) == ((v + 32768) % 65536) - 32768
ToByte(v) == v % 256

\* Rounding half away from zero, of num/den.
Round(num, den) == IF num >= 0 THEN (2 * num + den) \div (2 * den)
                   ELSE -((den - 2 * num) \div (2 * den))

FixedCoefficient(n, w, d) ==
    LET k == Coefficient(n, w, d)
    IN  [ofs |-> k.ofs, a0 |-> Round((2 * w - k.frac) * 2048, 2 * w),
         a1 |-> Round(k.frac * 2048, 2 * w)]

\* Row sy of the source, resized; i counts the bytes of the new row.
FixedRow(px, n, srcw, w, sy) ==
    [i \in 0 .. n * w - 1 |->
       LET k == FixedCoefficient(srcw, w, i \div n)
           s == n * (srcw * sy + k.ofs) + (i % n)
       IN  ToShort((px[s] * k.a0 + px[s + n] * k.a1) \div 16)]

\* The row buffers of the one byte version: as in Mats, a row is used again.
RowsC1(px, srcw, srch, w, h) ==
    LET rows[dy \in 0 .. h - 1] ==
          LET sy == FixedCoefficient(srch, h, dy).ofs
              next == FixedRow(px, 1, srcw, w, sy + 1)
          IN  IF dy > 0 /\ sy = FixedCoefficient(srch, h, dy - 1).ofs + 1
              THEN <<rows[dy - 1][2], next>>
              ELSE <<FixedRow(px, 1, srcw, w, sy), next>>
    IN  rows

\* With three or four bytes the offsets are multiples of that number but the
\* next row is expected one further, so no row is ever used again.
RowsCn(px, n, srcw, srch, w, h) ==
    [dy \in 0 .. h - 1 |->
       LET sy == FixedCoefficient(srch, h, dy).ofs
       IN  <<FixedRow(px, n, srcw, w, sy), FixedRow(px, n, srcw, w, sy + 1)>>]

Blend(rows, n, srch, w, h) ==
    [i \in 0 .. n * w * h - 1 |->
       LET dy == i \div (n * w)
           k == FixedCoefficient(srch, h, dy)
           r == rows[dy]
           at == i % (n * w)
       IN  ToByte(((k.a0 * r[1][at]) \div 65536 + (k.a1 * r[2][at]) \div 65536 + 2)
                  \div 4)]

ResizeC1(px, srcw, srch, w, h) ==
    Blend(RowsC1(px, srcw, srch, w, h), 1, srch, w, h)
ResizeC3(px, srcw, srch, w, h) ==
    Blend(RowsCn(px, 3, srcw, srch, w, h), 3, srch, w, h)
ResizeC4(px, srcw, srch, w, h) ==
    Blend(RowsCn(px, 4, srcw, srch, w, h), 4, srch, w, h)

ResizeAny(px, format, srcw, srch, w, h) ==
    CASE Size[format] = 1 -> ResizeC1(px, srcw, srch, w, h)
      [] Size[format] = 3 -> ResizeC3(px, srcw, srch, w, h)
      [] Size[format] = 4 -> ResizeC4(px, srcw, srch, w, h)

FromPixelsResize(px, from, to, w, h, tw, th) ==
    IF w = tw /\ h = th THEN FromPixels(px, from, to, w, h)
    ELSE FromPixels(ResizeAny(px, from, w, h, tw, th), from, to, tw, th)

ToPixelsResize(m, from, to, tw, th) ==
    IF m.w = tw /\ m.h = th THEN ToPixels(m, from, to)
    ELSE ResizeAny(ToPixels(m, from, to), to, m.w, m.h, tw, th)
=============================================================================
