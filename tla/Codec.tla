-------------------------------- MODULE Codec --------------------------------
(***************************************************************************)
(* Pictures as text in requests and replies (codecs.cpp): base64 over      *)
(* sequences of bytes and of character codes, and the JPEG conversions,    *)
(* which are OpenCV's.                                                     *)
(***************************************************************************)
EXTENDS Integers, Sequences, SequencesExt

Base64Chars == [i \in 0 .. 63 |-> CASE i < 26 -> 65 + i             \* A-Z
                                    [] i \in 26 .. 51 -> 71 + i     \* a-z
                                    [] i \in 52 .. 61 -> i - 4      \* 0-9
                                    [] i = 62 -> 43                 \* +
                                    [] i = 63 -> 47]                \* /

Pad == 61                                                           \* =
Dash == 45
Underscore == 95
NewLine == {10, 13}

IsBase64(c) == \/ \E i \in 0 .. 63 : Base64Chars[i] = c
               \/ c \in {Dash, Underscore} \cup NewLine

\* find() in a byte; npos becomes 255.
Find(c) == IF \E i \in 0 .. 63 : Base64Chars[i] = c
           THEN CHOOSE i \in 0 .. 63 : Base64Chars[i] = c ELSE 255

\* Three bytes as four sextets, and four bytes' low bits as three bytes.
Sextets(b) == <<b[1] \div 4, (b[1] % 4) * 16 + b[2] \div 16,
                (b[2] % 16) * 4 + b[3] \div 64, b[3] % 64>>

Octets(s) == <<(s[1] * 4 + (s[2] % 64) \div 16) % 256,
               ((s[2] % 16) * 16 + (s[3] % 64) \div 4) % 256,
               ((s[3] % 4) * 64 + s[4]) % 256>>

\* Group k (from 0) of n elements of s, filled up with zeros.
Group(s, n, k) == [j \in 1 .. n |-> IF n * k + j <= Len(s) THEN s[n * k + j] ELSE 0]

base64_encode(bytes) ==
    LET quad(k) == LET s == Sextets(Group(bytes, 3, k))
                   IN  [j \in 1 .. 4 |-> Base64Chars[s[j]]]
        whole == FlattenSeq([k \in 1 .. Len(bytes) \div 3 |-> quad(k - 1)])
        i == Len(bytes) % 3
    IN  IF i = 0 THEN whole
        ELSE whole \o SubSeq(quad(Len(bytes) \div 3), 1, i + 1)
                   \o [j \in 1 .. 3 - i |-> Pad]

\* The characters up to a pad or one that is none of base64, the other
\* alphabet's two translated, line ends left out.
Accepted(text) ==
    LET stop == {i \in DOMAIN text : ~IsBase64(text[i])}
        upto == IF stop = {} THEN text
                ELSE SubSeq(text, 1, (CHOOSE i \in stop : \A j \in stop : i <= j) - 1)
        plain(c) == CASE c = Dash -> 43 [] c = Underscore -> 47 [] OTHER -> c
        kept == SelectSeq(upto, LAMBDA c : c \notin NewLine)
    IN  [i \in DOMAIN kept |-> plain(kept[i])]

base64_decode(text) ==
    LET chars == Accepted(text)
        triple(k) == LET g == Group(chars, 4, k)
                     IN  Octets([j \in 1 .. 4 |-> Find(g[j])])
        whole == FlattenSeq([k \in 1 .. Len(chars) \div 4 |-> triple(k - 1)])
        i == Len(chars) % 4
    IN  IF i = 0 THEN whole ELSE whole \o SubSeq(triple(Len(chars) \div 4), 1, i - 1)

\* imencode and imdecode: jpeg maps a picture to its bytes.  Bytes that are no
\* picture, and no bytes, give the empty picture <<>>.
mat_to_base64(m, jpeg) == base64_encode(jpeg[m])

ImDecode(bytes, jpeg) == IF \E m \in DOMAIN jpeg : jpeg[m] = bytes
                         THEN CHOOSE m \in DOMAIN jpeg : jpeg[m] = bytes ELSE <<>>

base64_to_mat(text, jpeg) ==
    LET decoded == base64_decode(text)
    IN  IF decoded = <<>> THEN <<>> ELSE ImDecode(decoded, jpeg)

mat_to_str(m, jpeg) == jpeg[m]
str_to_mat(bytes, jpeg) == IF bytes = <<>> THEN <<>> ELSE ImDecode(bytes, jpeg)
=============================================================================
