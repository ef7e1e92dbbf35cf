------------------------------ MODULE ParamDict ------------------------------
(***************************************************************************)
(* The parameters of a layer (ncnn/paramdict.cpp, paramdict.h): numbered   *)
(* values that a line of the text file, or a run of words of the binary,   *)
(* sets, and that the layer reads as it likes: a value is kept as its bits *)
(* and get() does not know how they were written.                          *)
(***************************************************************************)
EXTENDS Integers, Sequences, SequencesExt

MaxParamCount == 20                              \* NCNN_MAX_PARAM_COUNT

\* A value as it is written: with a point (float) or without (int).
Value(n, isFloat) == [n |-> n, isFloat |-> isFloat]

\* The bits of one kind read as the other are some other number.
OtherBits == -999

\* A key that announces an array is at most -23300.
ArrayKey(id) == -id - 23300
IsArray(key) == key <= -23300
IdOf(key) == IF IsArray(key) THEN ArrayKey(key) ELSE key

NoParam == [loaded |-> FALSE, scalar |-> Value(0, FALSE), v |-> <<>>]

\* clear() resets the marks only: what an earlier layer left stays behind.
Clear(pd) == [id \in 0 .. MaxParamCount - 1 |-> [pd[id] EXCEPT !.loaded = FALSE]]

Empty == [id \in 0 .. MaxParamCount - 1 |-> NoParam]

\* One key=value of a line; values is a sequence, of one value for a scalar.
Set(pd, key, values) ==
    IF IsArray(key)
    THEN [pd EXCEPT ![IdOf(key)].v = values, ![IdOf(key)].loaded = TRUE]
    ELSE [pd EXCEPT ![key].scalar = values[1], ![key].loaded = TRUE]

\* The text: a sequence of [key, len, values] where an array says its length
\* and the values that can be scanned follow.  A short array or an unreadable
\* value ends the load with -1.
LoadText(pd, line) ==
    LET needed(t) == IF IsArray(t.key) THEN t.len ELSE 1
        bad == {i \in DOMAIN line : Len(line[i].values) < needed(line[i])}
        step(d, t) == Set(d, t.key, SubSeq(t.values, 1, needed(t)))
        good == IF bad = {} THEN line
                ELSE SubSeq(line, 1, (CHOOSE i \in bad : \A j \in bad : i <= j) - 1)
    IN  [ret |-> IF bad = {} THEN 0 ELSE -1, pd |-> FoldLeft(step, Clear(pd), good)]

\* The binary: key, then len and len words for an array or one word, up to
\* the key -233.  Words keep how they are to be read.
EndKey == -233

LoadBin(pd, words) ==
    LET read[i \in 1 .. Len(words)] ==      \* the dictionary from word i on
          IF words[i].n = EndKey THEN [fill |-> <<>>, next |-> i + 1]
          ELSE LET array == IsArray(words[i].n)
                   len == IF array THEN words[i + 1].n ELSE 1
                   first == IF array THEN i + 2 ELSE i + 1
                   rest == read[first + len]
               IN  [fill |-> <<[key |-> words[i].n,
                                values |-> SubSeq(words, first, first + len - 1)]>>
                             \o rest.fill,
                    next |-> rest.next]
        all == read[1]
        step(d, t) == Set(d, t.key, t.values)
    IN  [pd |-> FoldLeft(step, Clear(pd), all.fill),
         rest |-> SubSeq(words, all.next, Len(words))]

\* The same over memory instead of a file.
LoadMem(pd, words) == LoadBin(pd, words)

GetInt(pd, id, def) ==
    IF ~pd[id].loaded THEN def
    ELSE IF pd[id].scalar.isFloat THEN OtherBits ELSE pd[id].scalar.n

GetFloat(pd, id, def) ==
    IF ~pd[id].loaded THEN def
    ELSE IF pd[id].scalar.isFloat THEN pd[id].scalar.n ELSE OtherBits

GetArray(pd, id, def) == IF pd[id].loaded THEN pd[id].v ELSE def
=============================================================================
