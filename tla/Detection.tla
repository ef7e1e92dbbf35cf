------------------------------ MODULE Detection ------------------------------
(***************************************************************************)
(* Face detection (mtcnn.cpp): three networks in a row propose boxes, keep *)
(* some of them and move their sides; between them overlapping boxes are   *)
(* suppressed and all are squared and cut to the picture.  What a network  *)
(* answers is any choice from the constants; what the C++ around it does   *)
(* to the boxes is exact.  A picture's crop, RNet and ONet's input, has to *)
(* lie inside the picture, and the suppression has to come to an end.      *)
(***************************************************************************)
EXTENDS Integers, Sequences, FiniteSets, SequencesExt, FiniteSetsExt

CONSTANTS
    Pictures,   \* <<width, height>>; no multiples of ten, see MapSize
    MaxLevel,   \* a scale too small for all of them
    Proposed,   \* PNet's answers at a cell: [score, reg]
    Reviewed,   \* RNet's, of a box it keeps
    Decided,    \* ONet's, of a box it keeps
    MaxFound    \* bound: cells with a score over the threshold

ASSUME PictureAssumption == Pictures \subseteq Nat \X Nat
ASSUME AnswerAssumption ==
    Proposed \cup Reviewed \cup Decided \subseteq [score : Int, reg : [1 .. 4 -> Int]]
ASSUME MaxFoundAssumption == MaxFound \in Nat

(* A box is [x1, y1, x2, y2, score, area, reg]: corners in pixels, score in  *)
(* hundredths and the four regressions in quarters of the box's side.        *)

VARIABLES
    picture,    \* <<width, height>>
    stage,      \* which network runs next, "done", or "broken"
    level,      \* scales of the picture PNet has seen
    boxes,      \* firstBbox_, secondBbox_ or thirdBbox_
    nmsCall,    \* the last suppression: its boxes, result and threshold
    gentle      \* history: no answer so far moved a side by more than a quarter

detVars == <<picture, stage, level, boxes, nmsCall, gentle>>

NoCall == [before |-> <<>>, after |-> <<>>, percent |-> 50, mode |-> "Union"]

-----------------------------------------------------------------------------
(* The pyramid of PNet: scale number k is 12/40 * 0.709^k.                   *)

ScaleNum[k \in Nat] == IF k = 0 THEN 3 ELSE 709 * ScaleNum[k - 1]
ScaleDen[k \in Nat] == IF k = 0 THEN 10 ELSE 1000 * ScaleDen[k - 1]

TooSmall(p, k) ==
    LET min == IF p[1] < p[2] THEN p[1] ELSE p[2]
    IN  min * ScaleNum[k] <= 12 * ScaleDen[k]

ASSUME MaxLevelAssumption ==
    MaxLevel \in Nat /\ \A p \in Pictures : TooSmall(p, MaxLevel)

LevelsOf(p) == Min({k \in 0 .. MaxLevel : TooSmall(p, k)})

\* The score map for a side of n pixels: the size is rounded up (for a
\* multiple of ten the float decides whether by a whole pixel), and the
\* network's windows take the rest.
MapSize(n, k) ==
    LET side == (n * ScaleNum[k] + ScaleDen[k] - 1) \div ScaleDen[k]
    IN  (side - 4 + 1) \div 2 + 1 - 4

\* (int)(i / scale + 0.5)
Pixel(i, k) == (2 * i * ScaleDen[k] + ScaleNum[k]) \div (2 * ScaleNum[k])

CellBox(row, col, k, answer) ==
    LET x1 == Pixel(2 * col + 1, k)
        x2 == Pixel(2 * col + 13, k)
        y1 == Pixel(2 * row + 1, k)
        y2 == Pixel(2 * row + 13, k)
    IN  [x1 |-> x1, y1 |-> y1, x2 |-> x2, y2 |-> y2, score |-> answer.score,
         area |-> (x2 - x1) * (y2 - y1), reg |-> answer.reg]

\* The sequences of n members of S in their order.
Increasing(n, S) == {s \in [1 .. n -> S] : \A i, j \in 1 .. n : i < j => s[i] < s[j]}

\* The cells over 0.8, numbered by rows, and the answer at each.
GenerateBbox(cells, answers, w, k) ==
    [i \in DOMAIN cells |-> CellBox(cells[i] \div w, cells[i] % w, k, answers[i])]

-----------------------------------------------------------------------------
(* nms *)

Lower(a, b) == IF a < b THEN a ELSE b
Higher(a, b) == IF a > b THEN a ELSE b

\* The pixels two boxes share, both borders counted; areas count one border.
Shared(a, b) ==
    Higher(0, Lower(a.x2, b.x2) - Higher(a.x1, b.x1) + 1)
    * Higher(0, Lower(a.y2, b.y2) - Higher(a.y1, b.y1) + 1)

Divisor(a, b, mode) == IF mode = "Union" THEN a.area + b.area - Shared(a, b)
                       ELSE Lower(a.area, b.area)

\* IOU > threshold in floats: over zero it is infinite or not a number, over
\* a negative divisor it is negative.
Overlaps(a, b, percent, mode) ==
    LET d == Divisor(a, b, mode)
    IN  IF d = 0 THEN Shared(a, b) > 0
        ELSE d > 0 /\ 100 * Shared(a, b) > percent * d

BestOf_First(list, S) ==                                         \* mutant
    CHOOSE i \in S : \A j \in S : list[i].score <= list[j].score

\* The best score, of equal ones the last.
BestOf(list, S) ==
    CHOOSE i \in S : \A j \in S : \/ list[j].score < list[i].score
                                 \/ (list[j].score = list[i].score /\ j <= i)

\* The picks in order.  A box that does not overlap itself enough to be taken
\* out is picked again and again, past the end of vPick: that is a 0.
Picks(list, percent, mode) ==
    LET pick[S \in SUBSET DOMAIN list] ==
          LET last == BestOf(list, S)
              rest == {i \in S : ~Overlaps(list[i], list[last], percent, mode)}
          IN  IF S = {} THEN <<>>
              ELSE IF last \in rest THEN <<0>> ELSE <<last>> \o pick[rest]
    IN  pick[DOMAIN list]

Endless(list, percent, mode) == 0 \in Range(Picks(list, percent, mode))

Nms(list, percent, mode) ==
    LET picks == Picks(list, percent, mode)
    IN  [i \in DOMAIN picks |-> list[picks[i]]]

-----------------------------------------------------------------------------
(* refine.  Positions are in 4000ths of a pixel, which the quarters, the 1.1 *)
(* and the 0.02 divide.                                                      *)

Unit == 4000

ToInt(v) == IF v >= 0 THEN v \div Unit ELSE -((-v) \div Unit)

Rounded(v) == ToInt(v + Unit \div 2)

CutHigh_NotCut(v, limit) == v                                    \* mutant

CutHigh(v, limit) == IF v > limit THEN limit - 1 ELSE v

Refined(box, p) ==
    LET bbw == box.x2 - box.x1 + 1
        bbh == box.y2 - box.y1 + 1
        moved(c, i, side) == c * Unit + box.reg[i] * side * (Unit \div 4)
        left == moved(box.x1, 1, bbw)
        top == moved(box.y1, 2, bbh)
        w == moved(box.x2, 3, bbw) - left + Unit
        h == moved(box.y2, 4, bbh) - top + Unit
        maxSide == (Higher(h, w) * 11) \div 10
        x1 == left + w \div 2 - maxSide \div 2
        y1 == top + h \div 2 - maxSide \div 2 + maxSide \div 50
        nx1 == Higher(0, Rounded(x1))
        ny1 == Higher(0, Rounded(y1))
        nx2 == CutHigh(Rounded(x1 + maxSide - Unit), p[1])
        ny2 == CutHigh(Rounded(y1 + maxSide - Unit), p[2])
    IN  [box EXCEPT !.x1 = nx1, !.y1 = ny1, !.x2 = nx2, !.y2 = ny2,
                    !.area = (nx2 - nx1) * (ny2 - ny1)]

Refine(list, p) == [i \in DOMAIN list |-> Refined(list[i], p)]

-----------------------------------------------------------------------------
DetIdle ==
    /\ picture = <<0, 0>> /\ stage = "done" /\ level = 0
    /\ boxes = <<>> /\ nmsCall = NoCall /\ gentle = TRUE

\* detect_face with a new picture.
DetInit ==
    /\ picture \in Pictures
    /\ stage = "pnet" /\ level = 0
    /\ boxes = <<>> /\ nmsCall = NoCall /\ gentle = TRUE

Gently(reg) == \A k \in 1 .. 4 : reg[k] \in -1 .. 1

Notes(answers) ==
    gentle' = (gentle /\ \A i \in DOMAIN answers : Gently(answers[i].reg))

Call(list, percent, mode) ==
    [before |-> list, after |-> Nms(list, percent, mode),
     percent |-> percent, mode |-> mode]

\* Suppression of list; what is left, refined or as it is, joins the earlier
\* boxes of the next stage.
Suppress(list, percent, mode, next, earlier, refined) ==
    IF Endless(list, percent, mode)
    THEN /\ stage' = "broken" /\ boxes' = list
         /\ nmsCall' = [Call(<<>>, percent, mode) EXCEPT !.before = list]
    ELSE /\ nmsCall' = Call(list, percent, mode)
         /\ boxes' = earlier \o (IF refined THEN Refine(nmsCall'.after, picture)
                                ELSE nmsCall'.after)
         /\ stage' = next

\* PNet at one scale: found is any choice of at most MaxFound cells.
PNet ==
    /\ stage = "pnet" /\ level < LevelsOf(picture)
    /\ LET w == MapSize(picture[1], level)
           h == MapSize(picture[2], level)
       IN  \E n \in 0 .. MaxFound - Len(boxes) :
           \E cells \in Increasing(n, 0 .. w * h - 1), answers \in [1 .. n -> Proposed] :
              /\ Suppress(GenerateBbox(cells, answers, w, level), 50, "Union", "pnet",
                          boxes, FALSE)
              /\ Notes(answers)
    /\ level' = level + 1
    /\ UNCHANGED picture

\* All scales seen; without a box detect_face returns no faces.
FirstNms ==
    /\ stage = "pnet" /\ level = LevelsOf(picture)
    /\ IF boxes = <<>> THEN stage' = "done" /\ UNCHANGED <<boxes, nmsCall>>
       ELSE Suppress(boxes, 50, "Union", "rnet", <<>>, TRUE)
    /\ UNCHANGED <<picture, level, gentle>>

\* The boxes the network keeps, each with its answer; the others are dropped.
Kept(list, kept, verdict) ==
    LET reviewed(b, v) == [b EXCEPT !.score = v.score, !.reg = v.reg,
                                    !.area = (b.x2 - b.x1) * (b.y2 - b.y1)]
    IN  [k \in DOMAIN kept |-> reviewed(list[kept[k]], verdict[k])]

RNet ==
    /\ stage = "rnet"
    /\ \E n \in DOMAIN boxes :
       \E kept \in Increasing(n, DOMAIN boxes), verdict \in [1 .. n -> Reviewed] :
          /\ Suppress(Kept(boxes, kept, verdict), 70, "Union", "onet", <<>>, TRUE)
          /\ Notes(verdict)
    /\ UNCHANGED <<picture, level>>

\* The last stage refines first and suppresses by the smaller box.
ONet ==
    /\ stage = "onet"
    /\ \E n \in DOMAIN boxes :
       \E kept \in Increasing(n, DOMAIN boxes), verdict \in [1 .. n -> Decided] :
          /\ Suppress(Refine(Kept(boxes, kept, verdict), picture), 70, "Min", "done",
                      <<>>, FALSE)
          /\ Notes(verdict)
    /\ UNCHANGED <<picture, level>>

\* None is kept: detect_face returns no faces.
NoneKept ==
    /\ stage \in {"rnet", "onet"}
    /\ stage' = "done" /\ boxes' = <<>>
    /\ UNCHANGED <<picture, level, nmsCall, gentle>>

\* The box's part of the picture can be cut out and scaled: resize_bilinear
\* reads two columns and two rows of it. The networks' input of another box is
\* read or written beside its buffers: they answer anything, or the process dies.
Croppable(b) == b.x1 + 2 <= b.x2 /\ b.y1 + 2 <= b.y2

CutOutside ==
    /\ stage \in {"rnet", "onet"}
    /\ \E i \in DOMAIN boxes : ~Croppable(boxes[i])
    /\ stage' = "broken"
    /\ UNCHANGED <<picture, level, boxes, nmsCall, gentle>>

DetNext == PNet \/ FirstNms \/ RNet \/ ONet \/ NoneKept \/ CutOutside

-----------------------------------------------------------------------------
\* Whatever boxes a suppression is given: no two it leaves overlap by more than
\* the threshold, and each one it took out overlaps one that is left and has at
\* least its score (MTCNN::nms, mtcnn.cpp:87-141).
NmsSound ==
    LET c == nmsCall
        over(a, b) == Overlaps(a, b, c.percent, c.mode)
    IN  stage # "broken" =>
          /\ \A i, j \in DOMAIN c.after : i # j => ~over(c.after[i], c.after[j])
          /\ \A i \in DOMAIN c.before :
               \E j \in DOMAIN c.after :
                  /\ over(c.before[i], c.after[j])
                  /\ c.after[j].score >= c.before[i].score

\* The boxes that are cut out of the picture, for RNet, for ONet and at last by
\* the recognizer and the reply. Whatever the networks answer, none begins before
\* the picture or ends behind it, and detection breaks down (a suppression that
\* never ends, a cut or a scaling beside its source) only over a box less than
\* three pixels wide or high. Nothing in the code keeps the answers from making
\* such a box; as long as none moves a side by more than a quarter of it there
\* is none: nothing breaks down, and what is cut out is at least two pixels wide
\* and high (mtcnn.cpp:87-196, 232-286).
FacesInside ==
    LET Cut == stage \in {"rnet", "onet", "done"}
    IN  /\ Cut => \A i \in DOMAIN boxes :
                   /\ 0 <= boxes[i].x1 /\ boxes[i].x2 <= picture[1]
                   /\ 0 <= boxes[i].y1 /\ boxes[i].y2 <= picture[2]
        /\ stage = "broken" => \E i \in DOMAIN boxes :
                   boxes[i].x2 < boxes[i].x1 + 3 \/ boxes[i].y2 < boxes[i].y1 + 3
        /\ gentle => /\ stage # "broken"
                     /\ Cut => \A i \in DOMAIN boxes : Croppable(boxes[i])
=============================================================================
