------------------------------- MODULE MCVision -------------------------------
(***************************************************************************)
(* Vision for TLC: small networks, pictures, answers and faces.            *)
(***************************************************************************)
EXTENDS Vision

(* Networks: one shaped like PNet (two outputs of one body), one with Splits *)
(* whose branches end in layers that work in place; a file with a wrong      *)
(* magic number, two with weights that break off, one with an unknown layer. *)
L(type, name, bottoms, tops) ==
    [type |-> type, name |-> name, bottoms |-> bottoms, tops |-> tops]

Body == << L("Input", "data", <<>>, <<"data">>),
           L("Convolution", "conv1", <<"data">>, <<"conv1">>),
           L("PReLU", "relu1", <<"conv1">>, <<"relu1">>),
           L("Split", "split1", <<"relu1">>, <<"s0", "s1">>),
           L("Convolution", "conv4-1", <<"s0">>, <<"conv4-1">>),
           L("Convolution", "conv4-2", <<"s1">>, <<"conv4-2">>),
           L("Softmax", "prob1", <<"conv4-1">>, <<"prob1">>) >>

Branches == << L("Input", "data", <<>>, <<"data">>),
               L("Split", "split1", <<"data">>, <<"s0", "s1">>),
               L("PReLU", "relu1", <<"s0">>, <<"r1">>),
               L("Split", "split2", <<"r1">>, <<"t0", "t1">>),
               L("Dropout", "drop", <<"t0">>, <<"d">>),
               L("Softmax", "soft", <<"t1">>, <<"p">>),
               L("PReLU", "relu2", <<"s1">>, <<"r2">>) >>

Weighted == <<"conv1", "relu1", "conv4-1", "conv4-2">>

File(magic, lines, weights) == [magic |-> magic, lines |-> lines, weights |-> weights]

MCFiles ==
    { File(TRUE, Body, Weighted), File(TRUE, Branches, <<"relu1", "relu2">>),
      File(FALSE, Body, Weighted), File(TRUE, Body, <<"conv1", "relu1">>),
      File(TRUE, Branches, <<>>),
      File(TRUE, Append(Body, L("Eltwise", "sum", <<"prob1">>, <<"out">>)), Weighted) }

(* Pictures of one and of two scales; boxes that stay, shrink, grow and move, *)
(* by a quarter or so far that they turn inside out or leave the picture.     *)
MCPictures == {<<48, 52>>, <<58, 61>>}

Answer(score, reg) == [score |-> score, reg |-> reg]
MCProposed == { Answer(85, <<0, 0, 0, 0>>), Answer(95, <<1, 1, -1, -1>>),
                Answer(90, <<1, -1, 1, 1>>), Answer(90, <<2, 2, -2, -2>>),
                Answer(85, <<8, 0, 8, 0>>) }
MCReviewed == { Answer(85, <<-1, -1, 1, 1>>), Answer(95, <<1, 1, 1, 1>>),
                Answer(85, <<1, 1, -1, -1>>), Answer(90, <<2, 2, -2, -2>>),
                Answer(85, <<3, 0, -1, 0>>) }
MCDecided == { Answer(70, <<0, 0, 0, 0>>), Answer(70, <<1, 1, 1, 1>>),
               Answer(95, <<1, 1, -1, -1>>), Answer(70, <<2, 2, -2, -2>>),
               Answer(70, <<-8, 0, -8, 0>>) }

(* Faces at different distances; two digits change the third.               *)
MCFaces == {<<960, 280>>, <<800, 600>>, <<352, 936>>, <<-936, 352>>}
=============================================================================
