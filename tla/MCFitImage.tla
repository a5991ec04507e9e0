----------------------------- MODULE MCFitImage -----------------------------
(***************************************************************************)
(* A machine with one base board, a second one whose overlay shares a stem *)
(* with it, and an overlay whose file name holds a comma, as               *)
(* talos-evk-lvds-auo,g133han01.dtbo does.                                 *)
(***************************************************************************)
EXTENDS FitImage

CONSTANTS board, cam, lvdsComma, lvds, c1, c2, c3

MCNames == {board, cam, lvdsComma, lvds}
MCEncode == [n \in MCNames |-> IF n = lvdsComma THEN lvds ELSE n]
MCCompats == {c1, c2, c3}
MCFiles == {<<board, "dtb">>, <<cam, "dtbo">>, <<cam, "dtb">>, <<lvdsComma, "dtbo">>}
MCCombos == {<<>>, <<board>>, <<cam>>, <<board, cam>>, <<board, lvds>>,
             <<board, lvdsComma>>, <<board, lvds, cam>>}
=============================================================================
