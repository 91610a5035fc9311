------------------------------ MODULE MCHogTrans ------------------------------
(***************************************************************************)
(* The blocks of both trackers in small: an image of 8 pixels a row with   *)
(* the block that is all of it and two that lie in it, larger than the     *)
(* result, of its size and smaller; an image of the size of the result;    *)
(* a block of three rows that begin in any lane; and one whose rows are    *)
(* longer than a page.                                                     *)
(***************************************************************************)
EXTENDS HogTrans

Square(n, offset, stride) ==
    [x |-> n, y |-> n, addr |-> offset * stride + offset, stride |-> stride]

MCBlocks == {Square(8, 0, 8), Square(6, 1, 8), Square(4, 2, 8), Square(6, 0, 6),
             [x |-> 3, y |-> 4, addr |-> 3, stride |-> 7],
             [x |-> 2, y |-> 18, addr |-> 0, stride |-> 18]}
=============================================================================
