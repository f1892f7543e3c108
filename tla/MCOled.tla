------------------------------- MODULE MCOled -------------------------------
(***************************************************************************)
(* PmodOLEDrgb with bitmaps of the whole display, of one pixel and of none,*)
(* and strings of up to two characters, some of which are not drawn.       *)
(***************************************************************************)
EXTENDS PmodOLEDrgb

Window(c1, r1, c2, r2) == [c1 |-> c1, r1 |-> r1, c2 |-> c2, r2 |-> r2]

MCWindows ==
    {Window(0, 0, OLEDRGB_WIDTH - 1, OLEDRGB_HEIGHT - 1), Window(3, 5, 3, 5), Window(1, 0, 0, 0)}
MCPositions == -1..2
MCStrings == {<<>>, <<FALSE, FALSE>>, <<TRUE, FALSE>>}
=============================================================================
