--------------------------- MODULE MCPeriodicGate ---------------------------
(* Small instances of PeriodicGate.                                        *)
EXTENDS PeriodicGate

Par(open, off, d) == [initiallyOpen |-> open, offset |-> off, durations |-> d]

(* No durations (always open), two and four durations with offsets inside, *)
(* at the edge of and beyond a duration, offsets below 0, and lists the    *)
(* gate rejects.                                                           *)
MCParameters ==
  { Par(TRUE, 0, <<>>), Par(FALSE, 1, <<3, 2>>), Par(TRUE, 3, <<3, 1>>),
    Par(FALSE, 5, <<2, 1, 1, 3>>), Par(TRUE, 9, <<4, 1>>),
    Par(FALSE, -1, <<1, 2>>), Par(TRUE, -9, <<3, 1>>),
    Par(TRUE, 0, <<2, 1, 1>>), Par(TRUE, 0, <<2, 0>>), Par(TRUE, 0, <<3, -2>>) }
=============================================================================
