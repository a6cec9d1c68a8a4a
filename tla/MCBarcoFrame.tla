----------------------------- MODULE MCBarcoFrame -----------------------------
(* Instances of BarcoFrame for TLC. *)
EXTENDS BarcoFrame

\* The three special bytes, the second bytes of their escape sequences, and two
\* ordinary ones; their sums are checksums of every kind.
EdgeBytes == {0, 1, 126, 127, 128, 254, 255}

\* Nothing, an escape byte, and a frame that was cut off.
Leftovers == {<<>>, <<128>>, <<254, 0, 118>>}
==============================================================================
