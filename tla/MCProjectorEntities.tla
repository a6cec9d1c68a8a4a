------------------------- MODULE MCProjectorEntities -------------------------
(* Keypads of two buttons: two macros; one, twice, once with blanks; none. *)
EXTENDS ProjectorEntities

Name(text) == [text |-> text, padded |-> FALSE]
Padded(text) == [text |-> text, padded |-> TRUE]

Keypads3 == {<<Name("B"), Name("A")>>, <<Name("A"), Padded("A")>>, <<Padded(""), Empty>>}
==============================================================================
