---------------------------- MODULE MacroButtons ----------------------------
(***************************************************************************)
(* Reading the macro names off the keypad of the projector (protocol.py,   *)
(* BarcoProjector.async_get_macro_buttons): in one range read, or button by *)
(* button when the projector rejects the range.                            *)
(*                                                                         *)
(* A name is its text and whether blanks surround it; the text "" with and *)
(* without blanks are the blank and the empty name.  A keypad is the name  *)
(* bound to each of its buttons, the empty one where there is none.        *)
(***************************************************************************)
EXTENDS Naturals, Sequences, SequencesExt

CONSTANTS
    Texts,   \* texts of names, without ""
    Buttons  \* MAX_MACRO_BUTTONS, 32 in the code

ASSUME TextsAssumption == "" \notin Texts
ASSUME ButtonsAssumption == Buttons \in Nat \ {0}

Names == [text : Texts \cup {""}, padded : BOOLEAN]
Keypads == [1 .. Buttons -> Names]

Empty == [text |-> "", padded |-> FALSE]
strip(name) == [name EXCEPT !.padded = FALSE]

\* Nothing lies between the terminators of two strings when one is empty.
split_c_strings(names) == SelectSeq(names, LAMBDA name : name # Empty)

\* Mutant: the names are compared with their blanks.
_dedupe_unstripped(names) ==
    LET AddNew(result, name) ==
          IF strip(name) = Empty \/ Contains(result, name)
            THEN result
            ELSE Append(result, strip(name))
    IN FoldLeft(AddNew, <<>>, names)

_dedupe(names) ==
    LET AddNew(result, name) ==
          IF strip(name) = Empty \/ Contains(result, strip(name))
            THEN result
            ELSE Append(result, strip(name))
    IN FoldLeft(AddNew, <<>>, names)

\* What the source list is for a keypad, whichever way it is read: the texts of
\* its names, each once, in the order of the first button that has it.
IsSourceList(list, keypad) ==
    LET First(text) == CHOOSE b \in 1 .. Buttons :
                         /\ keypad[b].text = text
                         /\ \A a \in 1 .. b - 1 : keypad[a].text # text
    IN /\ ToSet(list) = {strip(keypad[b]) : b \in 1 .. Buttons} \ {Empty}
       /\ \A m, n \in 1 .. Len(list) :
            m < n => First(list[m].text) < First(list[n].text)
=============================================================================
