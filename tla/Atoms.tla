------------------------------- MODULE Atoms -------------------------------
(***************************************************************************)
(* A text is a sequence of atoms: a word (a maximal string of letters and  *)
(* digits), a single punctuation character, or a part of a body.           *)
(***************************************************************************)
EXTENDS Integers, Sequences

CONSTANT Atom   \* the words and the characters

Blank == {" ", "\t"}
NewLine == {"\r", "\n"}
CRLF == <<"\r", "\n">>
Text == Seq(Atom)
ASSUME AtomAssumption == NewLine \subseteq Atom

Drop(s, n) == SubSeq(s, n + 1, Len(s))

=============================================================================
