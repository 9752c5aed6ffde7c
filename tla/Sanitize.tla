------------------------------ MODULE Sanitize ------------------------------
(***************************************************************************)
(* moiras/sanitize.py, as far as identifiers go: what validate_id lets     *)
(* into a contract, and what sanitize_value lets out of the process.       *)
(*                                                                         *)
(* A string is a sequence of pieces that the two functions tell apart:     *)
(*   "w"         letters and digits that mean nothing                      *)
(*   "us", "er"  the two halves of a sensitive marker                      *)
(*   "."         a separator an id may hold                                *)
(*   "sk-"       one of SECRET_PREFIXES                                    *)
(*   "\n"        a line break                                              *)
(*   "?"         any other character an id may not hold                    *)
(* Paths cannot be spelled with the characters of an id, and the keys of   *)
(* every contract are on the allowlist: the checks for them are left out.  *)
(***************************************************************************)
EXTENDS Naturals, Sequences, SequencesExt

CONSTANT MaxIdLength   \* MAX_ID_LENGTH, counted in pieces

ASSUME SanitizeAssumption == MaxIdLength \in Nat \ {0}

Alnum    == {"w", "us", "er"}
IdPieces == Alnum \cup {".", "sk-"}
Pieces   == IdPieces \cup {"\n", "?"}

(* Python's $ also matches before a line break that ends the string.       *)
IdPattern(s) ==
    \/ s # <<>> /\ Range(s) \subseteq IdPieces
    \/ Len(s) > 1 /\ Last(s) = "\n" /\ Range(Front(s)) \subseteq IdPieces

(* The marker is looked for in what is left without the separators.        *)
NormalizeKey(s) == SelectSeq(s, LAMBDA piece : piece \notin {".", "\n", "?"})

SensitiveMarker(s) ==
    \E k \in 1..(Len(NormalizeKey(s)) - 1) :
        NormalizeKey(s)[k] = "us" /\ NormalizeKey(s)[k + 1] = "er"

(* validate_id returns, and does not raise.                                *)
ValidateId(s) ==
    /\ s # <<>> /\ Len(s) <= MaxIdLength
    /\ IdPattern(s)
    /\ ~SensitiveMarker(s)
    /\ s[1] # "sk-"

(* No secret prefix, except in the middle of a word.                       *)
CheckStringValue(s) ==
    \A k \in DOMAIN s : s[k] = "sk-" => k > 1 /\ s[k - 1] \in Alnum

(* sanitize_value on the strings of a structure.                           *)
SanitizeValue(strings) == \A s \in strings : CheckStringValue(s)
=============================================================================
