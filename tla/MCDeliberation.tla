--------------------------- MODULE MCDeliberation ---------------------------
(* Deliberation on small menus of opinions and baselines.                       *)
EXTENDS Deliberation, TLC

CONSTANTS SECURITY, INTEGRITY, GOVERNANCE

(* The code has four roles; a panel of three is complete and spoiled in    *)
(* the same ways.                                                          *)
FewRoles == {SECURITY, INTEGRITY, GOVERNANCE}

(* Nothing in Deliberation names a role.                                    *)
Symmetry == Permutations(FewRoles)

Assessment(score, bypass) ==
    [score |-> score, dimensions |-> [d \in Dimensions |-> 0], reasons |-> {},
     bypass |-> bypass]

Opinion(r, class, score, veto) ==
    [role |-> r, class |-> class, score |-> score, veto |-> veto]

(* Plain scores on both sides of the divergence limit and of a band; and   *)
(* every way to spoil a panel: a veto, an opinion of each ineligible class *)
(* and something that is no opinion.                                       *)
Opinionated ==
    {NotAnOpinion} \cup
    {Opinion(r, "FRONTIER", s, FALSE) : r \in FewRoles, s \in {0, 30, 31, 40}} \cup
    UNION {{Opinion(r, "CAPABLE_GENERAL", 10, TRUE), Opinion(r, "EDGE", 100, FALSE),
            Opinion(r, "UNKNOWN", 0, FALSE)} : r \in FewRoles}

(* Both sides of every band, and both kinds of hard stop.                  *)
BandBaselines ==
    {Assessment(s, FALSE) : s \in {0, 39, 40, 69, 70, 100}} \cup {Assessment(20, TRUE)}
=============================================================================
