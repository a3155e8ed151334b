------------------------------ MODULE MCDelivery ------------------------------
(* Small instances of Delivery.  The leads are alike: each scoring has its       *)
(* mirror image, and both lack a telephone.                                      *)
EXTENDS Delivery

CONSTANTS lead1, lead2, page, turn

MCScorings == {[x \in {lead1, lead2} |-> IF x = lead1 THEN 2 ELSE 1],
               [x \in {lead1, lead2} |-> IF x = lead1 THEN 1 ELSE 2]}
MCViews == {[least |-> 0, order |-> "asc", page |-> 1, size |-> 2]}
MCExports == {[count |-> 2, phone |-> FALSE, named |-> FALSE], [count |-> 2, phone |-> FALSE, named |-> TRUE],
              [count |-> 2, phone |-> TRUE, named |-> TRUE]}
Symmetry == Permutations({lead1, lead2})
=============================================================================
