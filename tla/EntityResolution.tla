-------------------------- MODULE EntityResolution --------------------------
(* Which candidates are one enterprise (app/entities): blocking, the       *)
(* deterministic matcher and the clustering of EntityResolutionService.    *)
(* What a candidate says of itself is abstracted to Attr: the normalized   *)
(* code, name, marker of a branch or office in the name, domain, phone and *)
(* address, and how the provider relates it to others.                     *)
EXTENDS Naturals, FiniteSets, Sequences, SequencesExt

CONSTANTS
    Candidate,
    Attr,         \* what a candidate says of itself
    None          \* an attribute it does not have

Relation == {"SAME_ENTITY", "DIFFERENT", "BRANCH_OF", "OFFICE_OF", "POSSIBLY_RELATED"}

Agree(l, r, key) == Attr[l][key] # None /\ Attr[l][key] = Attr[r][key]
Marked(l, r, marker) == Agree(l, r, "name") /\ marker \in {Attr[l].marker, Attr[r].marker}
HardNegative(l, r) == None \notin {Attr[l].code, Attr[r].code} /\ Attr[l].code # Attr[r].code
ProviderRelation(l, r) == IF Attr[l].relation # None THEN Attr[l].relation ELSE Attr[r].relation

\* The matcher's rules in their order: the first that applies decides.
Rules(l, r) == <<
    [applies |-> HardNegative(l, r), relation |-> "DIFFERENT"],
    [applies |-> Agree(l, r, "code"), relation |-> "SAME_ENTITY"],
    [applies |-> ProviderRelation(l, r) # None, relation |-> ProviderRelation(l, r)],
    [applies |-> Marked(l, r, "branch"), relation |-> "BRANCH_OF"],
    [applies |-> Marked(l, r, "office"), relation |-> "OFFICE_OF"],
    [applies |-> Agree(l, r, "name") /\ Agree(l, r, "domain"), relation |-> "SAME_ENTITY"],
    [applies |-> Agree(l, r, "name") /\ Agree(l, r, "phone") /\ Agree(l, r, "address"),
     relation |-> "SAME_ENTITY"],
    [applies |-> Agree(l, r, "name"), relation |-> "POSSIBLY_RELATED"],
    [applies |-> TRUE, relation |-> "DIFFERENT"] >>

Decision == [l, r \in Candidate |-> SelectSeq(Rules(l, r), LAMBDA rule : rule.applies)[1].relation]

\* Only the pairs of a block are compared.
Blocked(l, r) == \E key \in {"name", "domain", "phone"} : Agree(l, r, key)

\* The pairs of a set of candidates that are compared, each once: in the order of ids.
Ids == SetToSeq(Candidate)
Pairs(set) ==
    {p \in set \X set : /\ \E i, j \in 1..Len(Ids) : i < j /\ p = <<Ids[i], Ids[j]>>
                       /\ Blocked(p[1], p[2])}

\* Union-find: the candidates of the right one's root get the root of the left one.
Union(root, pair) ==
    [c \in DOMAIN root |-> IF root[c] = root[pair[2]] THEN root[pair[1]] ELSE root[c]]

Roots(set) ==
    FoldLeft(Union, [c \in set |-> c],
             SetToSeq({pair \in Pairs(set) : Decision[pair] = "SAME_ENTITY"}))

Clusters ==
    LET classes(set, root) == {{d \in set : root[d] = root[c]} : c \in set}
    IN  [set \in SUBSET Candidate |-> classes(set, Roots(set))]
=============================================================================
