---------------------------- MODULE MCSessionTurns ----------------------------
(* TLC instances of SessionTurns: two businesses, one with a rule about the *)
(* number of members and one with a preference; two regions; three         *)
(* candidates, the third in the other region.                              *)
EXTENDS SessionTurns, TLC

Candidate(region, kind, members) == [region |-> region, kind |-> kind, members |-> members]
McData == 1 :> Candidate("A", "firm", "many") @@ 2 :> Candidate("A", "shop", "few") @@
          3 :> Candidate("B", "firm", "many")
Member(value) == [field |-> "members", value |-> value]
McOfficial == "vnet" :> {Member("many")} @@ "line" :> {} @@ "cloud" :> {}
McMarketing == "vnet" :> {} @@ "line" :> {[field |-> "kind", value |-> "firm"]} @@ "cloud" :> {}

Constraint(field, op, kind, value) == [field |-> field, op |-> op, kind |-> kind, value |-> value]
Asks(b, r, n, cs) == [business |-> b, region |-> r, target |-> n, constraints |-> cs, required |-> None]
Alone(patch) == [patch |-> patch, ref |-> [task |-> None, business |-> None, active |-> FALSE,
                                         vague |-> FALSE, latest |-> FALSE]]
About(message, b) == [message EXCEPT !.ref.business = b]
Vague(message) == [message EXCEPT !.ref.vague = TRUE]
Says(patch, members, task) == [patch |-> patch, members |-> members, task |-> task]

Shops == Constraint("kind", "ADD", "HARD", "shop")
AnyKind == Constraint("kind", "REMOVE", "HARD", "none")
Few == Constraint("members", "ADD", "HARD", "few")
Firms == Constraint("kind", "ADD", "SOFT", "firm")

Site == [Asks(None, None, None, {}) EXCEPT !.required = {"kind", "site"}]

McMalformed == {[field |-> "kind", value |-> "huge"]}
Huge == Constraint("kind", "ADD", "HARD", "huge")
McDiscoveries == {Alone(Asks("vnet", "A", 1, {Few})), Alone(Asks("line", None, 1, {Shops})),
                  Alone(Asks("line", "A", 1, {Huge})), Alone(Asks("cloud", "A", 1, {Shops}))}
McChanges == {Alone(Asks(None, None, 2, {})),                \* more of them
              Alone(Asks(None, "B", None, {})),              \* elsewhere
              Alone(Asks(None, None, None, {Shops})),
              Alone(Asks(None, None, None, {Few})),          \* against vnet's rule
              Alone(Asks(None, None, None, {Firms})),
              Alone(Site),                                   \* one more field
              Vague(Alone(Asks("line", None, None, {})))}    \* another business
McReads == {Vague(Alone(Asks(None, None, None, {})))}
McAnswers == {Says(Asks(None, "A", None, {}), "many", 1)}
McPatches == {Asks(None, None, None, {AnyKind})}
=============================================================================
