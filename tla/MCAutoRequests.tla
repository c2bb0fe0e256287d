--------------------------- MODULE MCAutoRequests ----------------------------
(***************************************************************************)
(* Three registered backends - a small local one, a strong one outside the *)
(* boundary, a middling one - and a fourth that only the learned history   *)
(* still knows.  Two teams ask nearly the same question; one asks it with  *)
(* a sensitive attachment, one names its backend and asks at random.       *)
(***************************************************************************)
EXTENDS AutoRequests, TLC

CONSTANTS r1, r2, o1, o2

mcBackends == 1..4
mcModels == {"big"}
mcDeclared == [b \in mcBackends |-> <<[input |-> 1, output |-> 1], [input |-> 4, output |-> 8],
                                      [input |-> 2, output |-> 2], [input |-> 0, output |-> 0]>>[b]]
mcRegistry == <<2, 1, 3>>
mcTier == [b \in mcBackends |-> <<1, 3, 2, 3>>[b]]
mcInBoundary == [b \in mcBackends |-> b # 2]
mcModelOf == [b \in mcBackends |-> IF b = 2 THEN "big" ELSE AnyModel]

mcRequests == {r1, r2}
mcIds == mcRequests \cup {o1, o2}
mcEndpoints == mcBackends \cup {AutoModel}
mcQuestions == {"lease", "leases", "news"}
mcSimilarity == [p \in mcQuestions \X mcQuestions |->
                   IF p[1] = p[2] THEN 100 ELSE IF "news" \in {p[1], p[2]} THEN 20 ELSE 95]
mcLength == [q \in mcQuestions |-> CASE q = "lease" -> "long" [] q = "leases" -> "huge"
                                     [] q = "news" -> "short"]

Ask == [team |-> "t1", endpoint |-> AutoModel, model |-> "auto", question |-> "lease",
        context |-> "none", parameters |-> "default", deterministic |-> TRUE,
        sensitive |-> FALSE, intent |-> "automatic", difficulty |-> "easy",
        allowed |-> None, shortens |-> {"baseline"}, eases |-> {}]

Similarly == [Ask EXCEPT !.question = "leases", !.difficulty = "hard", !.allowed = {1, 4},
                !.shortens = {"aggressive"}, !.eases = {"aggressive"}]
OtherTeam == [Ask EXCEPT !.team = "t2", !.allowed = {2, 3}, !.intent = "fastest",
                !.model = "auto:fastest"]
Attached == [Ask EXCEPT !.sensitive = TRUE, !.allowed = {1}]
Named == [Ask EXCEPT !.endpoint = 2, !.model = "2:big", !.question = "news",
            !.deterministic = FALSE, !.parameters = "hot"]
mcKinds == {Ask, Similarly, OtherTeam, Attached, Named}

mcFeatureEdits == {<<AutoModel, [threshold |-> 99, compression |-> FALSE]>>,
                   <<2, [compression |-> TRUE]>>}
mcInitialFeatures == {AutoModel :> [NoRow EXCEPT !.strategy = "semantic"]}
mcRatings == {-1, 0}
mcLatencies == {5}
mcUsages == {[input |-> 1, output |-> 2]}
OwnPrice == [backend |-> 2, model |-> "big", from |-> 0, price |-> [input |-> 1, output |-> 0]]
Dear == [backend |-> 1, model |-> AnyModel, from |-> 1, price |-> [input |-> 9, output |-> 9]]
mcPriceEdits == {Dear}
mcInitialPrices == {{OwnPrice}}

\* The backend that is gone did best.
mcInitialTraces == {[id \in {o1, o2} |-> [NewTrace("easy", 4, FALSE) EXCEPT
                                               !.rating = 1, !.reward = Reward(1, FALSE)]]}

mcSymmetry == {f @@ g : f \in Permutations(mcRequests), g \in Permutations({o1, o2})}
==============================================================================
