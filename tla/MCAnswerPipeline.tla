---------------------------- MODULE MCAnswerPipeline ----------------------------
(* Two projects with a few rows each, questions of every kind, and a model that *)
(* may propose each filter over each field.                                     *)
EXTENDS AnswerPipeline

Doc(status, from, to) == [status |-> status, from |-> from, to |-> to]
Fact(id, project, key, num, lo, hi, quality, policy, to, doc) ==
    [id |-> id, project |-> project, subject |-> "2pn", key |-> key, num |-> num, lo |-> lo,
     hi |-> hi, text |-> {}, quality |-> quality, trust |-> "confirmed", policy |-> policy,
     from |-> 1, to |-> to, doc |-> doc]

SomeFacts ==
    {Fact(1, "camellia", "price_vnd", {30}, {}, {}, "exact", {"htls"}, {}, Doc("published", 1, {})),
     Fact(2, "camellia", "price_vnd", {}, {20}, {40}, "range", {}, {}, Doc("published", 1, {})),
     Fact(3, "camellia", "area_m2", {30}, {}, {}, "exact", {}, {2}, Doc("published", 1, {})),
     Fact(4, "camellia", "price_vnd", {20}, {}, {}, "exact", {}, {}, Doc("draft", 1, {})),
     Fact(5, "soleil", "price_vnd", {30}, {}, {}, "exact", {"htls"}, {}, Doc("published", 1, {}))}

SomeOffers ==
    {[id |-> 1, project |-> "camellia", policy |-> "htls", price |-> 30, deposit |-> 30, from |-> 1, to |-> {2}],
     [id |-> 2, project |-> "soleil", policy |-> "htls", price |-> 20, deposit |-> 30, from |-> 1, to |-> {}]}

Estimate(id, project, subject, min, deposit) ==
    [id |-> id, project |-> project, subject |-> subject, priced |-> TRUE, min |-> min, max |-> {},
     deposit |-> deposit, floor |-> 0]

SomeEstimates ==
    {Estimate(1, "camellia", "2pn", 1000, {30}), Estimate(2, "camellia", "3pn", 1500, {30}),
     Estimate(3, "camellia", "3pn", 1490, {}), Estimate(4, "soleil", "2pn", 900, {30}),
     [Estimate(5, "soleil", "3pn", 0, {30}) EXCEPT !.priced = FALSE, !.max = {950}]}

Order == [p \in {"htls", "vay70"} |-> IF p = "htls" THEN 1 ELSE 2]

SomeChunks ==
    {[doc |-> 1, id |-> TRUE, project |-> "camellia", status |-> "published", from |-> 1, to |-> {}],
     [doc |-> 2, id |-> TRUE, project |-> "camellia", status |-> "published", from |-> 1, to |-> {2}],
     [doc |-> 3, id |-> TRUE, project |-> "soleil", status |-> "published", from |-> 1, to |-> {}]}

Image(id, project, status, kind, unit, type, score, served, space) ==
    [id |-> id, project |-> project, status |-> status, kind |-> kind, unit |-> unit, type |-> type,
     score |-> score, served |-> served, space |-> space]

SomeImages ==
    {Image(1, "camellia", "published", "matbang", {}, {"3pn"}, 9, TRUE, TRUE),
     Image(2, "camellia", "published", "matbang", {"CH-03"}, {"3pn"}, 9, TRUE, FALSE),
     Image(3, "camellia", "published", "phaply", {}, {}, 9, TRUE, TRUE),
     Image(4, "soleil", "published", "matbang", {"CH-03"}, {"3pn"}, 9, TRUE, TRUE),
     Image(5, "camellia", "published", "banggia", {}, {}, 8, FALSE, TRUE)}

FloorScores == [p \in {"camellia", "soleil"} |-> 7]

Ask(project, context, day) ==
    [project |-> project, context |-> context, history |-> FALSE, screen |-> FALSE, day |-> day,
     aggregate |-> FALSE, budget |-> 0, relational |-> FALSE, stakes |-> FALSE, places |-> FALSE,
     prices |-> FALSE, all |-> FALSE, units |-> {}]

SomeQuestions ==
    {[Ask("camellia", NoProject, 1) EXCEPT !.prices = TRUE],
     [Ask("camellia", NoProject, 2) EXCEPT !.budget = 1030],
     [Ask(Training, "camellia", 2) EXCEPT !.all = TRUE, !.units = {"CH-03"}],
     [Ask(Training, NoProject, 2) EXCEPT !.prices = TRUE, !.places = TRUE],
     [Ask("soleil", NoProject, 2) EXCEPT !.aggregate = TRUE],
     [Ask("camellia", NoProject, 2) EXCEPT !.places = TRUE, !.history = TRUE],
     [Ask("camellia", NoProject, 2) EXCEPT !.places = TRUE, !.screen = TRUE]}

Filter(field, op, value) == [field |-> field, op |-> op, value |-> value]
SpecOf(source, filters) == [source |-> source, filters |-> filters, limit |-> 1]

SomeFilters ==
    {Filter("price_vnd", op, <<v>>) : op \in {"=", "!=", "<=", ">"}, v \in {20, 30}}
    \cup {Filter("value_num", op, <<30>>) : op \in {"=", "!=", "<=", ">"}}
    \cup {Filter("price_vnd", "between", <<20, 30>>), Filter("policy_key", "=", <<"htls">>),
          Filter("policy_key", "<", <<"htls">>), Filter("subject_key", "<=", <<"2pn">>)}

SomeProposals ==
    {[path |-> "spec", sql |-> TRUE, spec |-> SpecOf("facts", <<f>>)] : f \in SomeFilters}
    \cup {[path |-> "spec", sql |-> TRUE, spec |-> SpecOf("v_unit_offers", <<f>>)] :
             f \in {Filter("price_vnd", ">=", <<20>>), Filter("policy_key", "<", <<"vay70">>)}}
    \cup {[path |-> "affordability", sql |-> TRUE, spec |-> NoSpec],
          [path |-> "nl2sql", sql |-> TRUE, spec |-> NoSpec],
          [path |-> "none", sql |-> FALSE, spec |-> NoSpec]}

SomeStatements ==
    {[single |-> TRUE, select |-> TRUE, calls |-> TRUE, tables |-> <<"v_unit_offers", "v_unit_offers">>],
     [single |-> TRUE, select |-> FALSE, calls |-> TRUE, tables |-> <<"v_unit_offers">>]}
===============================================================================
