----------------------------- MODULE MCAnswers ------------------------------
EXTENDS Answers

MCYears == 0..1
MCCutoff == 4
\* Ranges of the year 0 or 1, the three months of a year, at most two of them at once.
MCRanges == {r \in Range_ : Usable(r) /\ (r.present => r.end = [year |-> 0, month |-> 0])}
MCRangeSets == {{r, q} : r, q \in MCRanges}
MCResumes == UNION {[1..n -> LineKinds] : n \in 0..4}

MCPlanIds == {"a", "b"}
MCAssessment == [id : {"a", "b", "u"}, score : 0..1, evidence : BOOLEAN, time : BOOLEAN]
MCUnscored == [id : {"a", "b", "u"}, score : {0}, evidence : {FALSE}, time : {FALSE}]
MCAssessed ==
  UNION {[1..n -> MCAssessment] : n \in 0..2} \cup UNION {[1..n -> MCUnscored] : n \in 3..4}
MCFinding == [ids : {<<>>, <<"a">>, <<"u">>, <<"a", "a">>, <<"a", "b">>}, evidence : BOOLEAN]
MCReport(shapes, assessed) ==
  [shape : shapes, assessed : assessed, findings : {<<>>} \cup {<<f>> : f \in MCFinding},
   text : {"plain", "unknown", "risky"}]
MCReports == MCReport({"ok"}, MCAssessed)

MCGood == <<[id |-> "b", score |-> 0, evidence |-> FALSE, time |-> FALSE],
            [id |-> "a", score |-> 1, evidence |-> TRUE, time |-> FALSE]>>
MCAnswer(reply, report) == [reply |-> reply, report |-> report]
MCAnyReport == [shape |-> "ok", assessed |-> MCGood, findings |-> <<>>, text |-> "plain"]
MCReportAnswers ==
  {MCAnswer(reply, MCAnyReport) : reply \in Replies \cup {"crash", "duplicate key"}}
  \cup {MCAnswer("answer", report) : report \in
          {r \in MCReport({"ok", "SCHEMA_TYPE_INVALID"}, {<<>>, MCGood, <<MCGood[1]>>, MCGood \o <<MCGood[1]>>})
             : Len(r.findings) = 0}}

\* Lines of one or two sentences, each with a text of its own: line i holds 2i - 1 and 2i.
MCLine(i) == [indented : BOOLEAN, list : BOOLEAN, sentences : {<<2 * i - 1>>, <<2 * i - 1, 2 * i>>}]
               \cup {[indented |-> FALSE, list |-> FALSE, sentences |-> <<>>]}
MCTexts(n) == {f \in [1..n -> UNION {MCLine(i) : i \in 1..n}] : \A i \in 1..n : f[i] \in MCLine(i)}
MCLast == [indented |-> TRUE, list |-> FALSE, sentences |-> <<9>>]
MCJobTexts ==
  [responsibilities : {<<>>}, requirements : UNION {MCTexts(n) : n \in 0..3}, preferred : {<<>>, <<MCLast>>}]

MCPhrase(text, says, strong, weak, complex, claim) ==
  [text |-> text, says |-> says, strong |-> strong, weak |-> weak, complex |-> complex, claim |-> claim]
MCp1 == MCPhrase(1, {1, 2}, TRUE, FALSE, FALSE, "none")
MCp2 == MCPhrase(2, {1}, FALSE, TRUE, FALSE, "none")
MCp3 == MCPhrase(3, {2}, FALSE, FALSE, FALSE, "duration")
MCp4 == MCPhrase(4, {2}, FALSE, FALSE, TRUE, "decision")
MCp5 == MCPhrase(5, {1}, TRUE, TRUE, FALSE, "none")
MCSources == [field : {"requirements", "preferred"}, phrase : {MCp1, MCp2, MCp3}]
MCCriterion == [name : 1..2, importance : {"required", "preferred", "general"}, needs : {{}},
                claim : {"none"},
                sources : {<<s>> : s \in MCSources} \cup {<<s, t>> : s, t \in MCSources}]
MCQuote(c, i) ==
  IF c.sources = <<>> THEN 0 ELSE FieldOrder(c.sources[i].field) * 10 + c.sources[i].phrase.text
MCPlaceIn(sequence, value) == CHOOSE i \in 1..Len(sequence) : sequence[i] = value
MCTuple(c) == <<c.name, MCPlaceIn(<<"required", "preferred", "general">>, c.importance),
                MCPlaceIn(<<"none", "duration", "sensitive">>, c.claim),
                Cardinality(c.needs), Len(c.sources), MCQuote(c, 1), MCQuote(c, Len(c.sources))>>
MCContentBefore(c, d) ==
  \E i \in 1..7 : MCTuple(c)[i] < MCTuple(d)[i] /\ \A j \in 1..i - 1 : MCTuple(c)[j] = MCTuple(d)[j]
MCOne == CHOOSE c \in MCCriterion : c.name = 1 /\ c.sources = <<[field |-> "requirements", phrase |-> MCp1]>>
MCOthers ==
  {MCOne, [MCOne EXCEPT !.name = 2], [MCOne EXCEPT !.importance = "preferred"],
   [MCOne EXCEPT !.needs = {3}], [MCOne EXCEPT !.claim = "duration"], [MCOne EXCEPT !.claim = "sensitive"],
   [MCOne EXCEPT !.sources = <<>>],
   [MCOne EXCEPT !.sources = <<[field |-> "requirements", phrase |-> MCp4]>>],
   [MCOne EXCEPT !.sources = <<[field |-> "responsibilities", phrase |-> MCp5]>>]}
MCPlanAnswers == {<<>>} \cup {<<c>> : c \in MCCriterion} \cup {<<c, d>> : c \in MCCriterion, d \in MCOthers}
                 \cup {<<c, d, e>> : c, d, e \in MCOthers} \cup {<<c, d, d, e>> : c, d, e \in MCOthers}
MCJob(r, q, p) == [responsibilities |-> r, requirements |-> q, preferred |-> p]
MCJobPhrases == {MCJob(<<MCp5>>, <<MCp4, MCp1, MCp3, MCp1>>, <<MCp2, MCp3>>),
                 MCJob(<<>>, <<MCp3, MCp2>>, <<MCp1>>)}

\* The plan of the job has an item of the model's and one of HR's; an older one had three.
MCItem(id, origin, note, shown) == [id |-> id, origin |-> origin, note |-> note, shown |-> shown]
MCBare == [MCOne EXCEPT !.sources = <<>>]
MCCurrent == <<MCItem(1, "ai_from_jd", "none", MCOne), MCItem(2, "hr_added", "plain", MCBare)>>
MCShown == MCOthers \cup {MCBare} \cup {[MCBare EXCEPT !.claim = claim] : claim \in {"duration", "decision"}}
           \cup {[MCOne EXCEPT !.sources = @ \o @]}
MCItems(ids, notes, shown) == [id : ids, origin : {"ai_from_jd", "hr_added"}, note : notes, shown : shown]
MCFewItems == MCItems(0..3, {"none", "plain"}, {MCOne, MCBare})
MCDraft(draft) == [draft |-> draft, current |-> MCCurrent, used |-> 1..3]
MCDrafts ==
  {MCDraft(<<i>>) : i \in MCItems(0..3, {"none", "plain", "duration", "pollution"}, MCShown)}
  \cup {MCDraft(<<i, j>>) : i, j \in MCFewItems}
  \cup {MCDraft(<<i, j, k>>) : i, j \in MCItems({0, 2}, {"plain"}, {MCOne, MCBare}), k \in MCItems({0, 1}, {"plain"}, {MCOne, MCBare})}
  \cup {MCDraft(<<>>)} \cup {MCDraft(<<i, i, i, i>>) : i \in MCItems({0}, {"plain"}, {MCBare})}

MCHrItems == MCItems(0..3, {"plain"}, {MCOne, [MCBare EXCEPT !.importance = "general"]})
MCEditedLists ==
  [items : {MCCurrent, <<MCCurrent[2]>>, Append(MCCurrent, MCItem(3, "ai_from_jd", "none", MCOne))},
   first : MCHrItems, second : MCHrItems]

MCStored == [label : 1..2, importance : 0..1, hidden : {FALSE}, score : {0, 1, 2}, evidence : {1}]
MCHidden == [label |-> 3, importance |-> 0, hidden |-> TRUE, score |-> 3, evidence |-> 1]
MCThird == [MCHidden EXCEPT !.hidden = FALSE]
MCStoredReports ==
  [criteria : {<<c, d, e>> : c \in MCStored, d \in {x \in MCStored : x.importance = 0},
                          e \in {x \in MCStored : x.importance = 0} \cup {MCHidden, MCThird}},
   strengths : {<<>>, <<<<1>>>>, <<<<3, 1>>, <<2>>>>, <<<<2, 3>>, <<1>>>>, <<<<1, 2>>, <<2, 3>>>>}]

MCUnits == <<[field |-> "responsibilities", quotes |-> {1, 2}, signal |-> "strong"],
             [field |-> "requirements", quotes |-> {1, 3}, signal |-> "weak"],
             [field |-> "preferred", quotes |-> {2, 3}, signal |-> "weak"]>>
MCSourceSets == {{<<1, 1>>}, {<<1, 2>>}, {<<2, 1>>}, {<<1, 2>>, <<2, 3>>}, {<<2, 3>>, <<3, 2>>}, {<<3, 4>>}}
MCCandidate == [category : 1..2, sources : MCSourceSets]
MCRepairSet == [category : 1..2, sources : {{<<1, 1>>}, {<<1, 2>>}, {<<2, 3>>}, {<<1, 1>>, <<2, 3>>}}, into : 0..2]

\* The reviews that the candidates call for, and the codes they may carry.
MCReviews(units, candidates) ==
  [u \in units |->
     LET named == {i \in 1..Len(candidates) : u \in UnitsOf(candidates[i].sources)}
     IN [candidates |-> named, reason |-> named = {},
         codes |-> IF named = {} THEN {"non_evaluation_content"} ELSE {"ambiguous_requirement"}]]
MCOutput(candidates) ==
  [large |-> FALSE, first |-> "answer", second |-> "answer", valid |-> TRUE,
   candidates |-> candidates, reviews |-> MCReviews(UnitIds, candidates)]
MCCoverage(findings) ==
  [large |-> FALSE, first |-> "answer", second |-> "answer", valid |-> TRUE, findings |-> findings]
MCRepair(candidates, findings) ==
  [large |-> FALSE, first |-> "answer", second |-> "answer", valid |-> TRUE, candidates |-> candidates,
   reviews |-> MCReviews(FailedUnits(findings), candidates), resolved |-> 1..Len(findings), unresolved |-> {}]
MCGrouping == [large |-> FALSE, first |-> "answer", second |-> "answer", valid |-> TRUE]
MCRun(candidates, findings, replaced) ==
  [extraction |-> MCOutput(candidates), coverage |-> MCCoverage(findings),
   repair |-> MCRepair(replaced, findings), grouping |-> MCGrouping, changed |-> 0]
\* Two criteria of facts with four sources between them are too long.
MCOutputTooLarge(facts, criteria) == Len(criteria) > 1 /\ Cardinality(Pairs(facts)) > 3

\* One criterion for the first fact and one for the others; or what is not a partition.
MCGroupings(n) ==
  {IF n < 2 THEN <<[i \in 1..n |-> i]>> ELSE <<<<1>>, [i \in 1..n - 1 |-> i + 1]>>}
  \cup (IF n # 2 THEN {}
        ELSE {<<<<1, 2>>, <<3>>>>, <<<<1>>>>, <<<<1, 2>>, <<2, 1>>>>, <<<<2>>, <<1>>>>, <<<<1, 2>>, <<2>>>>, <<>>})

MCFindings == {<<>>, <<[units |-> {1}, facts |-> {}]>>, <<[units |-> {1}, facts |-> {2}], [units |-> {2}, facts |-> {}]>>}
MCExtracted == {<<>>} \cup {<<c>> : c \in MCCandidate} \cup {<<c, d>> : c \in MCCandidate, d \in [category : {1}, sources : MCSourceSets]}
               \cup {<<c, d, e>> : c, d, e \in [category : {1}, sources : {{<<1, 2>>}, {<<2, 1>>}, {<<1, 2>>, <<2, 3>>}}]}
MCReplaced == {<<>>} \cup {<<c>> : c \in MCRepairSet}
              \cup {<<c, d>> : c, d \in [category : {1}, sources : {{<<1, 2>>}, {<<1, 1>>, <<2, 3>>}}, into : {0, 2}]}
MCWhole == {MCRun(c, f, r) : c \in MCExtracted, f \in MCFindings \ {<<>>}, r \in MCReplaced}
           \cup {MCRun(c, <<>>, <<>>) : c \in MCExtracted}

MCBase == MCRun(<<[category |-> 1, sources |-> {<<1, 2>>}], [category |-> 2, sources |-> {<<2, 3>>, <<3, 2>>}]>>,
                <<[units |-> {1}, facts |-> {2}]>>, <<[category |-> 1, sources |-> {<<1, 1>>}, into |-> 0]>>)
MCReplies == [first : {"answer", "timeout", "429", "cut", "402"}, second : {"answer", "500", "blank"}]
MCFaulty ==
  {[MCBase EXCEPT ![role].first = r.first, ![role].second = r.second, ![role].valid = v, ![role].large = l, !.changed = n] :
     role \in {"extraction", "coverage", "repair", "grouping"}, r \in MCReplies, v, l \in BOOLEAN, n \in 0..3}
  \cup {[MCBase EXCEPT !.repair.unresolved = {1}], [MCBase EXCEPT !.repair.resolved = {}],
        [MCBase EXCEPT !.coverage.findings[1].facts = {4}], [MCBase EXCEPT !.coverage.findings[1].units = {4}],
        [MCBase EXCEPT !.extraction.reviews = [u \in 1..2 |-> @[u]]],
        [MCBase EXCEPT !.repair.reviews = [u \in {} |-> 0]]}
MCFactRuns == MCWhole \cup MCFaulty
=============================================================================
