---------------------------- MODULE PlanContent -----------------------------
(* job_evaluation_plan_service, 5.0: the parts of a job description that the       *)
(* model is shown, and the evaluation plan made of what it answers.                *)
EXTENDS Naturals, Sequences, FiniteSets, SequencesExt, FiniteSetsExt, ModelCalls

CONSTANTS
  MaxCriteria, Few, Many,      \* 30, 5 and 12; bounds: fewer in the runs
  MaxUnits,                    \* the limit on source units; bound: small in the runs
  MaxNumber,                   \* 9999, the last identifier; bound: small in the runs
  ContentBefore(_, _)          \* the order of two criteria written as JSON

ASSUME LimitsAssumption == MaxCriteria \in Nat /\ MaxUnits \in Nat /\ MaxNumber \in Nat

(***************************************************************************)
(* A field of the job: lines of [indented, list, sentences], a line with   *)
(* no sentence being blank.  A sentence is a number that stands for its    *)
(* text and where it is written, so no two lines have the same; nothing    *)
(* here compares the texts of two.                                         *)
(***************************************************************************)
Fields == <<"responsibilities", "requirements", "preferred">>
Lines == [indented : BOOLEAN, list : BOOLEAN, sentences : Seq(Nat)]
Blank(line) == line.sentences = <<>>

IsText(job) ==
  LET lines == FlattenSeq([k \in 1..3 |-> job[Fields[k]]])
  IN /\ job \in [Range(Fields) -> Seq(Lines)]
     /\ \A i, j \in 1..Len(lines) : Range(lines[i].sentences) \cap Range(lines[j].sentences) # {} => i = j

\* _normalize_fingerprint_text: the field without the space around it
NormalizedField(lines) ==
  LET written == {i \in 1..Len(lines) : ~Blank(lines[i])}
  IN IF written = {} THEN <<>>
     ELSE [SubSeq(lines, Min(written), Max(written)) EXCEPT ![1].indented = FALSE]

NoBlock == [lines |-> <<>>, list |-> FALSE]

\* A list item or a block of several lines is kept whole; a single line is cut in sentences.
Flushed(acc) ==
  LET texts == FlattenSeq([i \in 1..Len(acc.block.lines) |-> acc.block.lines[i].sentences])
  IN [out |-> acc.out \o (IF acc.block.lines = <<>> THEN <<>>
                          ELSE IF acc.block.list \/ Len(acc.block.lines) > 1 THEN <<texts>>
                          ELSE [i \in 1..Len(texts) |-> <<texts[i]>>]),
      block |-> NoBlock]

\* One line of the loop of _split_five_section_field.
ReadLine(acc, line) ==
  LET starts == line.list /\ ~line.indented
      continues == (line.indented /\ acc.block.lines # <<>>) \/ acc.block.list
  IN IF Blank(line) THEN Flushed(acc)
     ELSE IF ~starts /\ continues THEN [acc EXCEPT !.block.lines = Append(@, line)]
     ELSE [Flushed(acc) EXCEPT !.block = [lines |-> <<line>>, list |-> starts]]

Fragments(lines) ==
  Flushed(FoldLeft(ReadLine, [out |-> <<>>, block |-> NoBlock], NormalizedField(lines))).out

\* build_five_section_source_units: the units of a job, numbered in each field
SourceUnits(job) ==
  LET InField(f) == LET texts == Fragments(job[f])
                    IN [i \in 1..Len(texts) |-> [field |-> f, ordinal |-> i, text |-> texts[i]]]
      units == FlattenSeq([k \in 1..3 |-> InField(Fields[k])])
  IN [units |-> units,
      error |-> IF Len(units) > MaxUnits THEN "TOO_MANY_SOURCE_UNITS"
                ELSE IF units = <<>> THEN "EMPTY_EVALUATION_FIELDS" ELSE "none"]

\* The units of a job hold every sentence once and in order, none is empty, and none joins
\* sentences of two fields, from both sides of a blank line or of two items of a list; a
\* unit is known by its field and ordinal.
SplitKeepsText(job) ==
  LET units == SourceUnits(job).units
      lines == FlattenSeq([k \in 1..3 |-> job[Fields[k]]])
      LineOf(s) == CHOOSE i \in 1..Len(lines) : s \in Range(lines[i].sentences)
  IN SourceUnits(job).error = "none" =>
       /\ FlattenSeq([i \in 1..Len(units) |-> units[i].text]) = FlattenSeq([i \in 1..Len(lines) |-> lines[i].sentences])
       /\ IsInjective([i \in 1..Len(units) |-> <<units[i].field, units[i].ordinal>>])
       /\ \A u \in Range(units) :
            /\ u.text # <<>>
            /\ \A s \in Range(u.text) : \E l \in Range(job[u.field]) : s \in Range(l.sentences)
            /\ \A k \in LineOf(u.text[1]) + 1..LineOf(u.text[Len(u.text)]) :
                 ~Blank(lines[k]) /\ ~(lines[k].list /\ ~lines[k].indented)

(***************************************************************************)
(* A criterion: [name, importance, needs, claim, sources], its sources a   *)
(* sequence of [field, phrase].  A phrase is what the model quotes:        *)
(* [text, says, strong, weak, complex, claim].  A claim is what the        *)
(* patterns look for in a text; "plain", of a note, that they find nothing *)
(* in it.  jd is a sequence of phrases per field.                          *)
(***************************************************************************)
Claimed == {"none", "plain", "duration", "pollution", "sensitive", "decision"}
Phrases == [text : Nat, says : SUBSET Nat, strong : BOOLEAN, weak : BOOLEAN, complex : BOOLEAN, claim : Claimed]
Sources == [field : Range(Fields), phrase : Phrases]
Criteria == [name : Nat, importance : {"required", "preferred", "general"}, needs : SUBSET Nat,
             claim : Claimed, sources : Seq(Sources)]
IsJob(jd) == jd \in [Range(Fields) -> Seq(Phrases)]

\* Criteria that are written differently are ordered.
Comparable(criteria) ==
  /\ \A c, d \in criteria : ~(ContentBefore(c, d) /\ ContentBefore(d, c))
  /\ \A c, d \in criteria : c = d \/ ContentBefore(c, d) \/ ContentBefore(d, c)
  /\ \A c, d, e \in criteria : ContentBefore(c, d) /\ ContentBefore(d, e) => ContentBefore(c, e)

FieldOrder(field) == CHOOSE i \in 1..3 : Fields[i] = field

Locations(source, jd) == {i \in 1..Len(jd[source.field]) : jd[source.field][i] = source.phrase}

Located(source, jd) == Locations(source, jd) # {}

\* V5CriterionItem: a criterion of the model has sources, no one twice
CriterionFormed(c) == c.sources # <<>> /\ IsInjective(c.sources)

\* _validate_v5_criterion_candidate: the code of the first check that fails, or "none"; the
\* duration of work is looked for in what is shown of the criterion, the rest in quotes too.
Refusal(c, jd) ==
  LET quoted == {c.sources[i].phrase.claim : i \in 1..Len(c.sources)}
      Claims(kind) == kind \in {c.claim} \cup quoted
  IN IF ~CriterionFormed(c) THEN "INVALID_MODEL_OUTPUT"
     ELSE IF \E s \in Range(c.sources) : ~Located(s, jd) THEN "SOURCE_NOT_FOUND"
     ELSE IF c.claim = "duration" THEN "WORK_DURATION_CRITERION"
     ELSE IF Claims("pollution") THEN "PROMPT_POLLUTION"
     ELSE IF Claims("sensitive") THEN "SENSITIVE_CRITERION"
     ELSE IF Claims("decision") THEN "RECRUITMENT_DECISION" ELSE "none"

PlaceBefore(p, q) ==
  p[1] < q[1] \/ (p[1] = q[1] /\ (p[2] < q[2] \/ (p[2] = q[2] /\ p[3] < q[3])))

\* _v5_criterion_sort_key: the first place quoted
Place(c, jd) ==
  LET places == {<<FieldOrder(s.field), Min(Locations(s, jd)), s.phrase.text>> : s \in Range(c.sources)}
  IN CHOOSE p \in places : \A q \in places : ~PlaceBefore(q, p)

Before(c, d, jd) ==
  LET p == Place(c, jd)
      q == Place(d, jd)
  IN PlaceBefore(p, q) \/ (p = q /\ (c.name < d.name \/ (c.name = d.name /\ ContentBefore(c, d))))

\* The criteria of an answer without repetitions, stably sorted.
Inserted(sorted, c, jd) ==
  LET at == Cardinality({i \in 1..Len(sorted) : ~Before(c, sorted[i], jd)})
  IN IF c \in Range(sorted) THEN sorted ELSE InsertAt(sorted, at + 1, c)
Ordered(answer, jd) == FoldLeft(LAMBDA sorted, c : Inserted(sorted, c, jd), <<>>, answer)

(***************************************************************************)
(* The warnings that HR sees next to the plan.                             *)
(***************************************************************************)
Signals(c) == {c.sources[i] : i \in 1..Len(c.sources)}

\* _v5_source_field_signal_mismatch
FieldMismatch(s) ==
  /\ s.phrase.strong # s.phrase.weak
  /\ \/ s.field = "responsibilities"
     \/ s.field = "requirements" /\ s.phrase.weak
     \/ s.field = "preferred" /\ s.phrase.strong

\* _v5_importance_review_reasons
ImportanceReasons(c) ==
  LET strong == \E s \in Signals(c) : s.phrase.strong
      weak == \E s \in Signals(c) : s.phrase.weak
  IN (IF strong /\ weak THEN {"MIXED"}
      ELSE IF strong /\ c.importance # "required" THEN {"STRONG_MISMATCH"}
      ELSE IF weak /\ c.importance # "preferred" THEN {"WEAK_MISMATCH"}
      ELSE IF ~strong /\ ~weak /\ c.importance # "general" THEN {"NO_SIGNAL"} ELSE {})
     \cup (IF \E s \in Signals(c) : s.phrase.complex THEN {"COMPLEX"} ELSE {})
     \cup (IF \E s \in Signals(c) : FieldMismatch(s) THEN {"FIELD_MISMATCH"} ELSE {})
     \cup (IF /\ \E s \in Signals(c) : s.phrase.strong /\ ~s.phrase.weak
              /\ \E s \in Signals(c) : s.phrase.weak /\ ~s.phrase.strong
           THEN {"CONFLICT"} ELSE {})

\* _v5_semantic_support_review_required: a need, or the name, that no quote speaks of
Unsupported(c) == ~(c.needs \cup {c.name} \subseteq UNION {s.phrase.says : s \in Signals(c)})

\* _build_v5_warnings; added: the criteria HR has added, which quote nothing
Warnings(criteria, added) ==
  (IF Len(criteria) < Few THEN {<<"LIMITED_BASIS", 0>>} ELSE {})
  \cup (IF Len(criteria) > Many THEN {<<"MANY_CRITERIA", 0>>} ELSE {})
  \cup {<<"SEMANTIC_SUPPORT", i>> : i \in {j \in 1..Len(criteria) \ added : Unsupported(criteria[j])}}
  \cup {<<"IMPORTANCE", i>> : i \in {j \in 1..Len(criteria) \ added : ImportanceReasons(criteria[j]) # {}}}

(***************************************************************************)
(* The plan: the identifier of a criterion is its place in it.             *)
(***************************************************************************)
Refused(code) == [error |-> code, criteria |-> <<>>, warnings |-> {}]

\* _parse_v5_plan_response
Plan(answer, jd) ==
  LET refused == {i \in 1..Len(answer) : Refusal(answer[i], jd) # "none"}
  IN IF answer = <<>> THEN Refused("NO_CRITERIA")
     ELSE IF Len(answer) > MaxCriteria THEN Refused("TOO_MANY_CRITERIA")
     ELSE IF refused # {} THEN Refused(Refusal(answer[Min(refused)], jd))
     ELSE [error |-> "none", criteria |-> Ordered(answer, jd), warnings |-> Warnings(Ordered(answer, jd), {})]

\* A screening's _prepare_v5_inputs and ScreeningEvaluationPlanInputV5.
ScreeningTakes(criteria, jd) ==
  /\ Len(criteria) \in 1..MaxCriteria
  /\ \A c \in Range(criteria) : \A s \in Range(c.sources) : s.phrase \in Range(jd[s.field])

(***************************************************************************)
(* HR's edits.  An item of a stored plan or of a draft is a criterion with *)
(* an identifier, an origin and a note: [id, origin, note, shown]; 0 is    *)
(* the identifier of a new one, "none" no note, else what patterns find.   *)
(***************************************************************************)
Generated5(criteria) ==
  [i \in 1..Len(criteria) |->
     [id |-> i, origin |-> "ai_from_jd", note |-> "none", shown |-> criteria[i]]]

Items == [id : Nat, origin : {"ai_from_jd", "hr_added"}, note : Claimed, shown : Criteria]

ItemIds(items) == {items[i].id : i \in 1..Len(items)} \ {0}
Old(items) == {i \in 1..Len(items) : items[i].id # 0}

\* JobEvaluationPlanV5DraftCriterion
DraftFormed(item) ==
  /\ IsInjective(item.shown.sources)
  /\ item.id = 0 => item.origin = "hr_added"
  /\ IF item.origin = "hr_added" THEN item.shown.sources = <<>> /\ item.note # "none"
     ELSE item.shown.sources # <<>>

\* What a bug would do: not looking for an identifier that is sent twice.
BugRequestFormed(draft) == Len(draft) \in 1..MaxCriteria /\ \A i \in 1..Len(draft) : DraftFormed(draft[i])

\* JobEvaluationPlanV5DraftSaveRequest
RequestFormed(draft) ==
  /\ Len(draft) \in 1..MaxCriteria /\ \A i \in 1..Len(draft) : DraftFormed(draft[i])
  /\ Cardinality(ItemIds(draft)) = Cardinality(Old(draft))

\* _validate_v5_hr_criterion; the order of the last three checks is left out
HrRefusal(item, jd) ==
  IF item.shown.claim = "duration" THEN "WORK_DURATION_CRITERION"
  ELSE IF item.origin = "ai_from_jd" /\ Refusal(item.shown, jd) # "none" THEN Refusal(item.shown, jd)
  ELSE LET found == {item.shown.claim, item.note} \cap {"pollution", "sensitive", "decision"}
       IN IF found = {} THEN "none" ELSE CHOOSE claim \in found : TRUE

\* _materialize_v5_draft: new items are numbered behind those of every plan of the job.
Numbered(draft, used) ==
  LET New(i) == Cardinality({j \in 1..i : draft[j].id = 0})
  IN [i \in 1..Len(draft) |-> IF draft[i].id # 0 THEN draft[i] ELSE [draft[i] EXCEPT !.id = Max(used \cup {0}) + New(i)]]

\* The new items that no identifier is left for.
Unnumbered(draft, used) == {i \in 1..Len(draft) : draft[i].id = 0 /\ Numbered(draft, used)[i].id > MaxNumber}

\* save_draft: the stored items and their warnings, or why nothing is stored
Saved(draft, current, used, jd) ==
  LET items == Numbered(draft, used)
      refused == {i \in 1..Len(draft) : HrRefusal(draft[i], jd) # "none"}
      beyond == Unnumbered(draft, used)
      first == Min(refused \cup beyond)
      Error(code) == [error |-> code, items |-> current, warnings |-> {}]
  IN IF ~RequestFormed(draft) THEN Error("INVALID_REQUEST")
     ELSE IF ~(ItemIds(draft) \subseteq ItemIds(current)) THEN Error("UNKNOWN_CRITERION")
     ELSE IF refused \cup beyond # {} THEN Error(IF first \in beyond THEN "ID_LIMIT" ELSE HrRefusal(draft[first], jd))
     ELSE [error |-> "none", items |-> items,
           warnings |-> Warnings([i \in 1..Len(items) |-> items[i].shown],
                                 {i \in 1..Len(items) : items[i].origin = "hr_added"})]

\* add_criterion, delete_criterion, merge_criteria and update_criterion_importance: the
\* edited items, or <<>> when the edit is refused
Added(items, item) == IF item.id # 0 \/ item.origin # "hr_added" THEN <<>> ELSE Append(items, item)

Without(items, ids) ==
  FoldLeft(LAMBDA out, item : IF item.id \in ids THEN out ELSE Append(out, item), <<>>, items)

Deleted(items, id) == IF id \notin ItemIds(items) THEN <<>> ELSE Without(items, {id})

MergedItems(items, ids, merged) ==
  IF Cardinality(ids) < 2 \/ merged.id \notin ids \/ ~(ids \subseteq ItemIds(items)) THEN <<>>
  ELSE Append(Without(items, ids), merged)

Reweighted(items, id, importance) ==
  IF id \notin ItemIds(items) THEN <<>>
  ELSE [i \in 1..Len(items) |->
          IF items[i].id = id THEN [items[i] EXCEPT !.shown.importance = importance] ELSE items[i]]

\* What one edit of HR's can make of a list; item is what HR writes.
EditsOf(items, item) ==
  LET ids == ItemIds(items)
  IN {Added(items, item)}
     \cup {Deleted(items, id) : id \in ids \cup {item.id}}
     \cup {MergedItems(items, chosen, item) : chosen \in SUBSET ids}
     \cup {Reweighted(items, id, item.shown.importance) : id \in ids \cup {item.id}}

\* build_v5_plan_content: what becomes of the replies to a first and a second request, and
\* the requests made.
Requested(first, second) ==
  IF Retryable(ErrorOf(first)) THEN [reply |-> second, requests |-> 2]
  ELSE [reply |-> first, requests |-> 1]

-----------------------------------------------------------------------------
\* The plan does not depend on the order in which the model lists the criteria, nor on
\* whether it repeats one.
PlanIgnoresOrder(answer, jd) ==
  LET plan == Plan(answer, jd)
      n == Len(answer)
  IN plan.error = "none" =>
       /\ \A i, j \in 1..n : Plan([answer EXCEPT ![i] = answer[j], ![j] = answer[i]], jd) = plan
       /\ n < MaxCriteria => \A i \in 1..n : Plan(Append(answer, answer[i]), jd) = plan

\* A screening accepts the plan: each quote is in the field that it is said to be from; and
\* the plan has all criteria of the answer, each once.
PlanUsable(answer, jd) ==
  LET plan == Plan(answer, jd)
  IN plan.error = "none" =>
       /\ ScreeningTakes(plan.criteria, jd)
       /\ IsInjective(plan.criteria) /\ Range(plan.criteria) = Range(answer)

\* A criterion that HR is not asked to review has the importance that all its quotes with
\* a signal speak of, and these are in the field for that importance.
UnreviewedAgrees(answer, jd) ==
  LET plan == Plan(answer, jd)
      Home == [required |-> "requirements", preferred |-> "preferred"]
  IN \A i \in 1..Len(plan.criteria) :
       LET c == plan.criteria[i]
           signalled == {s \in Signals(c) : s.phrase.strong \/ s.phrase.weak}
       IN <<"IMPORTANCE", i>> \notin plan.warnings =>
            /\ c.importance = "general" <=> signalled = {}
            /\ \A s \in signalled : s.field = Home[c.importance] /\ (s.phrase.strong <=> c.importance = "required")

\* A plan that was generated can be saved by HR as it is: the checks of HR's edits refuse
\* nothing that those of the model's answer let through, and the warnings stay the same.
PlanEditable(answer, jd) ==
  LET plan == Plan(answer, jd)
      items == Generated5(plan.criteria)
      saved == Saved(items, items, 1..Len(items), jd)
  IN plan.error = "none" =>
       saved.error = "none" /\ saved.items = items /\ saved.warnings = plan.warnings

\* What HR saves is a plan that a screening takes, each criterion under an identifier of its
\* own that is not beyond the last, those it had before under the same; and it can be saved
\* again as it is.
DraftUsable(draft, current, used, jd) ==
  LET saved == Saved(draft, current, used, jd)
      n == Len(saved.items)
  IN saved.error = "none" =>
       /\ ScreeningTakes([i \in 1..n |-> saved.items[i].shown], jd)
       /\ IsInjective([i \in 1..n |-> saved.items[i].id])
       /\ \A i \in 1..n : IF draft[i].id = 0 THEN saved.items[i].id \notin used ELSE saved.items[i] = draft[i]
       /\ \A i \in 1..n : saved.items[i].id <= MaxNumber
       /\ Saved(saved.items, saved.items, used \cup ItemIds(saved.items), jd) = saved

\* Two edits after one another leave a list that has no identifier twice and no unknown one,
\* and its items are those before or written by HR, the importance aside.
EditsKeepIds(items, first, second) ==
  \A once \in EditsOf(items, first) \ {<<>>} : \A twice \in EditsOf(once, second) \ {<<>>} :
    /\ Cardinality(ItemIds(twice)) = Cardinality(Old(twice))
    /\ ItemIds(twice) \subseteq ItemIds(items)
    /\ \A item \in Range(twice) \ {first, second} :
         \E old \in Range(items) \cup {first} :
           old.id = item.id /\ [item EXCEPT !.shown.importance = old.shown.importance] = old

\* A request is repeated only if nothing came back for the first one, and at most once.
RepeatedUnanswered(first, second) ==
  Requested(first, second).requests = 2 => ~ModelAnswered(first) /\ first # "not sent"
=============================================================================
