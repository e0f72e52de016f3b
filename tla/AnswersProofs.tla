---------------------------- MODULE AnswersProofs ----------------------------
(***************************************************************************)
(* What holds of Answers whatever the inputs are: the checks of a screening *)
(* report, its one repair and the strengths a list names, for every report; *)
(* the months and the redaction of a resume, for every resume; the units of *)
(* a job's text, the plan made of an answer and what HR makes of it, for    *)
(* every job, answer and draft; and what the program keeps of its requests  *)
(* to the model, for every sequence of replies.                             *)
(***************************************************************************)
EXTENDS Answers, FactPlanProofs

-----------------------------------------------------------------------------
(* A screening report *)

\* An injection takes no value twice.
LEMMA InjectionIs ==
  ASSUME NEW S, NEW T, NEW f \in [S -> T]
  PROVE  f \in Injection(S, T) <=> \A i, j \in S : f[i] = f[j] => i = j
BY DEF Injection, IsInjective

\* As many assessments as names assessed: none is assessed twice.
LEMMA CountedApart ==
  ASSUME NEW report, IsReport(report)
  PROVE  /\ IsFiniteSet(Ids(report))
         /\ Len(report.assessed) = Cardinality(Ids(report))
            <=> \A i, j \in 1..Len(report.assessed) : report.assessed[i].id = report.assessed[j].id => i = j
<1> DEFINE n == Len(report.assessed)
           name == [i \in 1..n |-> report.assessed[i].id]
<1>1. n \in Nat
  BY DEF IsReport
<1>2. IsFiniteSet(1..n) /\ Cardinality(1..n) = n
  BY <1>1, FS_Interval
<1>3. Ids(report) = {name[i] : i \in 1..n}
  BY DEF Ids
<1>4. name \in Surjection(1..n, Ids(report))
  BY <1>3 DEF Surjection
<1>5. IsFiniteSet(Ids(report))
  BY <1>2, <1>4, FS_Surjection
<1>6. Cardinality(Ids(report)) = Cardinality(1..n) <=> name \in Injection(1..n, Ids(report))
  BY <1>2, <1>4, FS_Surjection
<1>7. name \in [1..n -> Ids(report)]
  BY <1>3
<1>8. name \in Injection(1..n, Ids(report)) <=> \A i, j \in 1..n : name[i] = name[j] => i = j
  <2> HIDE DEF n, name
  <2> QED BY <1>7, InjectionIs
<1> QED BY <1>2, <1>5, <1>6, <1>8

\* _collect_v5_service_validation_errors finds no fault in the names: they are the plan's,
\* each once, ...
LEMMA NoIdErrors ==
  ASSUME NEW report, IsReport(report)
  PROVE  IdErrors(report) = {} <=>
           /\ Ids(report) = PlanIds
           /\ Len(report.assessed) = Cardinality(PlanIds)
           /\ \A i, j \in 1..Len(report.assessed) : report.assessed[i].id = report.assessed[j].id => i = j
<1>1. IdErrors(report) = {} <=>
        Len(report.assessed) = Cardinality(Ids(report)) /\ PlanIds \subseteq Ids(report) /\ Ids(report) \subseteq PlanIds
  BY DEF IdErrors
<1> QED BY <1>1, CountedApart

\* ... and none elsewhere.
LEMMA NoServiceErrors ==
  ASSUME NEW report
  PROVE  ServiceErrors(report) = {} <=>
           /\ IdErrors(report) = {}
           /\ \A f \in Findings(report) : Range(f.ids) \subseteq PlanIds
           /\ \A f \in Findings(report) : f.evidence \/ f.ids # <<>>
           /\ \A a \in Range(report.assessed) : ~a.time
           /\ report.text # "unknown"
BY DEF ServiceErrors

\* Of the reports of the right form, parse_and_validate_v5_output refuses exactly those that the
\* strict checks refuse (validate_v5_criterion_cross_reference, _validate_v5_findings, ...), which
\* the tests call and it does not.
THEOREM ChecksAlwaysAgree ==
  ASSUME NEW report, IsReport(report)
  PROVE  ChecksAgree(report)
<1>1. report.text \in {"plain", "unknown", "risky"}
  BY DEF IsReport
<1>2. Strict(report) <=>
        /\ IdErrors(report) = {}
        /\ \A f \in Findings(report) : Range(f.ids) \subseteq PlanIds /\ (f.evidence \/ f.ids # <<>>)
        /\ report.text = "plain"
        /\ \A a \in Range(report.assessed) : ~a.time
  BY NoIdErrors DEF Strict
<1> QED BY <1>1, <1>2, NoServiceErrors DEF ChecksAgree, HighRisk

\* A report that parse_and_validate_v5_output lets through.
LEMMA ValidComplete ==
  ASSUME NEW answer, IsReport(answer.report), Parsed(answer) = "valid"
  PROVE  /\ \A id \in PlanIds :
              Cardinality({i \in 1..Len(answer.report.assessed) : answer.report.assessed[i].id = id}) = 1
         /\ Ids(answer.report) = PlanIds
         /\ \A a \in Range(answer.report.assessed) : a.score > 0 => a.evidence
         /\ answer.report.text = "plain"
<1> DEFINE report == answer.report
<1>1. SchemaErrors(report) = {} /\ ~HighRisk(report) /\ ServiceErrors(report) = {}
  BY DEF Parsed, Malformed
<1>2. report.text = "plain"
  BY <1>1, NoServiceErrors DEF HighRisk, IsReport
<1>3. /\ Ids(report) = PlanIds
      /\ \A i, j \in 1..Len(report.assessed) : report.assessed[i].id = report.assessed[j].id => i = j
  BY <1>1, NoServiceErrors, NoIdErrors
<1>4. \A a \in Range(report.assessed) : a.score > 0 => a.evidence
  BY <1>1 DEF SchemaErrors, Scored
<1>5. ASSUME NEW id \in PlanIds
      PROVE  Cardinality({i \in 1..Len(report.assessed) : report.assessed[i].id = id}) = 1
  <2>1. PICK k \in 1..Len(report.assessed) : report.assessed[k].id = id
    BY <1>3, <1>5 DEF Ids
  <2>2. {i \in 1..Len(report.assessed) : report.assessed[i].id = id} = {k}
    BY <1>3, <2>1
  <2> QED BY <2>2, FS_Singleton
<1> QED BY <1>2, <1>3, <1>4, <1>5

\* The report that evaluate_v5 hands on, be it the first answer or the repaired one,
\* assesses each criterion of the plan once, with evidence for every positive score.
THEOREM StoredComplete ==
  ASSUME NEW first, NEW second, IsReport(first.report), IsReport(second.report)
  PROVE  ReportComplete(first, second)
<1> DEFINE outcome == EvaluateV5(first, second)
<1>1. SUFFICES ASSUME outcome.result = "report"
               PROVE  \/ outcome.from = 1 /\ Parsed(first) = "valid"
                      \/ outcome.from = 2 /\ Parsed(second) = "valid"
  BY <1>1, ValidComplete DEF ReportComplete
<1>2. \A answer : Errored(answer) # "report"
  BY DEF Errored, ErrorOf
<1>3. CASE Failed(first)
  BY <1>1, <1>2, <1>3 DEF EvaluateV5, Outcome
<1>4. CASE ~Failed(first) /\ Parsed(first) = "valid"
  BY <1>4 DEF EvaluateV5, Outcome
<1>5. CASE ~Failed(first) /\ Parsed(first) = "invalid"
  BY <1>1, <1>5 DEF EvaluateV5, Outcome
<1>6. CASE ~Failed(first) /\ Parsed(first) \notin {"valid", "invalid"}
  BY <1>1, <1>2, <1>6 DEF EvaluateV5, Repaired, Outcome
<1> QED BY <1>3, <1>4, <1>5, <1>6

\* _build_v5_audit: what is returned or raised after an answer counts the requests made and
\* the answers received, whatever the two answers and their reports are.
THEOREM EvaluationAlwaysAudited ==
  ASSUME NEW first, NEW second
  PROVE  EvaluationAudited(first, second)
<1>1. Parsed(first) \in {"valid", "invalid", "repairable"}
  BY DEF Parsed
<1>2. CASE Failed(first)
  BY <1>2 DEF EvaluationAudited
<1>3. CASE ~Failed(first) /\ Parsed(first) = "valid"
  BY <1>3 DEF EvaluationAudited, EvaluateV5, Outcome, Audit
<1>4. CASE ~Failed(first) /\ Parsed(first) = "invalid"
  BY <1>4 DEF EvaluationAudited, EvaluateV5, Outcome, Audit
<1>5. CASE ~Failed(first) /\ Parsed(first) = "repairable"
  BY <1>5 DEF EvaluationAudited, EvaluateV5, Outcome, Audit, Repaired
<1> QED BY <1>1, <1>2, <1>3, <1>4, <1>5

\* What evaluate_v5 makes of a risky answer: it is never the report, first or repaired; of the
\* right form it ends the evaluation, and only a fault of form has it sent back to the model.
THEOREM RiskyNeverTaken ==
  ASSUME NEW first, NEW second
  PROVE  RiskyNeverStored(first, second)
<1> DEFINE outcome == EvaluateV5(first, second)
           Risky(answer) == answer.reply = "answer" /\ HighRisk(answer.report)
<1>1. ASSUME NEW answer, Risky(answer)
      PROVE  ~Failed(answer) /\ Parsed(answer) = IF Malformed(answer) THEN "repairable" ELSE "invalid"
  BY <1>1 DEF Failed, Parsed
<1>2. ASSUME Risky(first) PROVE outcome = IF Malformed(first) THEN Repaired(second) ELSE Outcome("INVALID", 1, Audit(1, 1))
  BY <1>1, <1>2 DEF EvaluateV5
<1>3. /\ Repaired(second).from # 1 /\ Repaired(second).audit.attempts = 2
      /\ Risky(second) => Repaired(second).result = "INVALID"
  BY <1>1 DEF Repaired, Outcome, Audit
<1>4. ASSUME Risky(second), outcome.from = 2 PROVE outcome.result # "report"
  BY <1>3, <1>4 DEF EvaluateV5, Outcome
<1>5. ASSUME Risky(first)
      PROVE  /\ outcome.from # 1 \/ outcome.result # "report"
             /\ outcome.audit.attempts = 2 <=> Malformed(first)
             /\ ~Malformed(first) => outcome.result = "INVALID"
  BY <1>2, <1>3, <1>5 DEF Outcome, Audit
<1> QED BY <1>4, <1>5 DEF RiskyNeverStored

-----------------------------------------------------------------------------
(* The strengths a list names *)

\* A number for each element: one has the least.
LEMMA LeastValue ==
  ASSUME NEW S, S # {}, NEW f \in [S -> Nat]
  PROVE  \E n \in S : \A m \in S : f[n] <= f[m]
<1> DEFINE N == {f[n] : n \in S}
<1>1. N \in SUBSET Nat /\ N # {}
  OBVIOUS
<1>2. PICK k \in N : \A j \in N : k <= j
  <2> HIDE DEF N
  <2> QED BY <1>1, LeastOf
<1>3. PICK n \in S : f[n] = k
  OBVIOUS
<1> QED BY <1>2, <1>3

\* The order of keys of four numbers.
LEMMA KeyOfFour ==
  ASSUME NEW a, NEW b, Len(a) = 4
  PROVE  SmallerKey(a, b) <=>
           \/ a[1] < b[1]
           \/ a[1] = b[1] /\ a[2] < b[2]
           \/ a[1] = b[1] /\ a[2] = b[2] /\ a[3] < b[3]
           \/ a[1] = b[1] /\ a[2] = b[2] /\ a[3] = b[3] /\ a[4] < b[4]
<1> DEFINE Differ(i) == a[i] < b[i] /\ \A j \in 1..i - 1 : a[j] = b[j]
<1>1. 1..Len(a) = {1, 2, 3, 4}
  OBVIOUS
<1>2. SmallerKey(a, b) <=> Differ(1) \/ Differ(2) \/ Differ(3) \/ Differ(4)
  <2>1. SmallerKey(a, b) <=> \E i \in 1..Len(a) : Differ(i)
    BY DEF SmallerKey
  <2> HIDE DEF Differ
  <2> QED BY <1>1, <2>1
<1>3. 1..1 - 1 = {} /\ 1..2 - 1 = {1} /\ 1..3 - 1 = {1, 2} /\ 1..4 - 1 = {1, 2, 3}
  OBVIOUS
<1> QED BY <1>2, <1>3

\* A candidate: a strength and one of the criteria it refers to.
LEMMA CandidateIs ==
  ASSUME NEW report, IsStored(report), NEW n \in Candidates(report)
  PROVE  LET i == n[1]
             c == n[2]
         IN /\ n = <<i, c>> /\ i \in 1..Len(report.strengths) /\ c \in 1..Len(report.criteria)
            /\ report.criteria[c].score \in 0..100 /\ report.criteria[c].score \in Nat
            /\ report.criteria[c].importance \in 0..2
<1>1. PICK i \in 1..Len(report.strengths), c \in 1..Len(report.criteria) : n = <<i, c>>
  BY DEF Candidates, Named
<1>2. n[1] = i /\ n[2] = c
  BY <1>1
<1> DEFINE Criterion == [label : Nat, importance : 0..2, hidden : BOOLEAN, score : 0..100, evidence : Nat]
<1>3. report.criteria[c] \in Criterion
  <2> HIDE DEF Criterion
  <2>1. report.criteria \in Seq(Criterion)
    BY DEF IsStored, Criterion
  <2> QED BY <1>1, <2>1
<1>4. report.criteria[c].score \in 0..100 /\ report.criteria[c].importance \in 0..2
  BY <1>3
<1>5. \A x \in 0..100 : x \in Nat
  OBVIOUS
<1> QED BY <1>1, <1>2, <1>4, <1>5

\* The candidates are finitely many.
LEMMA CandidatesFinite ==
  ASSUME NEW report, IsStored(report)
  PROVE  IsFiniteSet(Candidates(report))
<1>1. Len(report.strengths) \in Nat /\ Len(report.criteria) \in Nat
  BY DEF IsStored
<1> DEFINE I == 1..Len(report.strengths)
           C == 1..Len(report.criteria)
<1>2. IsFiniteSet(I)
  BY <1>1, FS_Interval
<1>3. IsFiniteSet(C)
  BY <1>1, FS_Interval
<1>4. IsFiniteSet(I \X C)
  <2> HIDE DEF I, C
  <2> QED BY <1>2, <1>3, FS_Product
<1>5. Candidates(report) \subseteq I \X C
  BY DEF Candidates, Named
<1> QED BY <1>4, <1>5, FS_Subset

\* How two candidates are sorted.
LEMMA TagOrder ==
  ASSUME NEW report, IsStored(report), NEW m \in Candidates(report), NEW n \in Candidates(report)
  PROVE  LET Score(k) == report.criteria[k[2]].score
             Rank(k) == report.criteria[k[2]].importance
         IN TagBefore(report, m, n) <=>
              \/ Score(m) > Score(n)
              \/ Score(m) = Score(n) /\ Rank(m) < Rank(n)
              \/ Score(m) = Score(n) /\ Rank(m) = Rank(n) /\ m[1] < n[1]
              \/ Score(m) = Score(n) /\ Rank(m) = Rank(n) /\ m[1] = n[1] /\ m[2] < n[2]
<1> DEFINE sm == report.criteria[m[2]].score
           sn == report.criteria[n[2]].score
           rm == report.criteria[m[2]].importance
           rn == report.criteria[n[2]].importance
           m1 == m[1]
           m2 == m[2]
           n1 == n[1]
           n2 == n[2]
<1>1. m1 \in Nat /\ m2 \in Nat /\ sm \in 0..100 /\ rm \in Nat
  <2>1. Len(report.strengths) \in Nat /\ Len(report.criteria) \in Nat
    BY DEF IsStored
  <2>2. /\ m1 \in 1..Len(report.strengths) /\ m2 \in 1..Len(report.criteria)
        /\ sm \in 0..100 /\ rm \in 0..2
    BY CandidateIs
  <2> HIDE DEF m1, m2, sm, rm
  <2> QED BY <2>1, <2>2
<1>2. n1 \in Nat /\ n2 \in Nat /\ sn \in 0..100 /\ rn \in Nat
  <2>1. Len(report.strengths) \in Nat /\ Len(report.criteria) \in Nat
    BY DEF IsStored
  <2>2. /\ n1 \in 1..Len(report.strengths) /\ n2 \in 1..Len(report.criteria)
        /\ sn \in 0..100 /\ rn \in 0..2
    BY CandidateIs
  <2> HIDE DEF n1, n2, sn, rn
  <2> QED BY <2>1, <2>2
<1>3. TagBefore(report, m, n) <=> SmallerKey(<<100 - sm, rm, m1, m2>>, <<100 - sn, rn, n1, n2>>)
  BY DEF TagBefore
<1> HIDE DEF sm, sn, rm, rn, m1, m2, n1, n2
<1>4. 100 - sm \in Nat /\ 100 - sn \in Nat
      /\ (100 - sm < 100 - sn <=> sm > sn) /\ (100 - sm = 100 - sn <=> sm = sn)
  BY <1>1, <1>2
<1> DEFINE dm == 100 - sm
           dn == 100 - sn
<1>5. dm \in Nat /\ dn \in Nat /\ (dm < dn <=> sm > sn) /\ (dm = dn <=> sm = sn)
      /\ (TagBefore(report, m, n) <=> SmallerKey(<<dm, rm, m1, m2>>, <<dn, rn, n1, n2>>))
  BY <1>3, <1>4
<1> HIDE DEF dm, dn
<1>6. TagBefore(report, m, n) <=>
        \/ dm < dn
        \/ dm = dn /\ rm < rn
        \/ dm = dn /\ rm = rn /\ m1 < n1
        \/ dm = dn /\ rm = rn /\ m1 = n1 /\ m2 < n2
  <2> DEFINE a == <<dm, rm, m1, m2>>
             b == <<dn, rn, n1, n2>>
  <2>1. Len(a) = 4 /\ a[1] = dm /\ a[2] = rm /\ a[3] = m1 /\ a[4] = m2
        /\ b[1] = dn /\ b[2] = rn /\ b[3] = n1 /\ b[4] = n2
    OBVIOUS
  <2>2. TagBefore(report, m, n) <=> SmallerKey(a, b)
    BY <1>5
  <2> HIDE DEF a, b
  <2> QED BY <2>1, <2>2, KeyOfFour
<1>7. TagBefore(report, m, n) <=>
        \/ sm > sn
        \/ sm = sn /\ rm < rn
        \/ sm = sn /\ rm = rn /\ m1 < n1
        \/ sm = sn /\ rm = rn /\ m1 = n1 /\ m2 < n2
  BY <1>5, <1>6
<1> QED BY <1>7 DEF sm, sn, rm, rn, m1, m2, n1, n2

\* Of some candidates one is sorted behind the others, and none has a lower score.
LEMMA LastTagIs ==
  ASSUME NEW report, IsStored(report), NEW S \in SUBSET Candidates(report), S # {}
  PROVE  LET n == LastTag(report, S)
         IN n \in S /\ \A m \in S : report.criteria[m[2]].score >= report.criteria[n[2]].score
<1> DEFINE I == Len(report.strengths)
           C == Len(report.criteria)
           score == [n \in S |-> report.criteria[n[2]].score]
           back == [n \in S |-> 2 - report.criteria[n[2]].importance]
           early == [n \in S |-> I - n[1]]
           first == [n \in S |-> C - n[2]]
<1>1. I \in Nat /\ C \in Nat
  BY DEF IsStored
<1>2. \A n \in S : /\ n = <<n[1], n[2]>> /\ n[1] \in 1..I /\ n[2] \in 1..C
                   /\ report.criteria[n[2]].score \in Nat /\ report.criteria[n[2]].importance \in 0..2
  BY CandidateIs
<1>3. score \in [S -> Nat] /\ back \in [S -> Nat] /\ early \in [S -> Nat] /\ first \in [S -> Nat]
  <2>1. \A n \in S : report.criteria[n[2]].score \in Nat
    BY <1>2
  <2>2. \A n \in S : 2 - report.criteria[n[2]].importance \in Nat
    BY <1>2
  <2>3. \A n \in S : I - n[1] \in Nat
    BY <1>1, <1>2
  <2>4. \A n \in S : C - n[2] \in Nat
    BY <1>1, <1>2
  <2>5. score \in [S -> Nat]
    BY <2>1
  <2>6. back \in [S -> Nat]
    BY <2>2
  <2>7. early \in [S -> Nat]
    BY <2>3
  <2>8. first \in [S -> Nat]
    BY <2>4
  <2> QED BY <2>5, <2>6, <2>7, <2>8
<1>12. ASSUME NEW m \in S, NEW k \in S
       PROVE  LET Rank(c) == report.criteria[c[2]].importance
              IN /\ back[m] > back[k] => Rank(m) < Rank(k)
                 /\ back[m] = back[k] => Rank(m) = Rank(k)
                 /\ early[m] > early[k] => m[1] < k[1]
                 /\ early[m] = early[k] => m[1] = k[1]
                 /\ first[k] <= first[m] => m[2] <= k[2]
                 /\ m[2] \in Nat /\ k[2] \in Nat
                 /\ m = <<m[1], m[2]>> /\ k = <<k[1], k[2]>>
  <2> DEFINE rm == report.criteria[m[2]].importance
             rk == report.criteria[k[2]].importance
  <2>1. rm \in 0..2 /\ rk \in 0..2 /\ back[m] = 2 - rm /\ back[k] = 2 - rk
    BY <1>2
  <2>2. m[1] \in 1..I /\ k[1] \in 1..I /\ early[m] = I - m[1] /\ early[k] = I - k[1]
    BY <1>2
  <2>3. m[2] \in 1..C /\ k[2] \in 1..C /\ first[m] = C - m[2] /\ first[k] = C - k[2]
    BY <1>2
  <2>4. m = <<m[1], m[2]>> /\ k = <<k[1], k[2]>>
    BY <1>2
  <2> HIDE DEF rm, rk, back, early, first, I, C
  <2>5. (back[m] > back[k] => rm < rk) /\ (back[m] = back[k] => rm = rk)
    BY <2>1
  <2>6. (early[m] > early[k] => m[1] < k[1]) /\ (early[m] = early[k] => m[1] = k[1])
    BY <1>1, <2>2
  <2>7. (first[k] <= first[m] => m[2] <= k[2]) /\ m[2] \in Nat /\ k[2] \in Nat
    BY <1>1, <2>3
  <2> QED BY <2>4, <2>5, <2>6, <2>7 DEF rm, rk
<1>4. PICK n1 \in S : \A m \in S : score[n1] <= score[m]
  <2> HIDE DEF score, back, early, first
  <2> QED BY <1>3, LeastValue
<1> DEFINE S2 == {m \in S : score[m] = score[n1]}
<1>5. PICK n2 \in S2 : \A m \in S2 : back[n2] <= back[m]
  <2> HIDE DEF score, back, early, first
  <2>1. S2 # {} /\ [m \in S2 |-> back[m]] \in [S2 -> Nat]
    BY <1>3
  <2> DEFINE f == [m \in S2 |-> back[m]]
  <2>2. \A m \in S2 : f[m] = back[m]
    OBVIOUS
  <2> HIDE DEF S2, f
  <2>3. PICK n2 \in S2 : \A m \in S2 : f[n2] <= f[m]
    BY <2>1, LeastValue DEF f
  <2> QED BY <2>2, <2>3
<1> DEFINE S3 == {m \in S2 : back[m] = back[n2]}
<1>6. PICK n3 \in S3 : \A m \in S3 : early[n3] <= early[m]
  <2> HIDE DEF score, back, early, first
  <2>1. S3 # {} /\ [m \in S3 |-> early[m]] \in [S3 -> Nat]
    BY <1>3
  <2> DEFINE f == [m \in S3 |-> early[m]]
  <2>2. \A m \in S3 : f[m] = early[m]
    OBVIOUS
  <2> HIDE DEF S3, f
  <2>3. PICK n3 \in S3 : \A m \in S3 : f[n3] <= f[m]
    BY <2>1, LeastValue DEF f
  <2> QED BY <2>2, <2>3
<1> DEFINE S4 == {m \in S3 : early[m] = early[n3]}
<1>7. PICK n4 \in S4 : \A m \in S4 : first[n4] <= first[m]
  <2> HIDE DEF score, back, early, first
  <2>1. S4 # {} /\ [m \in S4 |-> first[m]] \in [S4 -> Nat]
    BY <1>3
  <2> DEFINE f == [m \in S4 |-> first[m]]
  <2>2. \A m \in S4 : f[m] = first[m]
    OBVIOUS
  <2> HIDE DEF S4, f
  <2>3. PICK n4 \in S4 : \A m \in S4 : f[n4] <= f[m]
    BY <2>1, LeastValue DEF f
  <2> QED BY <2>2, <2>3
<1>8. n4 \in S
  OBVIOUS
<1>9. ASSUME NEW m \in S PROVE score[n4] <= score[m] /\ (m = n4 \/ TagBefore(report, m, n4))
  <2>1. score[m] \in Nat /\ score[n4] \in Nat /\ score[n4] = score[n1] /\ score[n1] <= score[m]
    <3> HIDE DEF score, back, early, first
    <3> QED BY <1>3, <1>4, <1>8
  <2>2. CASE score[m] # score[n4]
    <3>1. score[m] > score[n4]
      <4> HIDE DEF score
      <4> QED BY <2>1, <2>2
    <3>2. report.criteria[m[2]].score > report.criteria[n4[2]].score
      BY <1>8, <3>1
    <3>3. TagBefore(report, m, n4)
      BY <1>8, <3>2, TagOrder
    <3> QED BY <2>1, <3>3
  <2>3. CASE m \in S2
    <3>1. back[m] \in Nat /\ back[n4] \in Nat /\ back[n4] = back[n2] /\ back[n2] <= back[m]
      <4> HIDE DEF score, back, early, first
      <4> QED BY <1>3, <1>5, <1>8, <2>3
    <3>2. report.criteria[m[2]].score = report.criteria[n4[2]].score
      BY <1>8, <2>3
    <3>3. CASE back[m] # back[n4]
      <4>1. back[m] > back[n4]
        <5> HIDE DEF back
        <5> QED BY <3>1, <3>3
      <4>2. report.criteria[m[2]].importance < report.criteria[n4[2]].importance
        BY <1>8, <1>12, <4>1
      <4>3. TagBefore(report, m, n4)
        BY <1>8, <3>2, <4>2, TagOrder
      <4> QED BY <2>1, <4>3
    <3>4. CASE m \in S3
      <4>1. early[m] \in Nat /\ early[n4] \in Nat /\ early[n4] = early[n3] /\ early[n3] <= early[m]
        <5> HIDE DEF score, back, early, first
        <5> QED BY <1>3, <1>6, <1>8, <3>4
      <4>2. report.criteria[m[2]].importance = report.criteria[n4[2]].importance
        <5>1. back[m] = back[n4]
          <6> HIDE DEF back
          <6> QED BY <3>1, <3>4
        <5> QED BY <1>8, <1>12, <5>1
      <4>3. CASE early[m] # early[n4]
        <5>1. early[m] > early[n4]
          <6> HIDE DEF early
          <6> QED BY <4>1, <4>3
        <5>2. m[1] < n4[1]
          BY <1>8, <1>12, <5>1
        <5>3. TagBefore(report, m, n4)
          BY <1>8, <3>2, <4>2, <5>2, TagOrder
        <5> QED BY <2>1, <5>3
      <4>4. CASE m \in S4
        <5>1. first[m] \in Nat /\ first[n4] \in Nat /\ first[n4] <= first[m]
          <6> HIDE DEF score, back, early, first
          <6> QED BY <1>3, <1>7, <1>8, <4>4
        <5>2. m[1] = n4[1]
          <6>1. early[m] = early[n4]
            <7> HIDE DEF early
            <7> QED BY <4>1, <4>4
          <6> QED BY <1>8, <1>12, <6>1
        <5>3. m[2] <= n4[2] /\ m[2] \in Nat /\ n4[2] \in Nat
          BY <1>8, <1>12, <5>1
        <5>4. CASE m[2] = n4[2]
          BY <1>8, <1>12, <2>1, <5>2, <5>4
        <5>5. CASE m[2] < n4[2]
          <6>1. TagBefore(report, m, n4)
            BY <1>8, <3>2, <4>2, <5>2, <5>5, TagOrder
          <6> QED BY <2>1, <6>1
        <5> QED BY <5>3, <5>4, <5>5
      <4>5. early[m] # early[n4] \/ m \in S4
        <5> HIDE DEF score, back, early, first
        <5> QED BY <3>4
      <4> QED BY <4>3, <4>4, <4>5
    <3>5. back[m] # back[n4] \/ m \in S3
      <4> HIDE DEF score, back, early, first
      <4> QED BY <2>3
    <3> QED BY <3>3, <3>4, <3>5
  <2>4. score[m] # score[n4] \/ m \in S2
    <3> HIDE DEF score, back, early, first
    <3> QED OBVIOUS
  <2> QED BY <2>2, <2>3, <2>4
<1> DEFINE n == LastTag(report, S)
<1>10. n \in S /\ \A m \in S : m = n \/ TagBefore(report, m, n)
  <2>1. \E k \in S : \A m \in S : m = k \/ TagBefore(report, m, k)
    BY <1>8, <1>9
  <2> QED BY <2>1 DEF LastTag
<1>11. \A m \in S : report.criteria[m[2]].score >= report.criteria[n[2]].score
  <2> HIDE DEF n
  <2>1. ASSUME NEW m \in S PROVE report.criteria[m[2]].score >= report.criteria[n[2]].score
    <3>1. report.criteria[m[2]].score \in Nat /\ report.criteria[n[2]].score \in Nat
      BY <1>2, <1>10
    <3>2. m = n \/ TagBefore(report, m, n)
      BY <1>10
    <3>3. CASE m = n
      BY <3>1, <3>3
    <3>4. CASE TagBefore(report, m, n)
      <4> DEFINE a == report.criteria[m[2]].score
                 b == report.criteria[n[2]].score
      <4>1. m \in Candidates(report) /\ n \in Candidates(report)
        BY <1>10
      <4>2. a > b \/ a = b
        BY <3>4, <4>1, TagOrder
      <4> HIDE DEF a, b
      <4>3. a \in Nat /\ b \in Nat
        BY <3>1 DEF a, b
      <4>4. a >= b
        BY <4>2, <4>3
      <4> QED BY <4>4 DEF a, b
    <3> QED BY <3>2, <3>3, <3>4
  <2> QED BY <2>1
<1> QED BY <1>10, <1>11

\* What the list is after some of the candidates: the best of their strengths, each label once.
Score(report, c) == report.criteria[c].score
Label(report, c) == report.criteria[c].label
Lists(report, tags, c) == \E t \in Range(tags) : Label(report, t) = Label(report, c) /\ Score(report, t) >= Score(report, c)
Fills(report, tags, c) == Len(tags) = MaxTags /\ \A t \in Range(tags) : Score(report, t) >= Score(report, c)
Best(report, tags, T) ==
  /\ tags \in Seq(Nat) /\ Len(tags) <= MaxTags
  /\ Range(tags) \subseteq {n[2] : n \in T}
  /\ \A i, j \in 1..Len(tags) : Label(report, tags[i]) = Label(report, tags[j]) => i = j
  /\ \A n \in T : Lists(report, tags, n[2]) \/ Fills(report, tags, n[2])

\* A candidate that is not listed, and one that is.
LEMMA BestAppended ==
  ASSUME NEW report, NEW T, NEW n \in T, NEW tags, Best(report, tags, T \ {n}), n[2] \in Nat,
         Score(report, n[2]) \in Nat,
         Len(tags) # MaxTags, \A t \in Range(tags) : Label(report, t) # Label(report, n[2])
  PROVE  Best(report, Append(tags, n[2]), T)
<1> DEFINE c == n[2]
           k == Len(tags)
           list == Append(tags, c)
<1>1. tags \in Seq(Nat) /\ k \in Nat /\ k <= MaxTags /\ c \in Nat
  BY DEF Best
<1>2. list \in Seq(Nat) /\ Len(list) = k + 1 /\ list[k + 1] = c /\ \A i \in 1..k : list[i] = tags[i]
  <2> HIDE DEF c
  <2> QED BY <1>1
<1>3. Range(tags) = {tags[i] : i \in 1..k}
  BY <1>1 DEF Range
<1> HIDE DEF c, k, list
<1>4. Range(list) = Range(tags) \cup {c}
  <2>1. Range(list) = {list[i] : i \in 1..k + 1}
    BY <1>2 DEF Range
  <2>2. 1..k + 1 = 1..k \cup {k + 1}
    BY <1>1
  <2> QED BY <1>2, <1>3, <2>1, <2>2, SMTT(30)
<1>5. Len(list) <= MaxTags
  BY <1>1, <1>2, TagsAssumption DEF k
<1>6. Range(list) \subseteq {m[2] : m \in T}
  BY <1>4 DEF Best, c
<1>7. ASSUME NEW i \in 1..Len(list), NEW j \in 1..Len(list), Label(report, list[i]) = Label(report, list[j])
      PROVE  i = j
  <2>1. \A l \in 1..k + 1 : l \in 1..k \/ l = k + 1
    BY <1>1
  <2>2. \A l \in 1..k : Label(report, tags[l]) # Label(report, c)
    BY <1>3 DEF c
  <2>3. CASE i \in 1..k /\ j \in 1..k
    BY <1>2, <1>7, <2>3 DEF Best, k
  <2>4. CASE i \in 1..k /\ j = k + 1
    BY <1>2, <1>7, <2>2, <2>4
  <2>5. CASE i = k + 1 /\ j \in 1..k
    BY <1>2, <1>7, <2>2, <2>5
  <2> QED BY <1>2, <2>1, <2>3, <2>4, <2>5
<1>8. ASSUME NEW m \in T PROVE Lists(report, list, m[2])
  <2>1. CASE m = n
    BY <1>4, <2>1 DEF Lists, c
  <2>2. CASE m # n
    <3>1. Lists(report, tags, m[2])
      BY <2>2 DEF Best, Fills
    <3> QED BY <1>4, <3>1 DEF Lists
  <2> QED BY <2>1, <2>2
<1>9. Best(report, list, T)
  BY <1>2, <1>5, <1>6, <1>7, <1>8 DEF Best
<1> QED BY <1>9 DEF list, c

LEMMA BestPassed ==
  ASSUME NEW report, NEW T, NEW n \in T, NEW tags, Best(report, tags, T \ {n}),
         \A m \in T : Score(report, m[2]) >= Score(report, n[2]),
         Len(tags) = MaxTags \/ \E t \in Range(tags) : Label(report, t) = Label(report, n[2])
  PROVE  Best(report, tags, T)
<1>1. \A t \in Range(tags) : Score(report, t) >= Score(report, n[2])
  BY DEF Best
<1>2. Lists(report, tags, n[2]) \/ Fills(report, tags, n[2])
  BY <1>1 DEF Lists, Fills
<1>3. Range(tags) \subseteq {m[2] : m \in T}
  BY DEF Best
<1>4. \A m \in T : Lists(report, tags, m[2]) \/ Fills(report, tags, m[2])
  BY <1>2 DEF Best
<1> QED BY <1>3, <1>4 DEF Best

LEMMA BestTaken ==
  ASSUME NEW report, IsStored(report), NEW T \in SUBSET Candidates(report), T # {}, NEW tags,
         Best(report, tags, T \ {LastTag(report, T)})
  PROVE  Best(report, Take(report, LastTag(report, T), tags), T)
<1> DEFINE n == LastTag(report, T)
<1>1. n \in T /\ \A m \in T : Score(report, m[2]) >= Score(report, n[2])
  BY LastTagIs DEF Score
<1>2. n[2] \in Nat /\ Score(report, n[2]) \in Nat
  <2>1. Len(report.criteria) \in Nat
    BY DEF IsStored
  <2> HIDE DEF n
  <2> QED BY <1>1, <2>1, CandidateIs DEF Score
<1> HIDE DEF n
<1>3. Best(report, tags, T \ {n})
  BY DEF n
<1>4. CASE Len(tags) = MaxTags \/ \E t \in Range(tags) : Label(report, t) = Label(report, n[2])
  <2>1. Take(report, n, tags) = tags
    BY <1>4 DEF Take, Label
  <2> QED BY <1>1, <1>3, <1>4, <2>1, BestPassed DEF n
<1>5. CASE ~(Len(tags) = MaxTags \/ \E t \in Range(tags) : Label(report, t) = Label(report, n[2]))
  <2>1. Take(report, n, tags) = Append(tags, n[2])
    BY <1>5 DEF Take, Label
  <2> QED BY <1>1, <1>2, <1>3, <1>5, <2>1, BestAppended DEF n
<1> QED BY <1>4, <1>5

\* The list after all candidates.
LEMMA TagsBest ==
  ASSUME NEW report, IsStored(report)
  PROVE  Best(report, Tags(report), Candidates(report))
<1> DEFINE C == Candidates(report)
           A == Seq(Nat)
           last == [T \in (SUBSET C) \ {{}} |-> LastTag(report, T)]
           step == [p \in C \X A |-> Take(report, p[1], p[2])]
           Value(g, T) == IF T = {} THEN <<>> ELSE Take(report, LastTag(report, T), g[T \ {LastTag(report, T)}])
           iter == CHOOSE h : h = [T \in SUBSET C |-> Value(h, T)]
           Good == {T \in SUBSET C : Best(report, iter[T], T)}
<1>1. IsFiniteSet(C)
  BY CandidatesFinite
<1>2. \A T \in SUBSET C : T # {} => last[T] = LastTag(report, T) /\ LastTag(report, T) \in T
  BY LastTagIs
<1>3. Chooses(last, C)
  <2>1. last \in [(SUBSET C) \ {{}} -> C]
    BY LastTagIs
  <2> HIDE DEF last, C
  <2> QED BY <1>2, <2>1 DEF Chooses
<1>4. \A n \in C, tags \in A : Take(report, n, tags) \in A
  <2>1. SUFFICES ASSUME NEW n \in C, NEW tags \in A PROVE Take(report, n, tags) \in A
    OBVIOUS
  <2>2. n[2] \in Nat
    <3>1. Len(report.criteria) \in Nat
      BY DEF IsStored
    <3> QED BY <3>1, CandidateIs
  <2>3. Append(tags, n[2]) \in A
    <3> DEFINE c == n[2]
    <3> HIDE DEF c
    <3>1. c \in Nat
      BY <2>2 DEF c
    <3>2. Append(tags, c) \in A
      BY <3>1
    <3> QED BY <3>2 DEF c
  <2>4. Take(report, n, tags) = tags \/ Take(report, n, tags) = Append(tags, n[2])
    BY DEF Take
  <2> QED BY <2>3, <2>4
<1>5. \E g : g = [T \in SUBSET C |-> Value(g, T)]
  <2>1. step \in [C \X A -> A] /\ <<>> \in A
    BY <1>4
  <2>2. \A n \in C, tags \in A : step[<<n, tags>>] = Take(report, n, tags)
    OBVIOUS
  <2> HIDE DEF step, A, C, last
  <2>3. PICK g \in [SUBSET C -> A] : Folded(g, C, last, <<>>, step)
    BY <1>1, <1>3, <2>1, FoldExists
  <2>4. \A T \in SUBSET C : g[T] = Value(g, T)
    BY <1>2, <2>2, <2>3 DEF Folded
  <2>5. g = [T \in SUBSET C |-> Value(g, T)]
    <3> HIDE DEF Value
    <3> QED BY <2>3, <2>4
  <2> QED BY <2>5
<1>6. Tags(report) = iter[C]
  BY DEF Tags, MapThenFoldSet
<1>7. iter = [T \in SUBSET C |-> Value(iter, T)]
  <2> HIDE DEF Value
  <2> QED BY <1>5
<1> HIDE DEF iter, last, C
<1>8. {} \in Good
  <2>1. iter[{}] = <<>>
    BY <1>7
  <2>2. Best(report, <<>>, {})
    <3>1. Len(<<>>) = 0 /\ Range(<<>>) = {}
      BY DEF Range
    <3> QED BY <3>1, TagsAssumption DEF Best
  <2> QED BY <2>1, <2>2
<1>9. ASSUME NEW T \in SUBSET C, T # {}, T \ {last[T]} \in Good
      PROVE  T \in Good
  <2> DEFINE n == LastTag(report, T)
  <2>1. Best(report, iter[T \ {n}], T \ {n})
    BY <1>2, <1>9
  <2>2. iter[T] = Take(report, n, iter[T \ {n}])
    BY <1>7, <1>9
  <2>3. Best(report, Take(report, n, iter[T \ {n}]), T)
    BY <1>9, <2>1, BestTaken DEF C
  <2> QED BY <2>2, <2>3
<1>10. Good = SUBSET C
  <2>1. Good \in SUBSET (SUBSET C)
    OBVIOUS
  <2> HIDE DEF Good
  <2>2. Grows(Good, C, last)
    BY <1>8, <1>9 DEF Grows
  <2> QED BY <1>1, <1>3, <2>1, <2>2, Parts
<1>11. Best(report, iter[C], C)
  <2>1. C \in Good
    BY <1>10
  <2> QED BY <2>1
<1> QED BY <1>6, <1>11 DEF C

\* extract_screening_ability_tags, for every stored report: a label that a strength supports
\* is listed with its best score, unless the list is full of others that score no less, and
\* no label is listed twice or without support.
THEOREM BestAlwaysNamed ==
  ASSUME NEW report, IsStored(report)
  PROVE  BestNamed(report)
<1> DEFINE tags == Tags(report)
<1>1. Best(report, tags, Candidates(report))
  BY TagsBest
<1> HIDE DEF tags
<1>2. Len(tags) <= MaxTags /\ Range(tags) \subseteq {n[2] : n \in Candidates(report)}
  BY <1>1 DEF Best
<1>3. IsInjective([i \in 1..Len(tags) |-> report.criteria[tags[i]].label])
  BY <1>1 DEF Best, Label, IsInjective
<1>4. \A n \in Candidates(report) : Lists(report, tags, n[2]) \/ Fills(report, tags, n[2])
  BY <1>1 DEF Best
<1>5. \A c \in {n[2] : n \in Candidates(report)} : Lists(report, tags, c) \/ Fills(report, tags, c)
  BY <1>4
<1> QED BY <1>2, <1>3, <1>5 DEF BestNamed, Lists, Fills, Label, Score, tags

-----------------------------------------------------------------------------
(* Reports *)

\* The input of a step that is about a report is one of the constants'.
ReportTaken ==
  /\ input.kind = "report" => input.value \in Reports
  /\ input.kind = "evaluation" => input.value \in ReportAnswers \X ReportAnswers
  /\ input.kind = "tags" => input.value \in StoredReports

\* For all reports and answers: the checks that collect faults agree with the strict ones, what
\* is stored is complete, a risky answer is never stored and sent back for a fault of form only,
\* the audit counts requests and answers, and HR's list names the best strengths.
THEOREM ReportsAlwaysSound == AnswersSpec => []ReportsSound
<1>1. Init => ReportTaken
  BY DEF Init, ReportTaken
<1>2. ReportTaken /\ [Next]_<<input, made>> => ReportTaken'
  <2>1. SUFFICES ASSUME ReportTaken, Next PROVE ReportTaken'
    BY DEF ReportTaken
  <2>2. CASE CheckReport \/ Evaluate \/ ListTags
    BY <2>2 DEF CheckReport, Evaluate, ListTags, Chosen, ReportTaken
  <2>3. CASE input'.kind \notin {"report", "evaluation", "tags"}
    BY <2>3 DEF ReportTaken
  <2>4. CASE UNCHANGED input
    BY <2>1, <2>4 DEF ReportTaken
  <2> QED
    BY <2>1, <2>2, <2>3, <2>4
    DEF Next, ReadDates, ReadResume, Request, CutJob, MakePlan, SaveDraft, EditList,
        GenerateFacts, Chosen, Asks, AskExtraction, AskCoverage, AskRepair, AskGrouping
<1>3. ReportTaken => ReportsSound
  <2>1. SUFFICES ASSUME ReportTaken PROVE ReportsSound
    OBVIOUS
  <2>2. Each("report", ChecksAgree)
    BY <2>1, ChecksAlwaysAgree, ReportsAssumption DEF Each, ReportTaken
  <2>3. Each("evaluation", LAMBDA a :
          ReportComplete(a[1], a[2]) /\ EvaluationAudited(a[1], a[2]) /\ RiskyNeverStored(a[1], a[2]))
    <3>1. SUFFICES ASSUME input.kind = "evaluation"
                   PROVE  LET a == input.value
                          IN ReportComplete(a[1], a[2]) /\ EvaluationAudited(a[1], a[2]) /\ RiskyNeverStored(a[1], a[2])
      BY DEF Each
    <3>2. input.value[1] \in ReportAnswers /\ input.value[2] \in ReportAnswers
      BY <2>1, <3>1 DEF ReportTaken
    <3>3. IsReport(input.value[1].report) /\ IsReport(input.value[2].report)
      BY <3>2, ReportsAssumption
    <3> QED BY <3>3, StoredComplete, EvaluationAlwaysAudited, RiskyNeverTaken
  <2>4. Each("tags", BestNamed)
    BY <2>1, BestAlwaysNamed, ReportsAssumption DEF Each, ReportTaken
  <2> QED BY <2>2, <2>3, <2>4 DEF ReportsSound
<1> QED BY <1>1, <1>2, <1>3, PTL DEF AnswersSpec

-----------------------------------------------------------------------------
(* The months of a resume's date ranges *)

Months == Int \X Int

LEMMA Pair ==
  ASSUME NEW i \in Months
  PROVE  i = <<i[1], i[2]>> /\ i[1] \in Int /\ i[2] \in Int
BY DEF Months

\* Of finitely many numbers one is the greatest, and one the least.
LEMMA Extremes ==
  ASSUME NEW N \in SUBSET Int, IsFiniteSet(N), N # {}
  PROVE  (\E n \in N : \A m \in N : m <= n) /\ (\E n \in N : \A m \in N : n <= m)
<1> DEFINE Bounded(T) == T = {} \/ ((\E n \in T : \A m \in T : m <= n) /\ (\E n \in T : \A m \in T : n <= m))
           Good == {T \in SUBSET N : Bounded(T)}
           last == [T \in (SUBSET N) \ {{}} |-> CHOOSE x \in T : TRUE]
<1>1. Chooses(last, N)
  <2>1. \A T \in SUBSET N : T # {} => last[T] \in T
    OBVIOUS
  <2>2. last \in [(SUBSET N) \ {{}} -> N]
    OBVIOUS
  <2> HIDE DEF last
  <2> QED BY <2>1, <2>2 DEF Chooses
<1> HIDE DEF last
<1>2. ASSUME NEW T \in SUBSET N, NEW x \in T, Bounded(T \ {x}) PROVE Bounded(T)
  <2>1. CASE T \ {x} = {}
    <3>1. T = {x}
      BY <2>1
    <3>2. x <= x
      OBVIOUS
    <3> QED BY <3>1, <3>2
  <2>2. CASE T \ {x} # {}
    <3>1. PICK n \in T \ {x} : \A m \in T \ {x} : m <= n
      BY <1>2, <2>2
    <3>2. PICK l \in T \ {x} : \A m \in T \ {x} : l <= m
      BY <1>2, <2>2
    <3>3. \A m \in T : m = x \/ (m <= n /\ l <= m)
      BY <3>1, <3>2
    <3>4. \E k \in T : \A m \in T : m <= k
      <4>1. CASE x <= n
        BY <3>3, <4>1
      <4>2. CASE n <= x
        BY <3>3, <4>2
      <4> QED BY <4>1, <4>2
    <3>5. \E k \in T : \A m \in T : k <= m
      <4>1. CASE l <= x
        BY <3>3, <4>1
      <4>2. CASE x <= l
        BY <3>3, <4>2
      <4> QED BY <4>1, <4>2
    <3> QED BY <3>4, <3>5
  <2> QED BY <2>1, <2>2
<1>3. Good = SUBSET N
  <2>1. Good \in SUBSET (SUBSET N) /\ {} \in Good
    OBVIOUS
  <2>2. ASSUME NEW T \in SUBSET N, T # {}, T \ {last[T]} \in Good PROVE T \in Good
    <3>1. last[T] \in T
      BY <1>1, <2>2 DEF Chooses
    <3>2. Bounded(T \ {last[T]})
      BY <2>2
    <3> HIDE DEF Bounded
    <3> QED BY <1>2, <2>2, <3>1, <3>2
  <2> HIDE DEF Good
  <2>3. Grows(Good, N, last)
    BY <2>1, <2>2 DEF Grows
  <2> QED BY <1>1, <2>1, <2>3, Parts
<1>4. N \in Good
  BY <1>3
<1> QED BY <1>4

\* The values of finitely many pairs.
LEMMA ValuesFinite ==
  ASSUME NEW S, IsFiniteSet(S), NEW k
  PROVE  IsFiniteSet({i[k] : i \in S})
<1> DEFINE f == [i \in S |-> i[k]]
           T == {i[k] : i \in S}
<1>1. f \in Surjection(S, T)
  BY DEF Surjection
<1> HIDE DEF f, T
<1> QED BY <1>1, FS_Surjection DEF T

\* An interval of some comes before the others, and one after them.
LEMMA FirstAndLast ==
  ASSUME NEW S \in SUBSET Months, IsFiniteSet(S), S # {}
  PROVE  /\ FirstInterval(S) \in S /\ \A j \in S : FirstInterval(S)[1] <= j[1]
         /\ LastInterval(S) \in S /\ \A j \in S : j[1] <= LastInterval(S)[1]
<1> DEFINE starts == {i[1] : i \in S}
<1>1. starts \in SUBSET Int /\ IsFiniteSet(starts) /\ starts # {}
  <2>1. starts \in SUBSET Int /\ starts # {}
    BY Pair
  <2>2. IsFiniteSet(starts)
    BY ValuesFinite
  <2> QED BY <2>1, <2>2
<1>2. PICK a \in starts : \A m \in starts : a <= m
  <2> HIDE DEF starts
  <2> QED BY <1>1, Extremes
<1>3. PICK z \in starts : \A m \in starts : m <= z
  <2> HIDE DEF starts
  <2> QED BY <1>1, Extremes
<1>4. \A i \in S : a <= i[1] /\ i[1] <= z
  BY <1>2, <1>3
<1> DEFINE A == {i \in S : i[1] = a}
           Z == {i \in S : i[1] = z}
<1>5. PICK f \in A : \A j \in A : f[2] <= j[2]
  <2> DEFINE ends == {i[2] : i \in A}
  <2>1. ends \in SUBSET Int /\ ends # {}
    BY Pair
  <2>2. IsFiniteSet(ends)
    <3>1. IsFiniteSet(A)
      BY FS_Subset
    <3> HIDE DEF A
    <3> QED BY <3>1, ValuesFinite
  <2>3. PICK e \in ends : \A m \in ends : e <= m
    <3> HIDE DEF ends
    <3> QED BY <2>1, <2>2, Extremes
  <2> QED BY <2>3
<1>6. PICK l \in Z : \A j \in Z : j[2] <= l[2]
  <2> DEFINE ends == {i[2] : i \in Z}
  <2>1. ends \in SUBSET Int /\ ends # {}
    BY Pair
  <2>2. IsFiniteSet(ends)
    <3>1. IsFiniteSet(Z)
      BY FS_Subset
    <3> HIDE DEF Z
    <3> QED BY <3>1, ValuesFinite
  <2>3. PICK e \in ends : \A m \in ends : m <= e
    <3> HIDE DEF ends
    <3> QED BY <2>1, <2>2, Extremes
  <2> QED BY <2>3
<1>7. ASSUME NEW j \in S PROVE (f = j \/ Earlier(f, j)) /\ (l = j \/ Earlier(j, l))
  <2>1. /\ j = <<j[1], j[2]>> /\ f = <<f[1], f[2]>> /\ l = <<l[1], l[2]>>
        /\ j[1] \in Int /\ j[2] \in Int /\ f[1] \in Int /\ f[2] \in Int /\ l[1] \in Int /\ l[2] \in Int
    BY Pair
  <2>2. f[1] = a /\ l[1] = z /\ a <= j[1] /\ j[1] <= z
    BY <1>4
  <2>3. j[1] = a => f[2] <= j[2]
    BY <1>5
  <2>4. j[1] = z => j[2] <= l[2]
    BY <1>6
  <2>5. f = j \/ Earlier(f, j)
    <3>1. f[1] < j[1] \/ (f[1] = j[1] /\ f[2] < j[2]) \/ (f[1] = j[1] /\ f[2] = j[2])
      BY <2>1, <2>2, <2>3
    <3> QED BY <2>1, <3>1 DEF Earlier
  <2>6. l = j \/ Earlier(j, l)
    <3>1. j[1] < l[1] \/ (j[1] = l[1] /\ j[2] < l[2]) \/ (j[1] = l[1] /\ j[2] = l[2])
      BY <2>1, <2>2, <2>4
    <3> QED BY <2>1, <3>1 DEF Earlier
  <2> QED BY <2>5, <2>6
<1>8. FirstInterval(S) \in S /\ \A j \in S : FirstInterval(S) = j \/ Earlier(FirstInterval(S), j)
  <2>1. \E i \in S : \A j \in S : i = j \/ Earlier(i, j)
    BY <1>7
  <2> QED BY <2>1 DEF FirstInterval
<1>9. LastInterval(S) \in S /\ \A j \in S : LastInterval(S) = j \/ Earlier(j, LastInterval(S))
  <2>1. \E i \in S : \A j \in S : i = j \/ Earlier(j, i)
    BY <1>7
  <2> QED BY <2>1 DEF LastInterval
<1>10. ASSUME NEW i \in S, NEW j \in S, i = j \/ Earlier(i, j) PROVE i[1] <= j[1]
  <2>1. i[1] \in Int /\ j[1] \in Int
    BY Pair
  <2> QED BY <1>10, <2>1 DEF Earlier
<1> QED BY <1>8, <1>9, <1>10

\* Where a merge stands after some intervals: the months that are closed, and an open one.
Counted(acc, U) ==
  /\ acc \in [total : Int, start : Int, end : Int] /\ acc.start <= acc.end
  /\ \E i \in U : acc.start = i[1]
  /\ \E closed \in SUBSET Int :
       /\ IsFiniteSet(closed) /\ Cardinality(closed) = acc.total
       /\ \A m \in closed : m < acc.start
       /\ Covered(U) = closed \cup (acc.start..acc.end - 1)

\* One interval more, that starts after the others.
LEMMA CountedMore ==
  ASSUME NEW U \in SUBSET Months, NEW acc, Counted(acc, U), NEW n \in Months, n[1] <= n[2],
         \A i \in U : i[1] <= n[1]
  PROVE  Counted(Merged(acc, n), U \cup {n})
<1> DEFINE s == acc.start
           e == acc.end
           a == n[1]
           b == n[2]
           V == U \cup {n}
<1>1. acc \in [total : Int, start : Int, end : Int] /\ s <= e
  BY DEF Counted
<1>2. s \in Int /\ e \in Int /\ acc.total \in Int /\ a \in Int /\ b \in Int
  BY <1>1, Pair
<1>3. s <= a
  <2>1. PICK i \in U : s = i[1]
    BY DEF Counted
  <2> QED BY <2>1
<1>4. PICK closed \in SUBSET Int :
        /\ IsFiniteSet(closed) /\ Cardinality(closed) = acc.total
        /\ \A m \in closed : m < s
        /\ Covered(U) = closed \cup (s..e - 1)
  BY DEF Counted
<1>5. Covered(V) = closed \cup (s..e - 1) \cup (a..b - 1)
  <2>1. Covered(V) = Covered(U) \cup (a..b - 1)
    BY DEF Covered
  <2> QED BY <1>4, <2>1
<1>6. CASE a <= e
  <2> DEFINE f == Larger(e, b)
             next == Merged(acc, n)
  <2>1. f \in Int /\ e <= f /\ b <= f /\ (f = e \/ f = b)
    BY <1>2 DEF Larger
  <2>2. next = [acc EXCEPT !.end = f]
    BY <1>6 DEF Merged
  <2> HIDE DEF f, next, s, e, a, b, V
  <2>3. next \in [total : Int, start : Int, end : Int] /\ next.start = s /\ next.end = f /\ next.total = acc.total
    BY <1>1, <2>1, <2>2 DEF s
  <2>4. (s..e - 1) \cup (a..b - 1) = s..f - 1
    BY <1>1, <1>2, <1>3, <1>6, <2>1
  <2>5. Covered(V) = closed \cup (s..f - 1)
    BY <1>5, <2>4
  <2>6. s <= f
    BY <1>1, <1>2, <2>1
  <2>7. \E i \in V : s = i[1]
    BY DEF Counted, s, V
  <2>8. Counted(next, V)
    BY <1>4, <2>3, <2>5, <2>6, <2>7 DEF Counted
  <2> QED BY <2>8 DEF next, V
<1>7. CASE ~(a <= e)
  <2> DEFINE next == Merged(acc, n)
             more == closed \cup (s..e - 1)
  <2>1. next = [total |-> acc.total + acc.end - acc.start, start |-> a, end |-> b]
    BY <1>7 DEF Merged
  <2> HIDE DEF next
  <2>2. next \in [total : Int, start : Int, end : Int] /\ next.start = a /\ next.end = b /\ next.total = acc.total + e - s
    BY <1>2, <2>1
  <2> HIDE DEF s, e, a, b, V
  <2>3. IsFiniteSet(s..e - 1) /\ Cardinality(s..e - 1) = e - s
    <3>1. e - 1 \in Int
      BY <1>2
    <3>2. IsFiniteSet(s..e - 1) /\ Cardinality(s..e - 1) = IF s > e - 1 THEN 0 ELSE (e - 1) - s + 1
      BY <1>2, <3>1, FS_Interval
    <3> QED BY <1>1, <1>2, <3>2
  <2>4. closed \cap (s..e - 1) = {}
    BY <1>2, <1>4
  <2>5. IsFiniteSet(more) /\ Cardinality(more) = acc.total + e - s
    <3> DEFINE I == s..e - 1
    <3>1. IsFiniteSet(I) /\ Cardinality(I) = e - s /\ closed \cap I = {}
      BY <2>3, <2>4
    <3> HIDE DEF I
    <3>2. IsFiniteSet(closed \cup I)
      BY <1>4, <3>1, FS_Union
    <3>3. Cardinality(closed \cup I) = Cardinality(closed) + Cardinality(I) - Cardinality(closed \cap I)
      BY <1>4, <3>1, FS_Union
    <3>4. Cardinality(closed \cap I) = 0
      BY <3>1, FS_EmptySet
    <3>5. Cardinality(closed \cup I) = acc.total + e - s
      BY <1>2, <1>4, <3>1, <3>3, <3>4
    <3> QED BY <3>2, <3>5 DEF I
  <2>6. more \in SUBSET Int /\ \A m \in more : m < a
    BY <1>1, <1>2, <1>3, <1>4, <1>7
  <2>7. Covered(V) = more \cup (a..b - 1)
    BY <1>5
  <2>8. \E i \in V : a = i[1]
    BY DEF V, a
  <2>9. a <= b
    BY DEF a, b
  <2> HIDE DEF more
  <2>10. Counted(next, V)
    BY <2>2, <2>5, <2>6, <2>7, <2>8, <2>9 DEF Counted
  <2> QED BY <2>10 DEF next, V
<1> QED BY <1>6, <1>7

Merges == [total : Int, start : Int, end : Int]

LEMMA MergedTyped ==
  ASSUME NEW acc \in Merges, NEW i \in Months
  PROVE  Merged(acc, i) \in Merges
<1>1. i[1] \in Int /\ i[2] \in Int
  BY Pair
<1>2. CASE i[1] <= acc.end
  <2> DEFINE e == Larger(acc.end, i[2])
  <2>1. e \in Int
    BY <1>1 DEF Larger, Merges
  <2>2. Merged(acc, i) = [acc EXCEPT !.end = e]
    BY <1>2 DEF Merged
  <2> HIDE DEF e
  <2> QED BY <2>1, <2>2 DEF Merges
<1>3. CASE ~(i[1] <= acc.end)
  BY <1>1, <1>3 DEF Merged, Merges
<1> QED BY <1>2, <1>3

\* What FoldLeft over the sorted intervals comes to.
LEMMA MergedInOrder ==
  ASSUME NEW S \in SUBSET Months, IsFiniteSet(S), S # {}, \A i \in S : i[1] <= i[2]
  PROVE  LET first == FirstInterval(S)
         IN Counted(MapThenFoldSet(LAMBDA i, acc : Merged(acc, i), [total |-> 0, start |-> first[1], end |-> first[2]],
                                   LAMBDA i : i, LastInterval, S \ {first}), S)
<1> DEFINE first == FirstInterval(S)
           R == S \ {first}
           base == [total |-> 0, start |-> first[1], end |-> first[2]]
           last == [T \in (SUBSET R) \ {{}} |-> LastInterval(T)]
           step == [p \in R \X Merges |-> Merged(p[2], p[1])]
           Value(g, T) == IF T = {} THEN base ELSE Merged(g[T \ {LastInterval(T)}], LastInterval(T))
           iter == CHOOSE h : h = [T \in SUBSET R |-> Value(h, T)]
           Good == {T \in SUBSET R : Counted(iter[T], T \cup {first})}
<1>1. first \in S /\ \A j \in S : first[1] <= j[1]
  BY FirstAndLast
<1>2. first[1] \in Int /\ first[2] \in Int /\ first[1] <= first[2] /\ base \in Merges
  BY <1>1, Pair DEF Merges
<1>3. IsFiniteSet(R) /\ R \in SUBSET Months
  BY FS_Subset
<1>4. \A T \in SUBSET R : T # {} => last[T] = LastInterval(T) /\ LastInterval(T) \in T /\ \A j \in T : j[1] <= LastInterval(T)[1]
  <2>1. SUFFICES ASSUME NEW T \in SUBSET R, T # {}
                 PROVE  LastInterval(T) \in T /\ \A j \in T : j[1] <= LastInterval(T)[1]
    OBVIOUS
  <2>2. IsFiniteSet(T) /\ T \in SUBSET Months
    BY <1>3, FS_Subset
  <2> QED BY <2>1, <2>2, FirstAndLast
<1> HIDE DEF first, R
<1>5. Chooses(last, R)
  <2>1. last \in [(SUBSET R) \ {{}} -> R]
    BY <1>4
  <2> HIDE DEF last
  <2> QED BY <1>4, <2>1 DEF Chooses
<1>6. step \in [R \X Merges -> Merges]
  BY <1>3, MergedTyped
<1>7. \A i \in R, acc \in Merges : step[<<i, acc>>] = Merged(acc, i)
  OBVIOUS
<1>8. \E g : g = [T \in SUBSET R |-> Value(g, T)]
  <2> HIDE DEF step, last, base
  <2>1. PICK g \in [SUBSET R -> Merges] : Folded(g, R, last, base, step)
    BY <1>2, <1>3, <1>5, <1>6, FoldExists
  <2>2. \A T \in SUBSET R : g[T] = Value(g, T)
    BY <1>4, <1>7, <2>1 DEF Folded
  <2>3. g = [T \in SUBSET R |-> Value(g, T)]
    <3> HIDE DEF Value
    <3> QED BY <2>1, <2>2
  <2> QED BY <2>3
<1>9. MapThenFoldSet(LAMBDA i, acc : Merged(acc, i), base, LAMBDA i : i, LastInterval, R) = iter[R]
  BY DEF MapThenFoldSet
<1>10. iter = [T \in SUBSET R |-> Value(iter, T)]
  <2> HIDE DEF Value
  <2> QED BY <1>8
<1> HIDE DEF iter, last
<1>11. {} \in Good
  <2>1. iter[{}] = base
    BY <1>10
  <2>2. Covered({first}) = {} \cup (first[1]..first[2] - 1)
    BY DEF Covered
  <2>3. Counted(base, {first})
    <3>1. IsFiniteSet({}) /\ Cardinality({}) = 0
      BY FS_EmptySet
    <3>2. base.total = 0 /\ base.start = first[1] /\ base.end = first[2]
      OBVIOUS
    <3> HIDE DEF base
    <3> QED BY <1>2, <2>2, <3>1, <3>2 DEF Counted, Merges
  <2> QED BY <2>1, <2>3
<1>12. ASSUME NEW T \in SUBSET R, T # {}, T \ {last[T]} \in Good PROVE T \in Good
  <2> DEFINE n == LastInterval(T)
             U == (T \ {n}) \cup {first}
             acc == iter[T \ {n}]
  <2>1. n \in T /\ \A j \in T : j[1] <= n[1]
    BY <1>4, <1>12
  <2>2. Counted(acc, U)
    BY <1>4, <1>12
  <2>3. iter[T] = Merged(acc, n)
    BY <1>10, <1>12
  <2>4. U \in SUBSET Months /\ n \in Months /\ n \in S /\ n[1] <= n[2] /\ first[1] <= n[1]
    BY <1>1, <1>3, <2>1 DEF R
  <2>5. \A i \in U : i[1] <= n[1]
    BY <2>1, <2>4
  <2>6. U \cup {n} = T \cup {first}
    BY <2>1
  <2> HIDE DEF n, U, acc
  <2>7. Counted(Merged(acc, n), U \cup {n})
    BY <2>2, <2>4, <2>5, CountedMore
  <2> QED BY <2>3, <2>6, <2>7
<1>13. Good = SUBSET R
  <2>1. Good \in SUBSET (SUBSET R)
    OBVIOUS
  <2> HIDE DEF Good
  <2>2. Grows(Good, R, last)
    BY <1>11, <1>12 DEF Grows
  <2> QED BY <1>3, <1>5, <2>1, <2>2, Parts
<1>14. Counted(iter[R], R \cup {first})
  <2>1. R \in Good
    BY <1>13
  <2> QED BY <2>1
<1>15. R \cup {first} = S
  BY <1>1 DEF R
<1> QED BY <1>9, <1>14, <1>15 DEF first, R

\* _union_duration counts the months covered, each once, whatever the intervals are.
LEMMA UnionMonths ==
  ASSUME NEW intervals \in SUBSET Months, IsFiniteSet(intervals)
  PROVE  IsFiniteSet(Covered(intervals)) /\ UnionDuration(intervals) = Cardinality(Covered(intervals))
<1> DEFINE S == {i \in intervals : i[2] >= i[1]}
           first == FirstInterval(S)
           acc == MapThenFoldSet(LAMBDA i, acc : Merged(acc, i), [total |-> 0, start |-> first[1], end |-> first[2]],
                                 LAMBDA i : i, LastInterval, S \ {first})
<1>1. \A i \in intervals : i[1] \in Int /\ i[2] \in Int
  BY Pair
<1>2. Covered(intervals) = Covered(S)
  <2>1. \A i \in intervals : i \in S \/ i[1]..i[2] - 1 = {}
    BY <1>1
  <2> HIDE DEF S
  <2>2. S \subseteq intervals
    BY DEF S
  <2> QED BY <2>1, <2>2 DEF Covered
<1>3. CASE S = {}
  <2>1. Covered(S) = {}
    BY <1>3 DEF Covered
  <2>2. UnionDuration(intervals) = 0
    BY <1>3 DEF UnionDuration
  <2> HIDE DEF S
  <2> QED BY <1>2, <2>1, <2>2, FS_EmptySet
<1>4. CASE S # {}
  <2>1. UnionDuration(intervals) = acc.total + acc.end - acc.start
    BY <1>4 DEF UnionDuration
  <2>2. Counted(acc, S)
    <3>1. S \in SUBSET Months /\ IsFiniteSet(S)
      BY FS_Subset
    <3>2. \A i \in S : i[1] <= i[2]
      BY <1>1
    <3> HIDE DEF S
    <3> QED BY <1>4, <3>1, <3>2, MergedInOrder
  <2> DEFINE s == acc.start
             e == acc.end
             total == acc.total
  <2> HIDE DEF acc, S
  <2>3. PICK closed \in SUBSET Int :
          /\ IsFiniteSet(closed) /\ Cardinality(closed) = total
          /\ \A m \in closed : m < s
          /\ Covered(S) = closed \cup (s..e - 1)
    BY <2>2 DEF Counted
  <2>4. s \in Int /\ e \in Int /\ total \in Int /\ s <= e
    BY <2>2 DEF Counted
  <2> DEFINE I == s..e - 1
  <2>5. IsFiniteSet(I) /\ Cardinality(I) = e - s
    <3>1. e - 1 \in Int
      BY <2>4
    <3>2. IsFiniteSet(I) /\ Cardinality(I) = IF s > e - 1 THEN 0 ELSE (e - 1) - s + 1
      BY <2>4, <3>1, FS_Interval
    <3> QED BY <2>4, <3>2
  <2>6. closed \cap I = {}
    BY <2>3, <2>4
  <2> HIDE DEF I
  <2>7. IsFiniteSet(closed \cup I)
    BY <2>3, <2>5, FS_Union
  <2>8. Cardinality(closed \cup I) = Cardinality(closed) + Cardinality(I) - Cardinality(closed \cap I)
    BY <2>3, <2>5, FS_Union
  <2>9. Cardinality(closed \cap I) = 0
    BY <2>6, FS_EmptySet
  <2>10. Cardinality(closed \cup I) = total + e - s
    BY <2>3, <2>4, <2>5, <2>8, <2>9
  <2> QED BY <1>2, <2>1, <2>3, <2>7, <2>10 DEF I
<1> QED BY <1>3, <1>4

LEMMA ImageFinite ==
  ASSUME NEW S, IsFiniteSet(S), NEW f
  PROVE  IsFiniteSet({f[x] : x \in S})
<1> DEFINE g == [x \in S |-> f[x]]
           T == {f[x] : x \in S}
<1>1. g \in Surjection(S, T)
  BY DEF Surjection
<1> HIDE DEF g, T
<1> QED BY <1>1, FS_Surjection DEF T

\* An earliest month is not after the latest one.
LEMMA PointMonths ==
  ASSUME NEW point \in Endpoint
  PROVE  /\ Earliest(point) \in Int /\ Latest(point) \in Int /\ Earliest(point) <= Latest(point)
         /\ point.month # YearOnly => Earliest(point) = Latest(point)
<1> DEFINE y == point.year
           p == y * MonthsPerYear
<1>1. y \in Nat /\ point.month \in 0..MonthsPerYear + 1 /\ MonthsPerYear \in Nat /\ MonthsPerYear >= 1
  <2>1. y \in Years /\ point.month \in 0..MonthsPerYear + 1
    BY DEF Endpoint
  <2>2. MonthsPerYear \in Nat /\ MonthsPerYear # 0 /\ Years \subseteq Nat
    BY PeriodAssumption
  <2> HIDE DEF y
  <2> QED BY <2>1, <2>2
<1>2. p \in Nat
  BY <1>1
<1>3. \A m : Index(y, m) = p + m - 1
  BY DEF Index
<1> HIDE DEF p, y
<1>4. CASE point.month = YearOnly
  <2>1. Earliest(point) = p + 1 - 1 /\ Latest(point) = p + MonthsPerYear - 1
    BY <1>3, <1>4 DEF Earliest, Latest, y
  <2> QED BY <1>1, <1>2, <1>4, <2>1
<1>5. CASE point.month # YearOnly
  <2>1. Earliest(point) = p + point.month - 1 /\ Latest(point) = p + point.month - 1
    BY <1>3, <1>5 DEF Earliest, Latest, y
  <2> QED BY <1>1, <1>2, <2>1
<1> QED BY <1>4, <1>5

LEMMA RangeMonths ==
  ASSUME NEW r \in Range_
  PROVE  /\ StartMin(r) \in Int /\ StartMax(r) \in Int /\ EndMin(r) \in Int /\ EndMax(r) \in Int
         /\ StartMin(r) <= StartMax(r) /\ EndMin(r) <= EndMax(r)
         /\ Exact(r) => StartMin(r) = StartMax(r) /\ EndMin(r) = EndMax(r)
<1>1. r.start \in Endpoint /\ r.end \in Endpoint /\ Cutoff \in Int
  BY PeriodAssumption DEF Range_
<1>2. /\ StartMin(r) \in Int /\ StartMax(r) \in Int /\ StartMin(r) <= StartMax(r)
      /\ r.start.month # YearOnly => StartMin(r) = StartMax(r)
  BY <1>1, PointMonths DEF StartMin, StartMax
<1>3. /\ EndMin(r) \in Int /\ EndMax(r) \in Int /\ EndMin(r) <= EndMax(r)
      /\ r.present \/ r.end.month # YearOnly => EndMin(r) = EndMax(r)
  <2> DEFINE a == Earliest(r.end)
             b == Latest(r.end)
  <2>1. a \in Int /\ b \in Int /\ a <= b /\ (r.end.month # YearOnly => a = b)
    BY <1>1, PointMonths
  <2>2. /\ EndMin(r) = IF r.present THEN Cutoff ELSE Smaller(a, Cutoff)
        /\ EndMax(r) = IF r.present THEN Cutoff ELSE Smaller(b, Cutoff)
    BY DEF EndMin, EndMax
  <2> HIDE DEF a, b
  <2> QED BY <1>1, <2>1, <2>2 DEF Smaller
<1> QED BY <1>2, <1>3 DEF Exact

LEMMA IntervalMonths ==
  ASSUME NEW r \in Range_
  PROVE  LowerInterval(r) \in Months /\ UpperInterval(r) \in Months /\ <<StartMin(r), EndMin(r)>> \in Months
<1> DEFINE a == StartMin(r)
           b == StartMax(r)
           c == EndMin(r)
           d == EndMax(r)
<1>1. a \in Int /\ b \in Int /\ c \in Int /\ d \in Int
  BY RangeMonths
<1>2. LowerInterval(r) = <<b, Larger(b, c)>> /\ UpperInterval(r) = <<a, Larger(a, d)>>
  BY DEF LowerInterval, UpperInterval
<1> HIDE DEF a, b, c, d
<1>3. Larger(b, c) \in Int /\ Larger(a, d) \in Int
  BY <1>1 DEF Larger
<1>4. <<b, Larger(b, c)>> \in Months /\ <<a, Larger(a, d)>> \in Months /\ <<a, c>> \in Months
  BY <1>1, <1>3 DEF Months
<1> QED BY <1>2, <1>4 DEF a, c

\* The months a range covers at most and at least.
LEMMA UnionOfRanges ==
  ASSUME NEW ranges \in SUBSET Range_, IsFiniteSet(ranges)
  PROVE  LET lower == {LowerInterval(r) : r \in ranges}
             upper == {UpperInterval(r) : r \in ranges}
             exact == {<<StartMin(r), EndMin(r)>> : r \in ranges}
         IN /\ IsFiniteSet(Covered(lower)) /\ UnionDuration(lower) = Cardinality(Covered(lower))
            /\ IsFiniteSet(Covered(upper)) /\ UnionDuration(upper) = Cardinality(Covered(upper))
            /\ IsFiniteSet(Covered(exact)) /\ UnionDuration(exact) = Cardinality(Covered(exact))
<1> DEFINE fl == [r \in ranges |-> LowerInterval(r)]
           fu == [r \in ranges |-> UpperInterval(r)]
           fe == [r \in ranges |-> <<StartMin(r), EndMin(r)>>]
           lower == {fl[r] : r \in ranges}
           upper == {fu[r] : r \in ranges}
           exact == {fe[r] : r \in ranges}
<1>1. lower \in SUBSET Months /\ upper \in SUBSET Months /\ exact \in SUBSET Months
  BY IntervalMonths
<1>2. /\ lower = {LowerInterval(r) : r \in ranges} /\ upper = {UpperInterval(r) : r \in ranges}
      /\ exact = {<<StartMin(r), EndMin(r)>> : r \in ranges}
  OBVIOUS
<1>3. IsFiniteSet(lower) /\ IsFiniteSet(upper) /\ IsFiniteSet(exact)
  <2> HIDE DEF fl, fu, fe
  <2> QED BY ImageFinite
<1> HIDE DEF lower, upper, exact
<1>4. /\ IsFiniteSet(Covered(lower)) /\ UnionDuration(lower) = Cardinality(Covered(lower))
      /\ IsFiniteSet(Covered(upper)) /\ UnionDuration(upper) = Cardinality(Covered(upper))
      /\ IsFiniteSet(Covered(exact)) /\ UnionDuration(exact) = Cardinality(Covered(exact))
  BY <1>1, <1>3, UnionMonths
<1> QED BY <1>2, <1>4

\* The months between two.
LEMMA Between ==
  ASSUME NEW a \in Int, NEW b \in Int
  PROVE  Cardinality(Covered({<<a, b>>})) = Larger(0, b - a)
<1>1. Covered({<<a, b>>}) = a..b - 1
  BY DEF Covered
<1>2. b - 1 \in Int
  OBVIOUS
<1>3. Cardinality(a..b - 1) = IF a > b - 1 THEN 0 ELSE (b - 1) - a + 1
  BY <1>2, FS_Interval
<1> QED BY <1>1, <1>3 DEF Larger

\* _build_fact and duration_bounds_for_keys agree on a range that both read.
THEOREM BoundsAlwaysAgree ==
  ASSUME NEW ranges \in SUBSET Range_
  PROVE  BoundsAgree(ranges)
<1>1. SUFFICES ASSUME NEW r \in ranges PROVE FactBounds(r) = DurationBounds({r})
  BY DEF BoundsAgree
<1> DEFINE a == StartMin(r)
           b == StartMax(r)
           c == EndMin(r)
           d == EndMax(r)
<1>2. a \in Int /\ b \in Int /\ c \in Int /\ d \in Int /\ (Exact(r) => a = b /\ c = d)
  BY RangeMonths
<1>3. /\ UnionDuration({<<a, c>>}) = Cardinality(Covered({<<a, c>>}))
      /\ UnionDuration({LowerInterval(r)}) = Cardinality(Covered({LowerInterval(r)}))
      /\ UnionDuration({UpperInterval(r)}) = Cardinality(Covered({UpperInterval(r)}))
  <2>1. {r} \in SUBSET Range_ /\ IsFiniteSet({r})
    BY FS_Singleton
  <2>2. /\ {LowerInterval(q) : q \in {r}} = {LowerInterval(r)} /\ {UpperInterval(q) : q \in {r}} = {UpperInterval(r)}
        /\ {<<StartMin(q), EndMin(q)>> : q \in {r}} = {<<a, c>>}
    OBVIOUS
  <2> QED BY <2>1, <2>2, UnionOfRanges
<1>4. FactBounds(r) = <<Larger(0, c - b), Larger(0, d - a)>>
  BY DEF FactBounds
<1>5. LowerInterval(r) = <<b, Larger(b, c)>> /\ UpperInterval(r) = <<a, Larger(a, d)>>
  BY DEF LowerInterval, UpperInterval
<1>6. DurationBounds({r}) =
        IF Exact(r) THEN <<UnionDuration({<<a, c>>}), UnionDuration({<<a, c>>})>>
        ELSE <<UnionDuration({LowerInterval(r)}), UnionDuration({UpperInterval(r)})>>
  <2>1. /\ {LowerInterval(q) : q \in {r}} = {LowerInterval(r)} /\ {UpperInterval(q) : q \in {r}} = {UpperInterval(r)}
        /\ {<<StartMin(q), EndMin(q)>> : q \in {r}} = {<<a, c>>}
        /\ (\A q \in {r} : Exact(q)) <=> Exact(r)
    OBVIOUS
  <2> HIDE DEF a, c
  <2> QED BY <2>1 DEF DurationBounds
<1> HIDE DEF a, b, c, d
<1>7. CASE Exact(r)
  <2>1. Cardinality(Covered({<<a, c>>})) = Larger(0, c - a)
    BY <1>2, Between
  <2> QED BY <1>2, <1>3, <1>4, <1>6, <1>7, <2>1
<1>8. CASE ~Exact(r)
  <2>1. Larger(b, c) \in Int /\ Larger(a, d) \in Int
    BY <1>2 DEF Larger
  <2>2. /\ Cardinality(Covered({<<b, Larger(b, c)>>})) = Larger(0, Larger(b, c) - b)
        /\ Cardinality(Covered({<<a, Larger(a, d)>>})) = Larger(0, Larger(a, d) - a)
    BY <1>2, <2>1, Between
  <2>3. Larger(0, Larger(b, c) - b) = Larger(0, c - b) /\ Larger(0, Larger(a, d) - a) = Larger(0, d - a)
    BY <1>2 DEF Larger
  <2> QED BY <1>3, <1>4, <1>5, <1>6, <1>8, <2>2, <2>3
<1> QED BY <1>7, <1>8

\* duration_bounds_for_keys: whatever months the years alone stand for, the months that the
\* ranges cover are within the bounds, for any number of ranges.
THEOREM DurationAlwaysBounded ==
  ASSUME NEW ranges \in SUBSET Range_, IsFiniteSet(ranges)
  PROVE  DurationBounded(ranges)
<1> DEFINE lower == {LowerInterval(r) : r \in ranges}
           upper == {UpperInterval(r) : r \in ranges}
           exact == {<<StartMin(r), EndMin(r)>> : r \in ranges}
           bounds == DurationBounds(ranges)
<1>1. SUFFICES ASSUME NEW meant \in [ranges -> UNION {Meanings(r) : r \in ranges}],
                      \A r \in ranges : meant[r] \in Meanings(r)
               PROVE  Cardinality(Covered({meant[r] : r \in ranges})) \in bounds[1]..bounds[2]
  BY DEF DurationBounded
<1> DEFINE these == {meant[r] : r \in ranges}
<1>2. ASSUME NEW r \in ranges
      PROVE  LET i == meant[r]
             IN /\ i[1] \in Int /\ i[2] \in Int /\ i = <<i[1], i[2]>>
                /\ StartMin(r) <= i[1] /\ i[1] <= StartMax(r) /\ EndMin(r) <= i[2] /\ i[2] <= EndMax(r)
  <2>1. /\ StartMin(r) \in Int /\ StartMax(r) \in Int /\ EndMin(r) \in Int /\ EndMax(r) \in Int
    BY RangeMonths
  <2>2. meant[r] \in (StartMin(r)..StartMax(r)) \X (EndMin(r)..EndMax(r))
    BY <1>1 DEF Meanings
  <2> QED BY <2>1, <2>2
<1>3. these \in SUBSET Months /\ IsFiniteSet(these)
  <2>1. ASSUME NEW r \in ranges PROVE meant[r] \in Months
    <3> DEFINE i == meant[r]
    <3>1. i[1] \in Int /\ i[2] \in Int /\ i = <<i[1], i[2]>>
      BY <1>2
    <3> HIDE DEF i
    <3>2. i \in Months
      BY <3>1 DEF Months
    <3> QED BY <3>2 DEF i
  <2>2. these \in SUBSET Months
    BY <2>1
  <2> QED BY <2>2, ImageFinite
<1>4. IsFiniteSet(Covered(these))
  <2> HIDE DEF these
  <2> QED BY <1>3, UnionMonths
<1>5. CASE \A r \in ranges : Exact(r)
  <2>1. bounds = <<UnionDuration(exact), UnionDuration(exact)>>
    BY <1>5 DEF DurationBounds
  <2>2. \A r \in ranges : meant[r] = <<StartMin(r), EndMin(r)>>
    <3>1. SUFFICES ASSUME NEW r \in ranges PROVE meant[r] = <<StartMin(r), EndMin(r)>>
      OBVIOUS
    <3>2. /\ StartMin(r) \in Int /\ EndMin(r) \in Int /\ StartMin(r) = StartMax(r) /\ EndMin(r) = EndMax(r)
      BY <1>5, RangeMonths
    <3> DEFINE i1 == meant[r][1]
               i2 == meant[r][2]
               a == StartMin(r)
               c == EndMin(r)
    <3>3. meant[r] = <<i1, i2>> /\ i1 \in Int /\ i2 \in Int /\ a <= i1 /\ i1 <= a /\ c <= i2 /\ i2 <= c
      BY <1>2, <3>2
    <3>4. i1 = a /\ i2 = c
      <4>1. a \in Int /\ c \in Int
        BY <3>2
      <4> HIDE DEF i1, i2, a, c
      <4> QED BY <3>3, <4>1
    <3> QED BY <3>3, <3>4
  <2>3. these = exact
    BY <2>2
  <2>4. UnionDuration(exact) = Cardinality(Covered(exact)) /\ IsFiniteSet(Covered(exact))
    BY UnionOfRanges
  <2> DEFINE k == Cardinality(Covered(these))
  <2>5. k \in Nat
    BY <1>4, FS_CardinalityType
  <2>6. bounds[1] = k /\ bounds[2] = k
    <3> HIDE DEF these, exact, bounds
    <3> QED BY <2>1, <2>3, <2>4
  <2> HIDE DEF k, bounds
  <2>7. k \in bounds[1]..bounds[2]
    BY <2>5, <2>6
  <2> QED BY <2>7 DEF k, bounds
<1>6. CASE ~(\A r \in ranges : Exact(r))
  <2>1. bounds = <<UnionDuration(lower), UnionDuration(upper)>>
    BY <1>6 DEF DurationBounds
  <2>2. /\ IsFiniteSet(Covered(lower)) /\ UnionDuration(lower) = Cardinality(Covered(lower))
        /\ IsFiniteSet(Covered(upper)) /\ UnionDuration(upper) = Cardinality(Covered(upper))
    BY UnionOfRanges
  <2>3. Covered(lower) \subseteq Covered(these)
    <3>1. SUFFICES ASSUME NEW r \in ranges, NEW m \in LowerInterval(r)[1]..LowerInterval(r)[2] - 1
                   PROVE  m \in meant[r][1]..meant[r][2] - 1
      BY DEF Covered
    <3> DEFINE b == StartMax(r)
               c == EndMin(r)
               i1 == meant[r][1]
               i2 == meant[r][2]
    <3>2. b \in Int /\ c \in Int /\ i1 \in Int /\ i2 \in Int /\ i1 <= b /\ c <= i2
      BY <1>2, RangeMonths
    <3>3. m \in b..Larger(b, c) - 1
      BY <3>1 DEF LowerInterval
    <3> HIDE DEF b, c, i1, i2
    <3>4. m \in i1..i2 - 1
      BY <3>2, <3>3 DEF Larger
    <3> QED BY <3>4 DEF i1, i2
  <2>4. Covered(these) \subseteq Covered(upper)
    <3>1. SUFFICES ASSUME NEW r \in ranges, NEW m \in meant[r][1]..meant[r][2] - 1
                   PROVE  m \in UpperInterval(r)[1]..UpperInterval(r)[2] - 1
      BY DEF Covered
    <3> DEFINE a == StartMin(r)
               d == EndMax(r)
               i1 == meant[r][1]
               i2 == meant[r][2]
    <3>2. a \in Int /\ d \in Int /\ i1 \in Int /\ i2 \in Int /\ a <= i1 /\ i2 <= d
      BY <1>2, RangeMonths
    <3>3. m \in i1..i2 - 1
      BY <3>1
    <3>4. UpperInterval(r)[1] = a /\ UpperInterval(r)[2] = Larger(a, d)
      BY DEF UpperInterval
    <3> HIDE DEF a, d, i1, i2
    <3>5. m \in a..Larger(a, d) - 1
      BY <3>2, <3>3 DEF Larger
    <3> QED BY <3>4, <3>5
  <2> HIDE DEF these, lower, upper
  <2>5. /\ Cardinality(Covered(lower)) \in Nat /\ Cardinality(Covered(these)) \in Nat /\ Cardinality(Covered(upper)) \in Nat
    BY <1>4, <2>2, FS_CardinalityType
  <2>6. Cardinality(Covered(lower)) <= Cardinality(Covered(these))
    BY <1>4, <2>3, FS_Subset
  <2>7. Cardinality(Covered(these)) <= Cardinality(Covered(upper))
    BY <2>2, <2>4, FS_Subset
  <2> DEFINE k == Cardinality(Covered(these))
             l == Cardinality(Covered(lower))
             u == Cardinality(Covered(upper))
  <2>8. bounds[1] = l /\ bounds[2] = u
    <3> HIDE DEF bounds
    <3> QED BY <2>1, <2>2
  <2>9. k \in Nat /\ l \in Nat /\ u \in Nat /\ l <= k /\ k <= u
    BY <2>5, <2>6, <2>7
  <2> HIDE DEF k, l, u, bounds
  <2>10. k \in bounds[1]..bounds[2]
    BY <2>8, <2>9
  <2> QED BY <2>10 DEF k, bounds, these
<1> QED BY <1>5, <1>6

-----------------------------------------------------------------------------
(* Redaction *)

\* What is kept of a sequence, element by element.
Filters(g, s, kinds) ==
  \A T \in SUBSET (1..Len(s)) :
    g[T] = IF T = {} THEN <<>>
           ELSE IF s[Max(T)] \in kinds THEN Append(g[T \ {Max(T)}], s[Max(T)]) ELSE g[T \ {Max(T)}]

LEMMA OnlyIs ==
  ASSUME NEW S, NEW s \in Seq(S), NEW kinds
  PROVE  \E g \in [SUBSET (1..Len(s)) -> Seq(S)] : Filters(g, s, kinds) /\ Only(s, kinds) = g[1..Len(s)]
<1> DEFINE n == Len(s)
           I == 1..n
           A == Seq(S)
           More(out, l) == IF l \in kinds THEN Append(out, l) ELSE out
           step == [p \in I \X A |-> More(p[2], s[p[1]])]
           Value(g, T) == IF T = {} THEN <<>> ELSE More(g[T \ {Max(T)}], s[Max(T)])
           iter == CHOOSE h : h = [T \in SUBSET I |-> Value(h, T)]
<1>1. n \in Nat /\ DOMAIN s = I /\ \A i \in I : s[i] \in S
  OBVIOUS
<1>2. \A i \in I, t \in A : More(t, s[i]) \in A
  BY <1>1
<1>3. \A T \in SUBSET I : T # {} => LastIn(n)[T] = Max(T) /\ Max(T) \in T
  BY <1>1, LastOfEach
<1>4. \E g \in [SUBSET I -> A] : \A T \in SUBSET I : g[T] = Value(g, T)
  <2>1. step \in [I \X A -> A] /\ <<>> \in A
    BY <1>2
  <2>2. \A i \in I, t \in A : step[<<i, t>>] = More(t, s[i])
    OBVIOUS
  <2> HIDE DEF step, A, n, More
  <2>3. PICK g \in [SUBSET I -> A] : Folded(g, I, LastIn(n), <<>>, step)
    BY <1>1, <2>1, FoldOfSequence
  <2>4. \A T \in SUBSET I : g[T] = Value(g, T)
    BY <1>3, <2>2, <2>3 DEF Folded
  <2> QED BY <2>3, <2>4
<1>5. Only(s, kinds) = iter[I]
  BY <1>1 DEF Only, FoldLeft, MapThenFoldSet
<1>6. iter = [T \in SUBSET I |-> Value(iter, T)]
  <2> HIDE DEF Value
  <2>1. \E g : g = [T \in SUBSET I |-> Value(g, T)]
    BY <1>4
  <2> QED BY <2>1
<1> HIDE DEF iter
<1> DEFINE Good == {T \in SUBSET I : iter[T] \in A}
<1>7. Good = SUBSET I
  <2>1. {} \in Good
    <3>1. iter[{}] = <<>> /\ <<>> \in A
      BY <1>6
    <3> QED BY <3>1
  <2>2. ASSUME NEW T \in SUBSET I, T # {}, T \ {LastIn(n)[T]} \in Good PROVE T \in Good
    <3>1. Max(T) \in I /\ iter[T \ {Max(T)}] \in A
      BY <1>3, <2>2
    <3>2. iter[T] = More(iter[T \ {Max(T)}], s[Max(T)])
      BY <1>6, <2>2
    <3> HIDE DEF More, A, I
    <3> QED BY <1>2, <2>2, <3>1, <3>2
  <2>3. Good \in SUBSET (SUBSET I)
    OBVIOUS
  <2> HIDE DEF Good, n
  <2>4. Grows(Good, 1..n, LastIn(n))
    BY <2>1, <2>2, <2>3 DEF Grows
  <2> QED BY <1>1, <2>3, <2>4, Indices
<1>8. iter \in [SUBSET I -> A]
  <2>1. \A T \in SUBSET I : iter[T] \in A
    BY <1>7
  <2> HIDE DEF Value
  <2> QED BY <1>6, <2>1
<1>9. Filters(iter, s, kinds)
  BY <1>6 DEF Filters
<1> QED BY <1>5, <1>8, <1>9

\* One line more.
LEMMA OnlyAppended ==
  ASSUME NEW S, NEW s \in Seq(S), NEW e \in S, NEW kinds
  PROVE  /\ Only(s, kinds) \in Seq(S)
         /\ Only(Append(s, e), kinds) = IF e \in kinds THEN Append(Only(s, kinds), e) ELSE Only(s, kinds)
<1> DEFINE n == Len(s)
           t == Append(s, e)
<1>1. n \in Nat /\ t \in Seq(S) /\ Len(t) = n + 1 /\ t[n + 1] = e /\ \A i \in 1..n : t[i] = s[i]
  OBVIOUS
<1>2. PICK g \in [SUBSET (1..n) -> Seq(S)] : Filters(g, s, kinds) /\ Only(s, kinds) = g[1..n]
  BY OnlyIs
<1> HIDE DEF n, t
<1>11. t \in Seq(S)
  BY <1>1
<1>12. n \in Nat
  BY <1>1
<1>3. PICK h \in [SUBSET (1..n + 1) -> Seq(S)] : Filters(h, t, kinds) /\ Only(t, kinds) = h[1..n + 1]
  <2>1. \E h \in [SUBSET (1..Len(t)) -> Seq(S)] : Filters(h, t, kinds) /\ Only(t, kinds) = h[1..Len(t)]
    BY <1>11, OnlyIs
  <2> QED BY <1>1, <2>1
<1> DEFINE Good == {T \in SUBSET (1..n) : h[T] = g[T]}
<1>4. \A T \in SUBSET (1..n) : T # {} => LastIn(n)[T] = Max(T) /\ Max(T) \in T
  BY <1>1, LastOfEach
<1>5. SUBSET (1..n) \subseteq SUBSET (1..n + 1)
  BY <1>1
<1>6. Good = SUBSET (1..n)
  <2>1. {} \in Good
    BY <1>2, <1>3, <1>5, <1>1 DEF Filters, n
  <2>2. ASSUME NEW T \in SUBSET (1..n), T # {}, T \ {LastIn(n)[T]} \in Good PROVE T \in Good
    <3> DEFINE m == Max(T)
    <3>1. m \in 1..n /\ h[T \ {m}] = g[T \ {m}] /\ t[m] = s[m]
      BY <1>1, <1>4, <2>2
    <3>2. g[T] = IF s[m] \in kinds THEN Append(g[T \ {m}], s[m]) ELSE g[T \ {m}]
      BY <1>2, <2>2 DEF Filters, n
    <3>3. h[T] = IF t[m] \in kinds THEN Append(h[T \ {m}], t[m]) ELSE h[T \ {m}]
      BY <1>1, <1>3, <1>5, <2>2 DEF Filters
    <3> HIDE DEF m
    <3> QED BY <2>2, <3>1, <3>2, <3>3
  <2>3. Good \in SUBSET (SUBSET (1..n))
    OBVIOUS
  <2> HIDE DEF Good
  <2>4. Grows(Good, 1..n, LastIn(n))
    BY <2>1, <2>2, <2>3 DEF Grows
  <2> QED BY <1>1, <2>3, <2>4, Indices
<1>7. Max(1..n + 1) = n + 1 /\ (1..n + 1) \ {n + 1} = 1..n /\ 1..n + 1 # {}
  BY <1>12, LastOfInterval
<1>8. h[1..n] = g[1..n]
  <2>1. 1..n \in Good
    BY <1>6
  <2> QED BY <2>1
<1>9. h[1..n + 1] = IF e \in kinds THEN Append(h[1..n], e) ELSE h[1..n]
  BY <1>1, <1>3, <1>7 DEF Filters
<1>10. Only(s, kinds) \in Seq(S)
  BY <1>2
<1> QED BY <1>2, <1>3, <1>8, <1>9, <1>10 DEF t

\* The same, for a line of which only its kind is known.
Longer(less, more, e, kinds) == more = IF e \in kinds THEN Append(less, e) ELSE less

LEMMA OnlyMore ==
  ASSUME NEW S, NEW s \in Seq(S), NEW e \in S, NEW kinds
  PROVE  Longer(Only(s, kinds), Only(Append(s, e), kinds), e, kinds)
BY OnlyAppended DEF Longer

LEMMA OnlyTyped ==
  ASSUME NEW S, NEW s \in Seq(S), NEW kinds
  PROVE  Only(s, kinds) \in Seq(S)
<1>1. PICK g \in [SUBSET (1..Len(s)) -> Seq(S)] : Filters(g, s, kinds) /\ Only(s, kinds) = g[1..Len(s)]
  BY OnlyIs
<1> QED BY <1>1

LEMMA OnlyNothing ==
  ASSUME NEW kinds
  PROVE  Only(<<>>, kinds) = <<>>
<1>1. <<>> \in Seq({}) /\ Len(<<>>) = 0
  OBVIOUS
<1>2. PICK g \in [SUBSET (1..Len(<<>>)) -> Seq({})] : Filters(g, <<>>, kinds) /\ Only(<<>>, kinds) = g[1..Len(<<>>)]
  BY <1>1, OnlyIs, ZenonT(60)
<1>3. 1..Len(<<>>) = {}
  BY <1>1
<1> QED BY <1>2, <1>3 DEF Filters

\* Sequences are built line by line.
Builds(Good, S) == <<>> \in Good /\ \A s \in Good, e \in S : Append(s, e) \in Good

LEMMA AllSequences ==
  ASSUME NEW S, NEW Good \in SUBSET Seq(S), Builds(Good, S)
  PROVE  Good = Seq(S)
<1> DEFINE N == {n \in Nat : \A s \in Seq(S) : Len(s) = n => s \in Good}
<1>1. 0 \in N
  <2>1. \A s \in Seq(S) : Len(s) = 0 => s = <<>>
    OBVIOUS
  <2> QED BY <2>1 DEF Builds
<1>2. ASSUME NEW n \in N PROVE n + 1 \in N
  <2>1. SUFFICES ASSUME NEW s \in Seq(S), Len(s) = n + 1 PROVE s \in Good
    OBVIOUS
  <2>2. n \in Nat /\ s # <<>>
    BY <2>1
  <2>3. PICK t \in Seq(S), e \in S : s = Append(t, e)
    BY <2>2, SequenceEmptyOrAppend
  <2>4. Len(t) = n
    BY <2>1, <2>2, <2>3
  <2> QED BY <2>3, <2>4 DEF Builds
<1>3. N = Nat
  <2> HIDE DEF N
  <2>1. N \in SUBSET Nat
    BY DEF N
  <2> QED BY <1>1, <1>2, <2>1, Numbers
<1>4. ASSUME NEW s \in Seq(S) PROVE s \in Good
  <2>1. Len(s) \in N
    BY <1>3
  <2> QED BY <2>1
<1> QED BY <1>4

\* Lines behind lines.
LEMMA OnlyJoined ==
  ASSUME NEW S, NEW s \in Seq(S), NEW t \in Seq(S), NEW kinds
  PROVE  Only(s \o t, kinds) = Only(s, kinds) \o Only(t, kinds)
<1> DEFINE Good == {u \in Seq(S) : Only(s \o u, kinds) = Only(s, kinds) \o Only(u, kinds)}
           a == Only(s, kinds)
<1>1. <<>> \in Good
  <2>1. a \in Seq(S)
    BY OnlyTyped
  <2> HIDE DEF a
  <2>2. s \o <<>> = s /\ a \o <<>> = a /\ <<>> \in Seq(S)
    BY <2>1, ConcatEmptySeq, EmptySeq
  <2>3. Only(<<>>, kinds) = <<>>
    BY OnlyNothing
  <2>4. Only(s \o <<>>, kinds) = a \o Only(<<>>, kinds)
    BY <2>2, <2>3 DEF a
  <2> QED BY <2>2, <2>4 DEF a
<1>2. ASSUME NEW u \in Good, NEW e \in S PROVE Append(u, e) \in Good
  <2> DEFINE b == Only(u, kinds)
             v == s \o u
  <2>1. u \in Seq(S) /\ Only(v, kinds) = a \o b
    OBVIOUS
  <2>2. v \in Seq(S) /\ a \in Seq(S) /\ b \in Seq(S)
    <3>1. v \in Seq(S)
      BY <2>1, ConcatProperties
    <3>2. a \in Seq(S)
      BY OnlyTyped
    <3>3. b \in Seq(S)
      BY <2>1, OnlyTyped
    <3> QED BY <3>1, <3>2, <3>3
  <2>3. Append(u, e) \in Seq(S) /\ s \o Append(u, e) = Append(v, e)
    <3>1. Append(u, e) = u \o <<e>> /\ Append(v, e) = v \o <<e>> /\ <<e>> \in Seq(S)
      BY <2>1, <2>2, AppendIsConcat
    <3>2. s \o (u \o <<e>>) = (s \o u) \o <<e>>
      BY <2>1, <3>1, ConcatAssociative
    <3> QED BY <2>1, <3>1, <3>2
  <2>4. Longer(b, Only(Append(u, e), kinds), e, kinds)
    BY <2>1, OnlyMore
  <2>5. Longer(Only(v, kinds), Only(Append(v, e), kinds), e, kinds)
    <3>1. v \in Seq(S)
      BY <2>2
    <3> HIDE DEF v
    <3> QED BY <3>1, OnlyMore
  <2>6. a \o Append(b, e) = Append(a \o b, e)
    <3> HIDE DEF a, b
    <3> DEFINE c == a \o b
    <3>0. c \in Seq(S)
      BY <2>2, ConcatProperties
    <3>1. Append(b, e) = b \o <<e>> /\ Append(c, e) = c \o <<e>> /\ <<e>> \in Seq(S)
      BY <2>2, <3>0, AppendIsConcat
    <3>2. a \o (b \o <<e>>) = (a \o b) \o <<e>>
      BY <2>2, <3>1, ConcatAssociative
    <3> QED BY <3>1, <3>2
  <2> HIDE DEF a, b, v
  <2>7. Only(s \o Append(u, e), kinds) = a \o Only(Append(u, e), kinds)
    BY <2>1, <2>3, <2>4, <2>5, <2>6 DEF Longer
  <2> QED BY <2>3, <2>7 DEF a
<1>3. t \in Good
  <2>1. Good \in SUBSET Seq(S)
    OBVIOUS
  <2> HIDE DEF Good
  <2>2. Builds(Good, S)
    BY <1>1, <1>2 DEF Builds
  <2> QED BY <2>1, <2>2, AllSequences
<1> QED BY <1>3

\* What is kept of what was kept.
LEMMA OnlyTwice ==
  ASSUME NEW S, NEW s \in Seq(S), NEW kinds, NEW fewer \in SUBSET kinds
  PROVE  Only(Only(s, kinds), fewer) = Only(s, fewer)
<1> DEFINE Good == {u \in Seq(S) : Only(Only(u, kinds), fewer) = Only(u, fewer)}
<1>1. <<>> \in Good
  BY OnlyNothing
<1>2. ASSUME NEW u \in Good, NEW e \in S PROVE Append(u, e) \in Good
  <2> DEFINE a == Only(u, kinds)
  <2>1. u \in Seq(S) /\ Only(a, fewer) = Only(u, fewer)
    OBVIOUS
  <2>2. a \in Seq(S)
    BY <2>1, OnlyTyped
  <2>3. Longer(a, Only(Append(u, e), kinds), e, kinds)
    BY <2>1, OnlyMore
  <2>4. Longer(Only(u, fewer), Only(Append(u, e), fewer), e, fewer)
    BY <2>1, OnlyMore
  <2> HIDE DEF a
  <2>5. Longer(Only(a, fewer), Only(Append(a, e), fewer), e, fewer)
    BY <2>2, OnlyMore
  <2>6. Only(Only(Append(u, e), kinds), fewer) = Only(Append(u, e), fewer)
    BY <2>1, <2>3, <2>4, <2>5 DEF Longer
  <2>7. Append(u, e) \in Seq(S)
    BY <2>1
  <2> QED BY <2>6, <2>7
<1>3. s \in Good
  <2>1. Good \in SUBSET Seq(S)
    OBVIOUS
  <2> HIDE DEF Good
  <2>2. Builds(Good, S)
    BY <1>1, <1>2 DEF Builds
  <2> QED BY <2>1, <2>2, AllSequences
<1> QED BY <1>3

\* Only what is asked for is kept, and all of it.
LEMMA OnlyRange ==
  ASSUME NEW S, NEW s \in Seq(S), NEW kinds
  PROVE  Only(s, kinds) \in Seq(S) /\ Range(Only(s, kinds)) = Range(s) \cap kinds
<1> DEFINE Good == {u \in Seq(S) : Only(u, kinds) \in Seq(S) /\ Range(Only(u, kinds)) = Range(u) \cap kinds}
<1>0. \A u \in Seq(S), e \in S : Append(u, e) \in Seq(S) /\ Range(Append(u, e)) = Range(u) \cup {e}
  <2>1. SUFFICES ASSUME NEW u \in Seq(S), NEW e \in S
                 PROVE  Append(u, e) \in Seq(S) /\ Range(Append(u, e)) = Range(u) \cup {e}
    OBVIOUS
  <2> DEFINE v == Append(u, e)
             n == Len(u)
  <2>2. v \in Seq(S) /\ Len(v) = n + 1 /\ v[n + 1] = e /\ (\A i \in 1..n : v[i] = u[i]) /\ n \in Nat
    OBVIOUS
  <2>3. Range(v) = {v[i] : i \in 1..n + 1} /\ Range(u) = {u[i] : i \in 1..n}
    BY <2>2 DEF Range
  <2> HIDE DEF v, n
  <2>4. 1..n + 1 = 1..n \cup {n + 1}
    BY <2>2
  <2>5. Range(v) = Range(u) \cup {e}
    BY <2>2, <2>3, <2>4
  <2> QED BY <2>2, <2>5 DEF v
<1>1. <<>> \in Good
  <2>1. Range(<<>>) = {} /\ <<>> \in Seq(S)
    BY DEF Range
  <2> QED BY <2>1, OnlyNothing
<1>2. ASSUME NEW u \in Good, NEW e \in S PROVE Append(u, e) \in Good
  <2> DEFINE a == Only(u, kinds)
  <2>1. u \in Seq(S) /\ a \in Seq(S) /\ Range(a) = Range(u) \cap kinds
    OBVIOUS
  <2>2. Only(Append(u, e), kinds) = IF e \in kinds THEN Append(a, e) ELSE a
    BY <2>1, OnlyAppended
  <2> HIDE DEF a
  <2>3. Range(Append(u, e)) = Range(u) \cup {e} /\ Range(Append(a, e)) = Range(a) \cup {e}
        /\ Append(u, e) \in Seq(S) /\ Append(a, e) \in Seq(S)
    BY <1>0, <2>1
  <2>4. CASE e \in kinds
    BY <2>1, <2>2, <2>3, <2>4
  <2>5. CASE e \notin kinds
    BY <2>1, <2>2, <2>3, <2>5
  <2> QED BY <2>4, <2>5
<1>3. s \in Good
  <2>1. Good \in SUBSET Seq(S)
    OBVIOUS
  <2> HIDE DEF Good
  <2>2. Builds(Good, S)
    BY <1>1, <1>2 DEF Builds
  <2> QED BY <2>1, <2>2, AllSequences
<1> QED BY <1>3

\* Contact data inside a line is replaced.
Replacing(s) == [i \in 1..Len(s) |-> IF s[i] = "contact" THEN "replaced" ELSE s[i]]

LEMMA OnlyReplaced ==
  ASSUME NEW S, NEW s \in Seq(S), "replaced" \in S, NEW kinds, "contact" \notin kinds, "replaced" \notin kinds
  PROVE  /\ Replacing(s) \in Seq(S) /\ Only(Replacing(s), kinds) = Only(s, kinds)
         /\ "contact" \notin Range(Replacing(s)) /\ Range(Replacing(s)) \subseteq Range(s) \cup {"replaced"}
<1> DEFINE Good == {u \in Seq(S) : Only(Replacing(u), kinds) = Only(u, kinds)}
<1>0. \A u \in Seq(S) : Replacing(u) \in Seq(S)
  <2>1. SUFFICES ASSUME NEW u \in Seq(S) PROVE Replacing(u) \in Seq(S)
    OBVIOUS
  <2>2. Len(u) \in Nat /\ \A i \in 1..Len(u) : u[i] \in S
    BY <2>1
  <2>3. \A i \in 1..Len(u) : (IF u[i] = "contact" THEN "replaced" ELSE u[i]) \in S
    BY <2>2
  <2> QED BY <2>2, <2>3, IsASeq DEF Replacing
<1>1. <<>> \in Good
  <2>1. Replacing(<<>>) = <<>>
    BY DEF Replacing
  <2> QED BY <2>1
<1>2. ASSUME NEW u \in Good, NEW e \in S PROVE Append(u, e) \in Good
  <2> DEFINE f == IF e = "contact" THEN "replaced" ELSE e
             n == Len(u)
             a == Replacing(u)
             b == Replacing(Append(u, e))
  <2>1. u \in Seq(S) /\ f \in S /\ a \in Seq(S) /\ Only(a, kinds) = Only(u, kinds)
    <3>1. u \in Seq(S) /\ Only(a, kinds) = Only(u, kinds)
      OBVIOUS
    <3>2. f \in S
      OBVIOUS
    <3> QED BY <1>0, <3>1, <3>2
  <2>2. Append(u, e) \in Seq(S) /\ b \in Seq(S)
    <3>1. Append(u, e) \in Seq(S)
      BY <2>1
    <3> QED BY <1>0, <3>1
  <2>3. b = Append(a, f)
    <3> DEFINE v == Append(u, e)
    <3>1. n \in Nat /\ Len(v) = n + 1 /\ v[n + 1] = e /\ \A i \in 1..n : v[i] = u[i]
      BY <2>1
    <3>2. Len(b) = n + 1 /\ Len(a) = n
      BY <3>1 DEF Replacing
    <3>3. b[n + 1] = f /\ \A i \in 1..n : b[i] = a[i]
      <4> HIDE DEF v
      <4>1. b = [i \in 1..Len(v) |-> IF v[i] = "contact" THEN "replaced" ELSE v[i]]
        BY DEF Replacing, v
      <4>2. a = [i \in 1..n |-> IF u[i] = "contact" THEN "replaced" ELSE u[i]]
        BY DEF Replacing
      <4> HIDE DEF a, b, n
      <4>3. b[n + 1] = f
        BY <3>1, <4>1
      <4>4. ASSUME NEW i \in 1..n PROVE b[i] = a[i]
        BY <3>1, <4>1, <4>2
      <4> QED BY <4>3, <4>4
    <3> DEFINE c == Append(a, f)
    <3> HIDE DEF b, a, f, n, v
    <3>4. c \in Seq(S) /\ Len(c) = n + 1 /\ c[n + 1] = f /\ \A i \in 1..n : c[i] = a[i]
      BY <2>1, <3>2
    <3> HIDE DEF c
    <3>5. \A i \in 1..Len(b) : b[i] = c[i]
      <4>1. \A i \in 1..n + 1 : i \in 1..n \/ i = n + 1
        BY <3>1
      <4> QED BY <3>2, <3>3, <3>4, <4>1
    <3>6. b = c
      BY <2>2, <3>2, <3>4, <3>5, SeqEqual
    <3> QED BY <3>6 DEF c
  <2>4. Longer(Only(a, kinds), Only(Append(a, f), kinds), f, kinds)
    <3>1. a \in Seq(S) /\ f \in S
      BY <2>1
    <3> HIDE DEF a, f
    <3> QED BY <3>1, OnlyMore
  <2>5. Longer(Only(u, kinds), Only(Append(u, e), kinds), e, kinds)
    BY <2>1, OnlyMore
  <2>6. f \in kinds <=> e \in kinds
    OBVIOUS
  <2>7. e \in kinds => f = e
    OBVIOUS
  <2> HIDE DEF a, b, f
  <2>8. Only(b, kinds) = Only(Append(u, e), kinds)
    BY <2>1, <2>3, <2>4, <2>5, <2>6, <2>7 DEF Longer
  <2> QED BY <2>2, <2>8 DEF b
<1>3. s \in Good
  <2>1. Good \in SUBSET Seq(S)
    OBVIOUS
  <2> HIDE DEF Good
  <2>2. Builds(Good, S)
    BY <1>1, <1>2 DEF Builds
  <2> QED BY <2>1, <2>2, AllSequences
<1>4. Only(Replacing(s), kinds) = Only(s, kinds)
  BY <1>3
<1>5. "contact" \notin Range(Replacing(s)) /\ Range(Replacing(s)) \subseteq Range(s) \cup {"replaced"}
  BY DEF Range, Replacing
<1> QED BY <1>0, <1>4, <1>5

LEMMA OnlyOne ==
  ASSUME NEW S, NEW e \in S, NEW kinds
  PROVE  Only(<<e>>, kinds) = IF e \in kinds THEN <<e>> ELSE <<>>
<1>1. <<>> \in Seq(S) /\ Append(<<>>, e) = <<e>>
  OBVIOUS
<1>2. Longer(Only(<<>>, kinds), Only(Append(<<>>, e), kinds), e, kinds)
  BY <1>1, OnlyMore
<1>3. Only(<<>>, kinds) = <<>>
  BY OnlyNothing
<1> QED BY <1>1, <1>2, <1>3 DEF Longer

LEMMA OnlyNone ==
  ASSUME NEW S, NEW s \in Seq(S), NEW kinds, Range(s) \cap kinds = {}
  PROVE  Only(s, kinds) = <<>>
<1> DEFINE t == Only(s, kinds)
<1>1. t \in Seq(S) /\ Range(t) = {}
  BY OnlyRange
<1> HIDE DEF t
<1>2. \A i \in 1..Len(t) : FALSE
  <2>1. DOMAIN t = 1..Len(t)
    BY <1>1
  <2> QED BY <1>1, <2>1 DEF Range
<1>3. Len(t) \in Nat
  BY <1>1
<1>4. Len(t) = 0
  BY <1>2, <1>3
<1>5. t = <<>>
  BY <1>1, <1>4, EmptySeq
<1> QED BY <1>5 DEF t

\* The first line that is not blank.
FirstOf(s) == SelectInSeq(s, LAMBDA l : l # "blank")

LEMMA FirstIs ==
  ASSUME NEW S, NEW s \in Seq(S)
  PROVE  \/ FirstOf(s) = 0 /\ \A i \in 1..Len(s) : s[i] = "blank"
         \/ /\ FirstOf(s) \in 1..Len(s) /\ s[FirstOf(s)] # "blank" /\ FirstOf(s) # 0
            /\ \A i \in 1..FirstOf(s) - 1 : s[i] = "blank"
<1> DEFINE I == {i \in 1..Len(s) : s[i] # "blank"}
<1>1. FirstOf(s) = IF I # {} THEN Min(I) ELSE 0
  BY DEF FirstOf, SelectInSeq
<1>2. Len(s) \in Nat /\ I \in SUBSET Nat
  OBVIOUS
<1>3. CASE I = {}
  BY <1>1, <1>3
<1>4. CASE I # {}
  <2>1. PICK i \in I : \A j \in I : i <= j
    <3> HIDE DEF I
    <3> QED BY <1>2, <1>4, LeastOf
  <2>2. Min(I) \in I /\ \A j \in I : Min(I) <= j
    <3> HIDE DEF I
    <3> QED BY <2>1 DEF Min
  <2> DEFINE m == Min(I)
  <2>3. m \in 1..Len(s) /\ s[m] # "blank" /\ \A j \in 1..Len(s) : s[j] # "blank" => m <= j
    BY <2>2
  <2> HIDE DEF m
  <2>4. \A j \in 1..m - 1 : s[j] = "blank"
    <3>1. \A j \in 1..m - 1 : j \in 1..Len(s) /\ ~(m <= j)
      BY <1>2, <2>3
    <3> QED BY <2>3, <3>1
  <2>5. FirstOf(s) = m
    BY <1>1, <1>4 DEF m
  <2>6. m # 0
    BY <2>3
  <2> QED BY <2>3, <2>4, <2>5, <2>6
<1> QED BY <1>3, <1>4

\* A line is taken out: what stands before it, and what behind.
LEMMA TakenOut ==
  ASSUME NEW S, NEW s \in Seq(S), NEW i \in 1..Len(s)
  PROVE  \E a, b \in Seq(S) : /\ s = (a \o <<s[i]>>) \o b /\ RemoveAt(s, i) = a \o b
                              /\ Range(a) \subseteq {s[j] : j \in 1..i - 1}
<1> DEFINE n == Len(s)
           a == SubSeq(s, 1, i - 1)
           b == SubSeq(s, i + 1, n)
<1>1. n \in Nat /\ i \in Nat /\ 1 <= i /\ i <= n /\ \A j \in 1..n : s[j] \in S
  OBVIOUS
<1> HIDE DEF n
<1>2. 1 \in 1..n + 1 /\ i - 1 \in 1 - 1..n /\ i \in i - 1..n /\ i \in 1 - 1..n /\ n \in i..n /\ (i - 1) + 1 = i
  BY <1>1
<1>3. SubSeq(s, 1, i - 1) \o SubSeq(s, i, i) = SubSeq(s, 1, i)
  BY <1>2, ConcatAdjacentSubSeq DEF n
<1>4. SubSeq(s, 1, i) \o SubSeq(s, i + 1, n) = SubSeq(s, 1, n)
  BY <1>2, ConcatAdjacentSubSeq DEF n
<1>5. SubSeq(s, 1, n) = s
  BY SubSeqFull DEF n
<1>6. SubSeq(s, i, i) = <<s[i]>>
  <2> DEFINE x == s[i]
             u == SubSeq(s, i, i)
             v == <<x>>
  <2>1. i \in Int /\ \A j \in i..i : s[j] \in S
    BY <1>1
  <2>2. u \in Seq(S) /\ Len(u) = (IF i <= i THEN i - i + 1 ELSE 0) /\ \A j \in 1..i - i + 1 : u[j] = s[i + j - 1]
    BY <2>1, SubSeqProperties
  <2>3. x \in S
    BY <1>1
  <2> HIDE DEF u
  <2>4. Len(u) = 1 /\ u[1] = x
    <3>1. i - i + 1 = 1 /\ i <= i /\ i + 1 - 1 = i
      BY <1>1
    <3> QED BY <2>2, <3>1
  <2> HIDE DEF x
  <2>5. v \in Seq(S) /\ Len(v) = 1 /\ v[1] = x
    BY <2>3
  <2> HIDE DEF v
  <2>6. u = v
    <3>1. \A j \in 1..Len(u) : u[j] = v[j]
      BY <2>4, <2>5
    <3> QED BY <2>2, <2>4, <2>5, <3>1, SeqEqual
  <2> QED BY <2>6 DEF u, v, x
<1>7. a \in Seq(S) /\ \A j \in 1..Len(a) : j \in 1..i - 1 /\ a[j] = s[j]
  <2>1. 1 \in Int /\ i - 1 \in Int /\ \A j \in 1..i - 1 : s[j] \in S
    BY <1>1
  <2>2. a \in Seq(S) /\ Len(a) = (IF 1 <= i - 1 THEN i - 1 - 1 + 1 ELSE 0) /\ \A j \in 1..i - 1 - 1 + 1 : a[j] = s[1 + j - 1]
    BY <2>1, SubSeqProperties
  <2> HIDE DEF a
  <2>3. Len(a) = i - 1 /\ i - 1 - 1 + 1 = i - 1 /\ \A j \in 1..i - 1 : 1 + j - 1 = j
    BY <1>1, <2>2
  <2> QED BY <2>2, <2>3
<1>8. b \in Seq(S)
  <2>1. i + 1 \in Int /\ n \in Int /\ \A j \in i + 1..n : s[j] \in S
    BY <1>1
  <2> QED BY <2>1, SubSeqProperties
<1>9. Range(a) \subseteq {s[j] : j \in 1..i - 1}
  <2> HIDE DEF a
  <2>1. DOMAIN a = 1..Len(a)
    BY <1>7
  <2> QED BY <1>7, <2>1 DEF Range
<1>10. RemoveAt(s, i) = a \o b
  BY DEF RemoveAt, n
<1>11. s = (a \o <<s[i]>>) \o b
  BY <1>3, <1>4, <1>5, <1>6
<1> QED BY <1>7, <1>8, <1>9, <1>10, <1>11

LEMMA TailBehind ==
  ASSUME NEW S, NEW x \in S, NEW t \in Seq(S)
  PROVE  Tail(<<x>> \o t) = t /\ (<<x>> \o t)[1] = x /\ <<x>> \o t # <<>> /\ Len(<<x>> \o t) = Len(t) + 1
<1> DEFINE u == <<x>> \o t
<1>1. <<x>> \in Seq(S) /\ Len(<<x>>) = 1 /\ <<x>>[1] = x
  OBVIOUS
<1>2. Len(t) \in Nat
  OBVIOUS
<1>3. /\ u \in Seq(S) /\ Len(u) = 1 + Len(t)
      /\ \A i \in 1..1 + Len(t) : u[i] = IF i <= 1 THEN <<x>>[i] ELSE t[i - 1]
  BY <1>1, ConcatProperties
<1> HIDE DEF u
<1>4. u[1] = x /\ u # <<>>
  <2>1. 1 \in 1..1 + Len(t) /\ 1 <= 1
    BY <1>2
  <2>2. u[1] = x
    BY <1>1, <1>3, <2>1
  <2>3. Len(u) # 0
    BY <1>2, <1>3
  <2> QED BY <2>2, <2>3
<1>5. \A i \in 1..Len(t) : u[i + 1] = t[i]
  <2>1. SUFFICES ASSUME NEW i \in 1..Len(t) PROVE u[i + 1] = t[i]
    OBVIOUS
  <2>2. i + 1 \in 1..1 + Len(t) /\ ~(i + 1 <= 1) /\ (i + 1) - 1 = i
    BY <1>2
  <2> QED BY <1>3, <2>2
<1>6. Tail(u) = t
  <2> DEFINE v == Tail(u)
  <2>1. v \in Seq(S) /\ Len(v) = Len(t) /\ \A i \in 1..Len(t) : v[i] = u[i + 1]
    BY <1>2, <1>3, <1>4
  <2> HIDE DEF v
  <2>2. v = t
    <3>1. \A i \in 1..Len(v) : v[i] = t[i]
      BY <1>5, <2>1
    <3> QED BY <2>1, <3>1, SeqEqual
  <2> QED BY <2>2 DEF v
<1> QED BY <1>2, <1>3, <1>4, <1>6 DEF u

\* What taking a line out does to the lines of some kinds.
LEMMA OnlyRemoved ==
  ASSUME NEW S, NEW s \in Seq(S), NEW i \in 1..Len(s), NEW kinds
  PROVE  /\ RemoveAt(s, i) \in Seq(S) /\ Range(RemoveAt(s, i)) \subseteq Range(s)
         /\ s[i] \notin kinds => Only(RemoveAt(s, i), kinds) = Only(s, kinds)
         /\ Len(Only(s, kinds)) - Len(Only(RemoveAt(s, i), kinds)) \in 0..1
         /\ (s[i] \in kinds /\ \A j \in 1..i - 1 : s[j] \notin kinds) =>
              /\ Only(s, kinds) # <<>> /\ Only(s, kinds)[1] = s[i]
              /\ Only(RemoveAt(s, i), kinds) = Tail(Only(s, kinds))
<1> DEFINE x == s[i]
           r == RemoveAt(s, i)
<1>1. PICK a, b \in Seq(S) : /\ s = (a \o <<x>>) \o b /\ r = a \o b
                             /\ Range(a) \subseteq {s[j] : j \in 1..i - 1}
  BY TakenOut
<1>2. x \in S
  OBVIOUS
<1> DEFINE y == <<x>>
           ax == a \o y
<1>3. y \in Seq(S)
  BY <1>2
<1>4. r \in Seq(S) /\ Range(r) = Range(a) \cup Range(b)
  <2> HIDE DEF r
  <2> QED BY <1>1, ConcatProperties, RangeConcatenation
<1>5. ax \in Seq(S) /\ Range(ax) = Range(a) \cup Range(y)
  <2> HIDE DEF y
  <2> QED BY <1>3, ConcatProperties, RangeConcatenation
<1>6. Range(s) = Range(ax) \cup Range(b)
  <2>1. s = ax \o b
    BY <1>1
  <2> HIDE DEF ax
  <2> QED BY <1>5, <2>1, RangeConcatenation, SMTT(30)
<1>7. Range(r) \subseteq Range(s)
  <2> HIDE DEF r, ax, y
  <2> QED BY <1>4, <1>5, <1>6
<1> DEFINE p == Only(a, kinds)
           q == Only(y, kinds)
           t == Only(b, kinds)
<1>8. p \in Seq(S) /\ q \in Seq(S) /\ t \in Seq(S)
  <2>1. p \in Seq(S)
    BY OnlyTyped
  <2>2. t \in Seq(S)
    BY OnlyTyped
  <2>3. q \in Seq(S)
    <3> HIDE DEF y
    <3> QED BY <1>3, OnlyTyped
  <2> QED BY <2>1, <2>2, <2>3
<1>9. Only(r, kinds) = p \o t
  <2> HIDE DEF r
  <2> QED BY <1>1, OnlyJoined, SMTT(30)
<1>10. Only(ax, kinds) = p \o q
  <2> HIDE DEF y
  <2> QED BY <1>3, OnlyJoined, SMTT(30)
<1>11. Only(s, kinds) = (p \o q) \o t
  <2>1. s = ax \o b
    BY <1>1
  <2>2. Only(ax \o b, kinds) = Only(ax, kinds) \o t
    <3> HIDE DEF ax
    <3> QED BY <1>5, OnlyJoined, SMTT(30)
  <2> HIDE DEF ax, p, q, t
  <2> QED BY <1>10, <2>1, <2>2
<1>12. q = IF x \in kinds THEN y ELSE <<>>
  BY <1>2, OnlyOne
<1>13. Len(y) = 1 /\ Len(<<>>) = 0 /\ <<>> \in Seq(S)
  OBVIOUS
<1> HIDE DEF p, q, t, y, ax, r, x
<1>14. CASE x \notin kinds
  <2>1. p \o <<>> = p
    BY <1>8, ConcatEmptySeq
  <2>2. Only(s, kinds) = Only(r, kinds)
    BY <1>9, <1>11, <1>12, <1>14, <2>1
  <2>3. Only(r, kinds) \in Seq(S)
    BY <1>4, OnlyTyped
  <2>4. Len(Only(r, kinds)) \in Nat
    BY <2>3
  <2>5. Len(Only(s, kinds)) - Len(Only(r, kinds)) \in 0..1
    BY <2>2, <2>4
  <2> QED BY <1>4, <1>7, <1>14, <2>2, <2>5 DEF r, x
<1>15. CASE x \in kinds
  <2>1. q = y
    BY <1>12, <1>15
  <2>2. /\ Len(p \o q) = Len(p) + Len(q) /\ p \o q \in Seq(S)
        /\ Len(p \o t) = Len(p) + Len(t)
    BY <1>8, ConcatProperties
  <2>3. Len((p \o q) \o t) = Len(p \o q) + Len(t)
    BY <1>8, <2>2, ConcatProperties
  <2>4. Len(p) \in Nat /\ Len(t) \in Nat /\ Len(q) = 1
    BY <1>8, <1>13, <2>1
  <2>5. Len(Only(s, kinds)) - Len(Only(r, kinds)) \in 0..1
    BY <1>9, <1>11, <2>2, <2>3, <2>4
  <2>6. ASSUME \A j \in 1..i - 1 : s[j] \notin kinds
        PROVE  Only(s, kinds) # <<>> /\ Only(s, kinds)[1] = x /\ Only(r, kinds) = Tail(Only(s, kinds))
    <3>1. Range(a) \cap kinds = {}
      BY <1>1, <2>6
    <3>2. p = <<>>
      BY <3>1, OnlyNone DEF p
    <3>3. <<>> \o q = q /\ <<>> \o t = t
      BY <1>8, ConcatEmptySeq
    <3>4. Only(s, kinds) = <<x>> \o t /\ Only(r, kinds) = t
      BY <1>9, <1>11, <2>1, <3>2, <3>3 DEF y
    <3>5. Tail(<<x>> \o t) = t /\ (<<x>> \o t)[1] = x /\ <<x>> \o t # <<>>
      BY <1>2, <1>8, TailBehind
    <3> QED BY <3>4, <3>5
  <2> QED BY <1>4, <1>7, <1>15, <2>5, <2>6 DEF r, x
<1> QED BY <1>14, <1>15

\* What a resume names and says, before and after.
Names == {"name", "latin"}
Content == LineKinds \ {"blank", "labelled", "photo"}
KeptKinds == LineKinds \ {"labelled", "photo"}
NameIn(lines) ==
  /\ FirstOf(Kept(lines)) # 0
  /\ Kept(lines)[FirstOf(Kept(lines))] \in {"name"} \cup (IF ContactSignal(lines) THEN {"latin"} ELSE {})
NameTaken(lines) == IF NameIn(lines) THEN RemoveAt(Kept(lines), FirstOf(Kept(lines))) ELSE Kept(lines)

LEMMA KeptIs ==
  ASSUME NEW lines \in Seq(LineKinds)
  PROVE  /\ Kept(lines) \in Seq(LineKinds) /\ Range(Kept(lines)) = Range(lines) \cap KeptKinds
         /\ \A kinds \in SUBSET KeptKinds : Only(Kept(lines), kinds) = Only(lines, kinds)
         /\ Sanitized(lines) = Replacing(NameTaken(lines))
<1>1. Kept(lines) = Only(lines, KeptKinds)
  BY DEF Kept, KeptKinds
<1>2. Only(lines, KeptKinds) \in Seq(LineKinds) /\ Range(Only(lines, KeptKinds)) = Range(lines) \cap KeptKinds
  BY OnlyRange
<1>3. \A kinds \in SUBSET KeptKinds : Only(Only(lines, KeptKinds), kinds) = Only(lines, kinds)
  BY OnlyTwice
<1>4. Sanitized(lines) = Replacing(NameTaken(lines))
  BY DEF Sanitized, Replacing, NameTaken, NameIn, FirstOf
<1> QED BY <1>1, <1>2, <1>3, <1>4

\* At most the name is missing from what is kept.
LEMMA NamedIs ==
  ASSUME NEW lines \in Seq(LineKinds)
  PROVE  /\ NameTaken(lines) \in Seq(LineKinds) /\ Range(NameTaken(lines)) \subseteq Range(lines) \cap KeptKinds
         /\ Only(NameTaken(lines), {"text", "heading"}) = Only(lines, {"text", "heading"})
         /\ Len(Only(lines, Names)) - Len(Only(NameTaken(lines), Names)) \in 0..1
<1> DEFINE k == Kept(lines)
           f == FirstOf(k)
<1>1. k \in Seq(LineKinds) /\ Range(k) = Range(lines) \cap KeptKinds
  BY KeptIs
<1>2. Only(k, {"text", "heading"}) = Only(lines, {"text", "heading"}) /\ Only(k, Names) = Only(lines, Names)
  <2>1. {"text", "heading"} \in SUBSET KeptKinds /\ Names \in SUBSET KeptKinds
    BY DEF KeptKinds, LineKinds, Names
  <2> QED BY <2>1, KeptIs
<1> HIDE DEF k
<1>3. CASE NameIn(lines)
  <2>1. f # 0 /\ k[f] \in Names
    BY <1>3 DEF NameIn, Names, k
  <2>2. f \in 1..Len(k)
    BY <1>1, <2>1, FirstIs
  <2>3. NameTaken(lines) = RemoveAt(k, f)
    BY <1>3 DEF NameTaken, k
  <2> HIDE DEF f
  <2>4. RemoveAt(k, f) \in Seq(LineKinds) /\ Range(RemoveAt(k, f)) \subseteq Range(k)
    BY <1>1, <2>2, OnlyRemoved
  <2>5. Only(RemoveAt(k, f), {"text", "heading"}) = Only(k, {"text", "heading"})
    <3>1. k[f] \notin {"text", "heading"}
      BY <2>1 DEF Names
    <3> QED BY <1>1, <2>2, <3>1, OnlyRemoved
  <2>6. Len(Only(k, Names)) - Len(Only(RemoveAt(k, f), Names)) \in 0..1
    BY <1>1, <2>2, OnlyRemoved
  <2> QED BY <1>1, <1>2, <2>3, <2>4, <2>5, <2>6
<1>4. CASE ~NameIn(lines)
  <2>1. NameTaken(lines) = k
    BY <1>4 DEF NameTaken, k
  <2>2. Only(k, Names) \in Seq(LineKinds)
    BY <1>1, OnlyTyped
  <2>3. Len(Only(k, Names)) \in Nat
    BY <2>2
  <2> QED BY <1>1, <1>2, <2>1, <2>3
<1> QED BY <1>3, <1>4

\* A Latin name above the contact data.
LatinAbove(lines) ==
  /\ Only(lines, Content) # <<>> /\ Only(lines, Content)[1] = "latin"
  /\ Range(lines) \cap {"labelled", "contact"} # {} /\ Len(lines) <= HeadLines

LEMMA LatinTaken ==
  ASSUME NEW lines \in Seq(LineKinds), LatinAbove(lines)
  PROVE  Only(NameTaken(lines), Names) = Tail(Only(lines, Names))
<1> DEFINE k == Kept(lines)
           f == FirstOf(k)
<1>1. k \in Seq(LineKinds) /\ Range(k) = Range(lines) \cap KeptKinds
  BY KeptIs
<1>2. Only(k, Content) = Only(lines, Content) /\ Only(k, Names) = Only(lines, Names)
  <2>1. Content \in SUBSET KeptKinds /\ Names \in SUBSET KeptKinds
    BY DEF KeptKinds, LineKinds, Names, Content
  <2> QED BY <2>1, KeptIs
<1> HIDE DEF k
<1>3. DOMAIN k = 1..Len(k) /\ \A i \in 1..Len(k) : k[i] \in KeptKinds
  <2>1. DOMAIN k = 1..Len(k)
    BY <1>1
  <2> QED BY <1>1, <2>1 DEF Range
<1>4. f \in 1..Len(k) /\ k[f] # "blank" /\ f # 0 /\ \A i \in 1..f - 1 : k[i] = "blank"
  <2>1. ASSUME \A i \in 1..Len(k) : k[i] = "blank" PROVE FALSE
    <3>1. Range(k) \cap Content = {}
      BY <1>3, <2>1 DEF Range, Content
    <3>2. Only(k, Content) = <<>>
      BY <1>1, <3>1, OnlyNone
    <3> QED BY <1>2, <3>2 DEF LatinAbove
  <2> QED BY <1>1, <2>1, FirstIs
<1> HIDE DEF f
<1>5. k[f] = "latin"
  <2>1. k[f] \in Content /\ \A i \in 1..f - 1 : k[i] \notin Content
    BY <1>3, <1>4 DEF KeptKinds, Content
  <2>2. Only(k, Content)[1] = k[f]
    BY <1>1, <1>4, <2>1, OnlyRemoved
  <2> QED BY <1>2, <2>2 DEF LatinAbove
<1>6. ContactSignal(lines)
  <2>1. Len(lines) \in Nat /\ DOMAIN lines = 1..Len(lines) /\ HeadLines \in Nat
    BY HeadAssumption
  <2>2. PICK i \in 1..Len(lines) : lines[i] \in {"labelled", "contact"}
    BY <2>1 DEF LatinAbove, Range
  <2>3. i <= HeadLines
    BY <2>1 DEF LatinAbove
  <2> QED BY <2>2, <2>3 DEF ContactSignal
<1>7. NameTaken(lines) = RemoveAt(k, f)
  BY <1>4, <1>5, <1>6 DEF NameTaken, NameIn, k, f
<1>8. Only(RemoveAt(k, f), Names) = Tail(Only(k, Names))
  <2>1. k[f] \in Names /\ \A i \in 1..f - 1 : k[i] \notin Names
    BY <1>4, <1>5 DEF Names
  <2> QED BY <1>1, <1>4, <2>1, OnlyRemoved
<1> QED BY <1>2, <1>7, <1>8

LEMMA RedactedExactly ==
  ASSUME NEW lines \in Seq(LineKinds)
  PROVE  RedactionExact(lines)
<1> DEFINE S == LineKinds \cup {"replaced"}
           m == NameTaken(lines)
<1>1. /\ m \in Seq(LineKinds) /\ Range(m) \subseteq Range(lines) \cap KeptKinds
      /\ Only(m, {"text", "heading"}) = Only(lines, {"text", "heading"})
      /\ Len(Only(lines, Names)) - Len(Only(m, Names)) \in 0..1
  BY NamedIs
<1>2. LatinAbove(lines) => Only(m, Names) = Tail(Only(lines, Names))
  BY LatinTaken
<1>3. Sanitized(lines) = Replacing(m)
  BY KeptIs
<1> HIDE DEF m
<1>4. m \in Seq(S) /\ "replaced" \in S
  <2>1. LineKinds \subseteq S
    OBVIOUS
  <2> HIDE DEF S
  <2>2. m \in Seq(S)
    BY <1>1, <2>1, SeqMonotonic
  <2> QED BY <2>2 DEF S
<1> HIDE DEF S
<1>5. Only(Replacing(m), {"text", "heading"}) = Only(m, {"text", "heading"})
  BY <1>4, OnlyReplaced
<1>6. Only(Replacing(m), Names) = Only(m, Names)
  <2>1. "contact" \notin Names /\ "replaced" \notin Names
    BY DEF Names
  <2> QED BY <1>4, <2>1, OnlyReplaced
<1>7. "contact" \notin Range(Replacing(m)) /\ Range(Replacing(m)) \subseteq Range(m) \cup {"replaced"}
  <2>1. "contact" \notin Names /\ "replaced" \notin Names
    BY DEF Names
  <2>2. "contact" \notin Range(Replacing(m))
    BY <1>4, <2>1, OnlyReplaced
  <2>3. Range(Replacing(m)) \subseteq Range(m) \cup {"replaced"}
    BY <1>4, <2>1, OnlyReplaced
  <2> QED BY <2>2, <2>3
<1>8. Range(Replacing(m)) \cap {"labelled", "photo", "contact"} = {}
  BY <1>1, <1>7 DEF KeptKinds
<1>9. /\ Range(Sanitized(lines)) \cap {"labelled", "photo", "contact"} = {}
      /\ Only(Sanitized(lines), {"text", "heading"}) = Only(lines, {"text", "heading"})
      /\ Len(Only(lines, Names)) - Len(Only(Sanitized(lines), Names)) \in 0..1
      /\ LatinAbove(lines) => Only(Sanitized(lines), Names) = Tail(Only(lines, Names))
  <2> QED BY <1>1, <1>2, <1>3, <1>5, <1>6, <1>8
<1> QED BY <1>9 DEF RedactionExact, Names, Content, LatinAbove

\* The input of a step that is about a resume is one of the constants'.
ResumeTaken ==
  /\ input.kind = "dates" => input.value \in RangeSets
  /\ input.kind = "resume" => input.value \in Resumes

\* What sanitize_resume_text and duration_bounds_for_keys read of a resume, for all resumes and
\* date ranges: every month counts once and within the bounds, and exactly the contact data
\* with the name above it is taken out.
THEOREM ResumeAlwaysRead == AnswersSpec => []ResumeRead
<1>1. Init => ResumeTaken
  BY DEF Init, ResumeTaken
<1>2. ResumeTaken /\ [Next]_<<input, made>> => ResumeTaken'
  <2>1. SUFFICES ASSUME ResumeTaken, Next PROVE ResumeTaken'
    BY DEF ResumeTaken
  <2>2. CASE ReadDates \/ ReadResume
    BY <2>2 DEF ReadDates, ReadResume, Chosen, ResumeTaken
  <2>3. CASE input'.kind \notin {"dates", "resume"}
    BY <2>3 DEF ResumeTaken
  <2>4. CASE UNCHANGED input
    BY <2>1, <2>4 DEF ResumeTaken
  <2> QED
    BY <2>1, <2>2, <2>3, <2>4
    DEF Next, CheckReport, Evaluate, ListTags, Request, CutJob, MakePlan, SaveDraft, EditList,
        GenerateFacts, Chosen, Asks, AskExtraction, AskCoverage, AskRepair, AskGrouping
<1>3. ResumeTaken => ResumeRead
  <2>1. SUFFICES ASSUME ResumeTaken PROVE ResumeRead
    OBVIOUS
  <2>2. ASSUME NEW ranges \in RangeSets
        PROVE  UnionCountsMonths(ranges) /\ DurationBounded(ranges) /\ BoundsAgree(ranges)
    <3>1. ranges \in SUBSET Range_ /\ IsFiniteSet(ranges)
      BY ResumesAssumption
    <3>2. UnionCountsMonths(ranges)
      BY <3>1, UnionOfRanges DEF UnionCountsMonths
    <3> QED BY <3>1, <3>2, DurationAlwaysBounded, BoundsAlwaysAgree
  <2>3. Each("dates", LAMBDA ranges : UnionCountsMonths(ranges) /\ DurationBounded(ranges) /\ BoundsAgree(ranges))
    BY <2>1, <2>2 DEF Each, ResumeTaken
  <2>4. Each("resume", RedactionExact)
    BY <2>1, RedactedExactly, ResumesAssumption DEF Each, ResumeTaken
  <2> QED BY <2>3, <2>4 DEF ResumeRead
<1> QED BY <1>1, <1>2, <1>3, PTL DEF AnswersSpec

-----------------------------------------------------------------------------
(* The order of criteria *)

Triples == Nat \X Nat \X Nat

\* Of two places one is before the other.
LEMMA PlacesOrdered ==
  ASSUME NEW p \in Triples, NEW q \in Triples, NEW r \in Triples
  PROVE  /\ ~(PlaceBefore(p, q) /\ PlaceBefore(q, p))
         /\ p = q \/ PlaceBefore(p, q) \/ PlaceBefore(q, p)
         /\ PlaceBefore(p, q) /\ PlaceBefore(q, r) => PlaceBefore(p, r)
<1>1. /\ p = <<p[1], p[2], p[3]>> /\ q = <<q[1], q[2], q[3]>> /\ r = <<r[1], r[2], r[3]>>
      /\ p[1] \in Nat /\ p[2] \in Nat /\ p[3] \in Nat /\ q[1] \in Nat /\ q[2] \in Nat /\ q[3] \in Nat
      /\ r[1] \in Nat /\ r[2] \in Nat /\ r[3] \in Nat
  BY DEF Triples
<1>2. p[1] = q[1] /\ p[2] = q[2] /\ p[3] = q[3] => p = q
  BY <1>1
<1> QED BY <1>1, <1>2 DEF PlaceBefore

\* Among some places one is before all others.
LEMMA LeastPlace ==
  ASSUME NEW P \in SUBSET Triples, P # {}
  PROVE  \E p \in P : \A q \in P : ~PlaceBefore(q, p)
<1>0. \A p \in P : p[1] \in Nat /\ p[2] \in Nat /\ p[3] \in Nat
  BY DEF Triples
<1> DEFINE A == {p[1] : p \in P}
<1>1. A \in SUBSET Nat /\ A # {}
  BY <1>0
<1>2. PICK a \in A : \A m \in A : a <= m
  <2> HIDE DEF A
  <2> QED BY <1>1, LeastOf
<1> DEFINE P2 == {p \in P : p[1] = a}
           B == {p[2] : p \in P2}
<1>3. B \in SUBSET Nat /\ B # {}
  BY <1>0, <1>2
<1>4. PICK b \in B : \A m \in B : b <= m
  <2> HIDE DEF B
  <2> QED BY <1>3, LeastOf
<1> DEFINE P3 == {p \in P2 : p[2] = b}
           C == {p[3] : p \in P3}
<1>5. C \in SUBSET Nat /\ C # {}
  BY <1>0, <1>4
<1>6. PICK c \in C : \A m \in C : c <= m
  <2> HIDE DEF C
  <2> QED BY <1>5, LeastOf
<1>7. PICK p \in P : p[1] = a /\ p[2] = b /\ p[3] = c
  BY <1>6
<1>8. ASSUME NEW q \in P PROVE ~PlaceBefore(q, p)
  <2>1. a <= q[1] /\ (q[1] = a => b <= q[2]) /\ (q[1] = a /\ q[2] = b => c <= q[3])
    BY <1>2, <1>4, <1>6, <1>8
  <2>2. q[1] \in Nat /\ q[2] \in Nat /\ q[3] \in Nat /\ a \in Nat /\ b \in Nat /\ c \in Nat
    BY <1>0, <1>7, <1>8
  <2> HIDE DEF A, B, C, P2, P3
  <2> QED BY <1>7, <2>1, <2>2 DEF PlaceBefore
<1> QED BY <1>7, <1>8

\* A criterion whose quotes are found stands at one of their places.
LEMMA PlaceIs ==
  ASSUME NEW jd, IsJob(jd), NEW c \in Criteria, CriterionFormed(c), \A s \in Range(c.sources) : Located(s, jd)
  PROVE  Place(c, jd) \in Triples
<1> DEFINE P == {<<FieldOrder(s.field), Min(Locations(s, jd)), s.phrase.text>> : s \in Range(c.sources)}
<1>1. DOMAIN c.sources = 1..Len(c.sources) /\ Len(c.sources) \in Nat /\ c.sources # <<>> /\ c.sources \in Seq(Sources)
  BY DEF Criteria, CriterionFormed
<1>2. Range(c.sources) \subseteq Sources /\ Range(c.sources) # {}
  <2> DEFINE s == c.sources
  <2>1. s \in Seq(Sources) /\ DOMAIN s = 1..Len(s) /\ s # <<>> /\ Len(s) \in Nat
    BY <1>1
  <2> HIDE DEF s
  <2>2. \A i \in 1..Len(s) : s[i] \in Sources
    BY <2>1
  <2>3. Range(s) \subseteq Sources
    BY <2>1, <2>2 DEF Range
  <2>4. 1 \in DOMAIN s
    BY <2>1
  <2> QED BY <2>3, <2>4 DEF Range, s
<1>3. P \subseteq Triples
  <2>1. SUFFICES ASSUME NEW s \in Range(c.sources)
                 PROVE  FieldOrder(s.field) \in Nat /\ Min(Locations(s, jd)) \in Nat /\ s.phrase.text \in Nat
    BY DEF Triples
  <2>2. s \in Sources /\ Located(s, jd)
    BY <1>2
  <2>3. s.phrase.text \in Nat /\ s.field \in Range(Fields)
    BY <2>2 DEF Sources, Phrases
  <2>4. FieldOrder(s.field) \in Nat
    <3>1. \E i \in 1..3 : Fields[i] = s.field
      BY <2>3 DEF Fields, Range
    <3> QED BY <3>1 DEF FieldOrder
  <2>5. Min(Locations(s, jd)) \in Nat
    <3> DEFINE L == Locations(s, jd)
    <3>1. L \in SUBSET Nat /\ L # {}
      <4>1. Len(jd[s.field]) \in Nat
        BY <2>3 DEF IsJob
      <4> QED BY <2>2, <4>1 DEF Located, Locations
    <3> HIDE DEF L
    <3>2. PICK l \in L : \A m \in L : l <= m
      BY <3>1, LeastOf
    <3>3. Min(L) \in L
      BY <3>2 DEF Min
    <3> QED BY <3>1, <3>3 DEF L
  <2> QED BY <2>3, <2>4, <2>5
<1>4. P # {}
  BY <1>2
<1>5. Place(c, jd) = CHOOSE p \in P : \A q \in P : ~PlaceBefore(q, p)
  BY DEF Place
<1> HIDE DEF P
<1>6. PICK p \in P : \A q \in P : ~PlaceBefore(q, p)
  BY <1>3, <1>4, LeastPlace
<1>7. Place(c, jd) \in P
  BY <1>5, <1>6
<1> QED BY <1>3, <1>7

\* Of two criteria of C one stands before the other.
Orders(C, jd) ==
  /\ \A c, d \in C : ~(Before(c, d, jd) /\ Before(d, c, jd))
  /\ \A c, d \in C : c = d \/ Before(c, d, jd) \/ Before(d, c, jd)
  /\ \A c, d, e \in C : Before(c, d, jd) /\ Before(d, e, jd) => Before(c, e, jd)

\* Criteria whose quotes are found are ordered.
LEMMA BeforeOrders ==
  ASSUME NEW jd, IsJob(jd), NEW C \in SUBSET Criteria, Comparable(C),
         \A c \in C : CriterionFormed(c) /\ \A s \in Range(c.sources) : Located(s, jd)
  PROVE  Orders(C, jd)
<1>1. \A c \in C : Place(c, jd) \in Triples
  BY PlaceIs
<1>2. \A c \in C : c.name \in Nat
  BY DEF Criteria
<1>3. ASSUME NEW c \in C, NEW d \in C, NEW e \in C
      PROVE  /\ ~(Before(c, d, jd) /\ Before(d, c, jd))
             /\ c = d \/ Before(c, d, jd) \/ Before(d, c, jd)
             /\ Before(c, d, jd) /\ Before(d, e, jd) => Before(c, e, jd)
  <2> DEFINE p == Place(c, jd)
             q == Place(d, jd)
             r == Place(e, jd)
  <2>1. p \in Triples /\ q \in Triples /\ r \in Triples
    BY <1>1
  <2>2. c.name \in Nat /\ d.name \in Nat /\ e.name \in Nat
    BY <1>2
  <2>3. /\ ~(ContentBefore(c, d) /\ ContentBefore(d, c))
        /\ c = d \/ ContentBefore(c, d) \/ ContentBefore(d, c)
        /\ ContentBefore(c, d) /\ ContentBefore(d, e) => ContentBefore(c, e)
    BY DEF Comparable
  <2>4. /\ Before(c, d, jd) <=> PlaceBefore(p, q) \/ (p = q /\ (c.name < d.name \/ (c.name = d.name /\ ContentBefore(c, d))))
        /\ Before(d, c, jd) <=> PlaceBefore(q, p) \/ (q = p /\ (d.name < c.name \/ (d.name = c.name /\ ContentBefore(d, c))))
        /\ Before(d, e, jd) <=> PlaceBefore(q, r) \/ (q = r /\ (d.name < e.name \/ (d.name = e.name /\ ContentBefore(d, e))))
        /\ Before(c, e, jd) <=> PlaceBefore(p, r) \/ (p = r /\ (c.name < e.name \/ (c.name = e.name /\ ContentBefore(c, e))))
    BY DEF Before
  <2> HIDE DEF p, q, r
  <2>5. /\ ~(PlaceBefore(p, q) /\ PlaceBefore(q, p)) /\ ~PlaceBefore(p, p) /\ ~PlaceBefore(q, q)
        /\ p = q \/ PlaceBefore(p, q) \/ PlaceBefore(q, p)
        /\ PlaceBefore(p, q) /\ PlaceBefore(q, r) => PlaceBefore(p, r)
    BY <2>1, PlacesOrdered
  <2>6. ~(Before(c, d, jd) /\ Before(d, c, jd))
    BY <2>2, <2>3, <2>4, <2>5
  <2>7. c = d \/ Before(c, d, jd) \/ Before(d, c, jd)
    BY <2>2, <2>3, <2>4, <2>5
  <2>8. Before(c, d, jd) /\ Before(d, e, jd) => Before(c, e, jd)
    BY <2>2, <2>3, <2>4, <2>5
  <2> QED BY <2>6, <2>7, <2>8
<1> QED BY <1>3 DEF Orders

\* Criteria in their order, no one twice.
InOrder(s, jd) == \A i, j \in 1..Len(s) : i < j => Before(s[i], s[j], jd)

\* A part of 1..n that has all the numbers before each of its own.
LEMMA FirstOnes ==
  ASSUME NEW n \in Nat, NEW B \in SUBSET (1..n), \A i \in B : \A j \in 1..i : j \in B
  PROVE  Cardinality(B) \in 0..n /\ B = 1..Cardinality(B)
<1>1. \E k \in 0..n : B = 1..k
  <2>1. CASE B = {}
    BY <2>1
  <2>2. CASE B # {}
    <3>1. Max(B) \in B /\ \A i \in B : i <= Max(B)
      BY <2>2, LastIndex
    <3> DEFINE m == Max(B)
    <3>2. m \in 1..n /\ m \in B /\ \A i \in B : i <= m
      BY <3>1
    <3> HIDE DEF m
    <3>3. \A i : i \in B <=> i \in 1..m
      <4>1. ASSUME NEW i \in B PROVE i \in 1..m
        BY <3>2
      <4>2. ASSUME NEW i \in 1..m PROVE i \in B
        BY <3>2
      <4> QED BY <4>1, <4>2
    <3>4. B = 1..m
      BY <3>3
    <3> QED BY <3>2, <3>4
  <2> QED BY <2>1, <2>2
<1>2. PICK k \in 0..n : B = 1..k
  BY <1>1
<1>3. k \in Nat
  OBVIOUS
<1>4. Cardinality(1..k) = k
  <2>1. CASE k = 0
    BY <2>1, FS_EmptySet
  <2>2. CASE k # 0
    <3>1. Cardinality(1..k) = IF 1 > k THEN 0 ELSE k - 1 + 1
      BY <1>3, FS_Interval
    <3> QED BY <1>3, <2>2, <3>1
  <2> QED BY <2>1, <2>2
<1> QED BY <1>2, <1>4

\* Inserted puts a criterion where it belongs.
LEMMA InsertedIs ==
  ASSUME NEW jd, NEW C, Orders(C, jd), NEW s \in Seq(C), InOrder(s, jd), NEW c \in C
  PROVE  LET t == Inserted(s, c, jd)
         IN /\ t \in Seq(C) /\ InOrder(t, jd) /\ Range(t) = Range(s) \cup {c} /\ Len(t) <= Len(s) + 1
<1> DEFINE n == Len(s)
           B == {i \in 1..n : ~Before(c, s[i], jd)}
           k == Cardinality(B)
           t == InsertAt(s, 1 + k, c)
<1>1. n \in Nat /\ DOMAIN s = 1..n /\ \A i \in 1..n : s[i] \in C
  OBVIOUS
<1>2. CASE c \in Range(s)
  <2>1. Inserted(s, c, jd) = s
    BY <1>2 DEF Inserted
  <2>2. Range(s) \cup {c} = Range(s) /\ n <= n + 1
    BY <1>1, <1>2
  <2> QED BY <2>1, <2>2
<1>3. CASE c \notin Range(s)
  <2>1. Inserted(s, c, jd) = t
    <3> DEFINE b == Cardinality({i \in 1..Len(s) : ~Before(c, s[i], jd)})
    <3>1. Inserted(s, c, jd) = InsertAt(s, b + 1, c)
      BY <1>3 DEF Inserted
    <3>2. IsFiniteSet(B)
      <4>1. IsFiniteSet(1..n)
        <5> HIDE DEF n
        <5> QED BY <1>1, FS_Interval
      <4>2. B \in SUBSET (1..n)
        OBVIOUS
      <4> HIDE DEF B, n
      <4> QED BY <4>1, <4>2, FS_Subset
    <3>3. b \in Nat /\ k = b
      BY <3>2, FS_CardinalityType
    <3> HIDE DEF b
    <3>4. b + 1 = 1 + k
      BY <3>3
    <3> QED BY <3>1, <3>4
  <2>2. \A i \in B : \A j \in 1..i : j \in B
    <3>1. SUFFICES ASSUME NEW i \in B, NEW j \in 1..i, Before(c, s[j], jd) PROVE FALSE
      BY <1>1
    <3>2. i \in 1..n /\ j \in 1..n /\ ~Before(c, s[i], jd) /\ (j = i \/ j < i)
      BY <1>1
    <3>3. j < i /\ s[i] \in C /\ s[j] \in C
      BY <1>1, <3>1, <3>2
    <3>4. Before(s[j], s[i], jd)
      BY <3>2, <3>3 DEF InOrder
    <3> QED BY <3>1, <3>2, <3>3, <3>4 DEF Orders
  <2>3. k \in 0..n /\ B = 1..k
    <3>1. B \in SUBSET (1..n)
      OBVIOUS
    <3> HIDE DEF B
    <3> QED BY <1>1, <2>2, <3>1, FirstOnes
  <2>4. \A i \in 1..n : (i <= k => Before(s[i], c, jd)) /\ (k < i => Before(c, s[i], jd))
    <3>1. SUFFICES ASSUME NEW i \in 1..n PROVE (i <= k => Before(s[i], c, jd)) /\ (k < i => Before(c, s[i], jd))
      OBVIOUS
    <3>2. s[i] \in C /\ s[i] # c
      BY <1>1, <1>3 DEF Range
    <3>3. i <= k <=> i \in 1..k
      BY <2>3
    <3>4. i <= k <=> ~Before(c, s[i], jd)
      BY <2>3, <3>3
    <3>5. ~(i <= k) <=> k < i
      BY <1>1, <2>3
    <3> HIDE DEF k
    <3> QED BY <3>2, <3>4, <3>5 DEF Orders
  <2> HIDE DEF k
  <2>5. /\ t \in Seq(C) /\ Len(t) = n + 1
        /\ \A i \in 1..n + 1 : t[i] = IF i <= k THEN s[i] ELSE IF i = k + 1 THEN c ELSE s[i - 1]
    BY <2>3, InsertedAt
  <2> HIDE DEF t
  <2>6. InOrder(t, jd)
    <3>1. SUFFICES ASSUME NEW i \in 1..n + 1, NEW j \in 1..n + 1, i < j PROVE Before(t[i], t[j], jd)
      BY <2>5 DEF InOrder
    <3>2. k \in Nat /\ k <= n
      BY <1>1, <2>3
    <3>3. CASE j <= k
      <4>1. i \in 1..n /\ j \in 1..n /\ i <= k
        BY <1>1, <3>1, <3>2, <3>3
      <4> QED BY <2>5, <3>1, <3>3, <4>1 DEF InOrder
    <3>4. CASE j = k + 1
      <4>1. i \in 1..n /\ i <= k /\ ~(j <= k)
        BY <1>1, <3>1, <3>2, <3>4
      <4>2. t[i] = s[i] /\ t[j] = c
        BY <2>5, <3>4, <4>1
      <4> QED BY <2>4, <4>1, <4>2
    <3>5. CASE j > k + 1 /\ i = k + 1
      <4>1. j - 1 \in 1..n /\ k < j - 1 /\ ~(j <= k) /\ j # k + 1 /\ ~(i <= k)
        BY <1>1, <3>1, <3>2, <3>5
      <4>2. t[i] = c /\ t[j] = s[j - 1]
        BY <2>5, <3>5, <4>1
      <4> QED BY <2>4, <4>1, <4>2
    <3>6. CASE j > k + 1 /\ i <= k
      <4>1. j - 1 \in 1..n /\ ~(j <= k) /\ j # k + 1 /\ i < j - 1 /\ i \in 1..n
        BY <1>1, <3>1, <3>2, <3>6
      <4>2. t[i] = s[i] /\ t[j] = s[j - 1]
        BY <2>5, <3>6, <4>1
      <4> QED BY <4>1, <4>2 DEF InOrder
    <3>7. CASE j > k + 1 /\ i > k + 1
      <4>1. j - 1 \in 1..n /\ ~(j <= k) /\ j # k + 1 /\ i - 1 < j - 1 /\ i - 1 \in 1..n /\ ~(i <= k) /\ i # k + 1
        BY <1>1, <3>1, <3>2, <3>7
      <4>2. t[i] = s[i - 1] /\ t[j] = s[j - 1]
        BY <2>5, <4>1
      <4> QED BY <4>1, <4>2 DEF InOrder
    <3>8. j <= k \/ j = k + 1 \/ (j > k + 1 /\ (i = k + 1 \/ i <= k \/ i > k + 1))
      BY <3>2
    <3> QED BY <3>3, <3>4, <3>5, <3>6, <3>7, <3>8
  <2>7. Range(t) = Range(s) \cup {c}
    <3>1. DOMAIN t = 1..n + 1 /\ k \in Nat /\ k <= n
      BY <1>1, <2>3, <2>5
    <3>2. \A i \in 1..n + 1 : t[i] \in Range(s) \cup {c}
      <4>1. SUFFICES ASSUME NEW i \in 1..n + 1 PROVE t[i] \in Range(s) \cup {c}
        OBVIOUS
      <4>2. i <= k => i \in 1..n
        BY <1>1, <3>1
      <4>3. ~(i <= k) /\ i # k + 1 => i - 1 \in 1..n
        BY <1>1, <3>1
      <4>4. t[i] = IF i <= k THEN s[i] ELSE IF i = k + 1 THEN c ELSE s[i - 1]
        BY <2>5
      <4> QED BY <1>1, <4>2, <4>3, <4>4 DEF Range
    <3>3. \A i \in 1..n : s[i] \in Range(t)
      <4>1. SUFFICES ASSUME NEW i \in 1..n PROVE s[i] \in Range(t)
        OBVIOUS
      <4>2. CASE i <= k
        <5>1. i \in 1..n + 1 /\ t[i] = s[i]
          BY <1>1, <2>5, <4>2
        <5> QED BY <3>1, <5>1 DEF Range
      <4>3. CASE k < i
        <5>1. i + 1 \in 1..n + 1 /\ ~(i + 1 <= k) /\ i + 1 # k + 1 /\ (i + 1) - 1 = i
          BY <1>1, <3>1, <4>3
        <5>2. t[i + 1] = s[i]
          BY <2>5, <5>1
        <5> QED BY <3>1, <5>1, <5>2 DEF Range
      <4> QED BY <3>1, <4>2, <4>3
    <3>4. c \in Range(t)
      <4>1. k + 1 \in 1..n + 1 /\ ~(k + 1 <= k)
        BY <1>1, <3>1
      <4>2. t[k + 1] = c
        BY <2>5, <4>1
      <4> QED BY <3>1, <4>1, <4>2 DEF Range
    <3>5. Range(t) \subseteq Range(s) \cup {c}
      BY <3>1, <3>2 DEF Range
    <3>6. Range(s) \subseteq Range(t)
      BY <1>1, <3>3 DEF Range
    <3> QED BY <3>4, <3>5, <3>6
  <2>8. n + 1 <= n + 1
    BY <1>1
  <2> QED BY <2>1, <2>5, <2>6, <2>7, <2>8
<1> QED BY <1>2, <1>3

\* Two sequences of the same criteria, both in order, are the same.
LEMMA OneOrder ==
  ASSUME NEW jd, NEW C, Orders(C, jd), NEW s \in Seq(C), NEW t \in Seq(C), InOrder(s, jd), InOrder(t, jd),
         Range(s) \subseteq Range(t), Range(t) \subseteq Range(s)
  PROVE  \A i \in 1..Len(s) : i \in 1..Len(t) /\ s[i] = t[i]
<1> DEFINE W == {i \in 1..Len(s) : ~(i \in 1..Len(t) /\ s[i] = t[i])}
<1>1. Len(s) \in Nat /\ Len(t) \in Nat /\ DOMAIN s = 1..Len(s) /\ DOMAIN t = 1..Len(t)
      /\ (\A i \in 1..Len(s) : s[i] \in C) /\ (\A i \in 1..Len(t) : t[i] \in C)
  OBVIOUS
<1>2. SUFFICES ASSUME W # {} PROVE FALSE
  OBVIOUS
<1>3. W \in SUBSET Nat
  BY <1>1
<1>4. PICK i \in W : \A m \in W : i <= m
  <2> HIDE DEF W
  <2> QED BY <1>2, <1>3, LeastOf
<1>5. i \in 1..Len(s) /\ i \in Nat /\ ~(i \in 1..Len(t) /\ s[i] = t[i])
  BY <1>1
<1>6. \A j \in 1..i - 1 : j \in 1..Len(s) /\ j \in 1..Len(t) /\ s[j] = t[j]
  <2>1. \A j \in 1..i - 1 : j \in 1..Len(s) /\ ~(i <= j)
    BY <1>1, <1>5
  <2> QED BY <1>4, <2>1
<1>7. PICK k \in 1..Len(t) : t[k] = s[i]
  <2>1. s[i] \in Range(t)
    BY <1>1, <1>5 DEF Range
  <2> QED BY <1>1, <2>1 DEF Range
<1>8. ~(k < i)
  <2>1. SUFFICES ASSUME k < i PROVE FALSE
    OBVIOUS
  <2>2. k \in 1..i - 1
    BY <1>1, <1>5, <2>1
  <2>3. s[k] = s[i] /\ k \in 1..Len(s)
    BY <1>6, <1>7, <2>2
  <2>4. Before(s[k], s[i], jd)
    BY <1>5, <2>1, <2>3 DEF InOrder
  <2> QED BY <1>1, <1>5, <2>3, <2>4 DEF Orders
<1>9. i < k /\ i \in 1..Len(t)
  <2>1. k # i
    BY <1>5, <1>7
  <2> QED BY <1>1, <1>5, <1>7, <1>8, <2>1
<1>10. PICK l \in 1..Len(s) : s[l] = t[i]
  <2>1. t[i] \in Range(s)
    BY <1>1, <1>9 DEF Range
  <2> QED BY <1>1, <2>1 DEF Range
<1>11. ~(l < i)
  <2>1. SUFFICES ASSUME l < i PROVE FALSE
    OBVIOUS
  <2>2. l \in 1..i - 1
    BY <1>1, <1>5, <2>1
  <2>3. t[l] = t[i] /\ l \in 1..Len(t)
    BY <1>6, <1>10, <2>2
  <2>4. Before(t[l], t[i], jd)
    BY <1>9, <2>1, <2>3 DEF InOrder
  <2> QED BY <1>1, <1>9, <2>3, <2>4 DEF Orders
<1>12. i < l
  <2>1. l # i
    BY <1>5, <1>9, <1>10
  <2> QED BY <1>1, <1>5, <1>10, <1>11, <2>1
<1>13. Before(s[i], s[l], jd) /\ Before(t[i], t[k], jd)
  BY <1>5, <1>9, <1>12 DEF InOrder
<1> QED BY <1>1, <1>5, <1>7, <1>9, <1>10, <1>13 DEF Orders

\* The same criteria in order, from whichever answer, are the same sequence.
LEMMA SameOrder ==
  ASSUME NEW jd, NEW C, Orders(C, jd), NEW s \in Seq(C), NEW t \in Seq(C), InOrder(s, jd), InOrder(t, jd),
         Range(s) = Range(t)
  PROVE  s = t
<1>1. \A i \in 1..Len(s) : i \in 1..Len(t) /\ s[i] = t[i]
  BY OneOrder
<1>2. \A i \in 1..Len(t) : i \in 1..Len(s) /\ t[i] = s[i]
  BY OneOrder
<1>3. Len(s) \in Nat /\ Len(t) \in Nat
  OBVIOUS
<1>4. Len(s) <= Len(t)
  BY <1>1, <1>3
<1>5. Len(t) <= Len(s)
  BY <1>2, <1>3
<1>6. Len(s) = Len(t)
  BY <1>3, <1>4, <1>5
<1> QED BY <1>1, <1>6, SeqEqual

\* The criteria of an answer, in order.
LEMMA OrderedIs ==
  ASSUME NEW jd, NEW answer, NEW C, C = Range(answer), answer \in Seq(C), Orders(C, jd)
  PROVE  /\ Ordered(answer, jd) \in Seq(C) /\ InOrder(Ordered(answer, jd), jd)
         /\ Range(Ordered(answer, jd)) = C /\ Len(Ordered(answer, jd)) <= Len(answer)
<1> DEFINE n == Len(answer)
           I == 1..n
           A == {s \in Seq(C) : InOrder(s, jd)}
           step == [p \in I \X A |-> Inserted(p[2], answer[p[1]], jd)]
           Value(g, T) == IF T = {} THEN <<>> ELSE Inserted(g[T \ {Max(T)}], answer[Max(T)], jd)
           iter == CHOOSE h : h = [T \in SUBSET I |-> Value(h, T)]
<1>1. n \in Nat /\ DOMAIN answer = I /\ \A i \in I : answer[i] \in C
  OBVIOUS
<1>2. \A i \in I, s \in A : Inserted(s, answer[i], jd) \in A
  BY <1>1, InsertedIs
<1>3. \A T \in SUBSET I : T # {} => LastIn(n)[T] = Max(T) /\ Max(T) \in T
  BY <1>1, LastOfEach
<1>4. <<>> \in A
  <2>1. \A i \in 1..Len(<<>>) : FALSE
    OBVIOUS
  <2> QED BY <2>1 DEF InOrder
<1>5. \E g \in [SUBSET I -> A] : \A T \in SUBSET I : g[T] = Value(g, T)
  <2>1. step \in [I \X A -> A]
    BY <1>2
  <2>2. \A i \in I, s \in A : step[<<i, s>>] = Inserted(s, answer[i], jd)
    OBVIOUS
  <2> HIDE DEF step, A, n
  <2>3. PICK g \in [SUBSET I -> A] : Folded(g, I, LastIn(n), <<>>, step)
    BY <1>1, <1>4, <2>1, FoldOfSequence
  <2>4. \A T \in SUBSET I : g[T] = Value(g, T)
    BY <1>3, <2>2, <2>3 DEF Folded
  <2> QED BY <2>3, <2>4
<1>6. Ordered(answer, jd) = iter[I]
  BY <1>1 DEF Ordered, FoldLeft, MapThenFoldSet
<1>7. iter = [T \in SUBSET I |-> Value(iter, T)]
  <2> HIDE DEF Value
  <2>1. \E g : g = [T \in SUBSET I |-> Value(g, T)]
    BY <1>5
  <2> QED BY <2>1
<1> HIDE DEF iter
<1> DEFINE Taken(T) == {answer[i] : i \in T}
           Good == {T \in SUBSET I : /\ iter[T] \in Seq(C) /\ InOrder(iter[T], jd)
                                     /\ Range(iter[T]) = Taken(T) /\ Len(iter[T]) <= Cardinality(T)}
<1>8. \A T \in SUBSET I : IsFiniteSet(T) /\ Cardinality(T) \in Nat
  <2>1. IsFiniteSet(I)
    <3> HIDE DEF n
    <3> QED BY <1>1, FS_Interval
  <2> HIDE DEF I
  <2> QED BY <2>1, FS_Subset, FS_CardinalityType
<1>9. Good = SUBSET I
  <2>1. {} \in Good
    <3>1. iter[{}] = <<>>
      BY <1>7
    <3>2. Taken({}) = {} /\ Range(<<>>) = {} /\ Cardinality({}) = 0 /\ Len(<<>>) = 0
      BY FS_EmptySet DEF Range
    <3>3. <<>> \in Seq(C) /\ InOrder(<<>>, jd)
      BY <1>4
    <3>4. {} \in SUBSET I /\ 0 <= 0
      OBVIOUS
    <3> HIDE DEF Taken, I, A
    <3> QED BY <3>1, <3>2, <3>3, <3>4
  <2>2. ASSUME NEW T \in SUBSET I, T # {}, T \ {LastIn(n)[T]} \in Good PROVE T \in Good
    <3> DEFINE m == Max(T)
               R == T \ {m}
               s == iter[R]
    <3>1. m \in T /\ m \in I /\ R \in SUBSET I /\ R \in Good
      BY <1>3, <2>2
    <3>2. s \in Seq(C) /\ InOrder(s, jd) /\ Range(s) = Taken(R) /\ Len(s) <= Cardinality(R)
      BY <3>1
    <3>3. iter[T] = Inserted(s, answer[m], jd)
      BY <1>7, <2>2
    <3>4. answer[m] \in C
      BY <1>1, <3>1
    <3>5. Taken(T) = Taken(R) \cup {answer[m]}
      BY <3>1
    <3>6. Cardinality(R) = Cardinality(T) - 1
      <4>1. IsFiniteSet(T)
        BY <1>8
      <4> HIDE DEF m, I
      <4> QED BY <3>1, <4>1, OneLess
    <3>7. Cardinality(R) \in Nat /\ Cardinality(T) \in Nat /\ Len(s) \in Nat
      <4>1. R \in SUBSET I
        BY <3>1
      <4>2. Len(s) \in Nat
        <5>1. s \in Seq(C)
          BY <3>2
        <5> HIDE DEF s
        <5> QED BY <5>1
      <4> HIDE DEF R, s, I
      <4> QED BY <1>8, <4>1, <4>2
    <3> DEFINE t == iter[T]
    <3> HIDE DEF s, R, m, Taken
    <3>8. t \in Seq(C) /\ InOrder(t, jd) /\ Range(t) = Range(s) \cup {answer[m]} /\ Len(t) <= Len(s) + 1
      <4> DEFINE e == answer[m]
      <4>1. e \in C
        BY <3>4
      <4>2. s \in Seq(C) /\ InOrder(s, jd) /\ t = Inserted(s, e, jd)
        BY <3>2, <3>3
      <4> HIDE DEF e, t
      <4>3. t \in Seq(C) /\ InOrder(t, jd) /\ Range(t) = Range(s) \cup {e} /\ Len(t) <= Len(s) + 1
        BY <4>1, <4>2, InsertedIs
      <4> QED BY <4>3 DEF e
    <3>9. Len(t) \in Nat
      <4> HIDE DEF t
      <4> QED BY <3>8
    <3>10. Len(t) <= Cardinality(T)
      <4> HIDE DEF t
      <4> QED BY <3>2, <3>6, <3>7, <3>8, <3>9
    <3>11. Range(t) = Taken(T)
      <4> HIDE DEF t
      <4> QED BY <3>2, <3>5, <3>8
    <3> QED BY <2>2, <3>8, <3>10, <3>11
  <2>3. Good \in SUBSET (SUBSET I)
    OBVIOUS
  <2> HIDE DEF Good, n
  <2>4. Grows(Good, 1..n, LastIn(n))
    BY <2>1, <2>2, <2>3 DEF Grows
  <2> QED BY <1>1, <2>3, <2>4, Indices
<1>10. /\ iter[I] \in Seq(C) /\ InOrder(iter[I], jd)
       /\ Range(iter[I]) = Taken(I) /\ Len(iter[I]) <= Cardinality(I)
  <2>1. I \in Good
    <3> HIDE DEF Good
    <3> QED BY <1>9
  <2> QED BY <2>1
<1>11. Taken(I) = C
  BY <1>1 DEF Range
<1>12. Cardinality(I) = n
  <2>1. \A i \in I : \A j \in 1..i : j \in I
    BY <1>1
  <2> HIDE DEF n
  <2>2. Cardinality(I) \in 0..n /\ I = 1..Cardinality(I)
    BY <1>1, <2>1, FirstOnes
  <2> DEFINE c == Cardinality(I)
  <2>3. c \in 0..n /\ 1..n = 1..c
    BY <2>2
  <2> HIDE DEF c
  <2>4. c = n
    <3>1. CASE n = 0
      BY <2>3, <3>1
    <3>2. CASE n # 0
      <4>1. n \in 1..c
        BY <1>1, <2>3, <3>2
      <4> QED BY <1>1, <2>3, <4>1
    <3> QED BY <3>1, <3>2
  <2> QED BY <2>4 DEF c
<1> QED BY <1>6, <1>10, <1>11, <1>12

-----------------------------------------------------------------------------
(* The plan made of an answer *)

\* What is checked of each criterion before a plan is made.
LEMMA AcceptedIs ==
  ASSUME NEW jd, NEW c, Refusal(c, jd) = "none"
  PROVE  /\ CriterionFormed(c) /\ \A s \in Range(c.sources) : Located(s, jd)
         /\ c.claim \notin {"duration", "pollution", "sensitive", "decision"}
BY DEF Refusal

\* An answer of which a plan is made.
Accepted(answer, jd) ==
  /\ answer # <<>> /\ Len(answer) <= MaxCriteria
  /\ \A i \in 1..Len(answer) : Refusal(answer[i], jd) = "none"

\* A plan is made of an answer exactly when each of its criteria is accepted.
LEMMA PlanIs ==
  ASSUME NEW jd, NEW S, NEW answer \in Seq(S)
  PROVE  /\ Plan(answer, jd).error = "none" <=> Accepted(answer, jd)
         /\ Accepted(answer, jd) =>
              Plan(answer, jd) = [error |-> "none", criteria |-> Ordered(answer, jd),
                                  warnings |-> Warnings(Ordered(answer, jd), {})]
         /\ ~Accepted(answer, jd) => Plan(answer, jd).criteria = <<>>
<1> DEFINE refused == {i \in 1..Len(answer) : Refusal(answer[i], jd) # "none"}
           plan == [error |-> "none", criteria |-> Ordered(answer, jd), warnings |-> Warnings(Ordered(answer, jd), {})]
<1>1. Plan(answer, jd) =
        IF answer = <<>> THEN Refused("NO_CRITERIA")
        ELSE IF Len(answer) > MaxCriteria THEN Refused("TOO_MANY_CRITERIA")
        ELSE IF refused # {} THEN Refused(Refusal(answer[Min(refused)], jd)) ELSE plan
  BY DEF Plan
<1>2. \A code : Refused(code).error = code /\ Refused(code).criteria = <<>>
  BY DEF Refused
<1>3. plan.error = "none"
  OBVIOUS
<1>4. Len(answer) \in Nat /\ MaxCriteria \in Nat
  BY LimitsAssumption
<1>5. ASSUME refused # {} PROVE Refusal(answer[Min(refused)], jd) # "none"
  <2>1. refused \in SUBSET Nat
    OBVIOUS
  <2>2. Min(refused) \in refused
    <3> HIDE DEF refused
    <3>1. PICK i \in refused : \A j \in refused : i <= j
      BY <1>5, <2>1, LeastOf
    <3> QED BY <3>1 DEF Min
  <2> QED BY <2>2
<1>6. refused = {} <=> \A i \in 1..Len(answer) : Refusal(answer[i], jd) = "none"
  OBVIOUS
<1> HIDE DEF refused, plan
<1>7. CASE Accepted(answer, jd)
  <2>1. Plan(answer, jd) = plan
    BY <1>1, <1>4, <1>6, <1>7 DEF Accepted
  <2> QED BY <1>3, <1>7, <2>1 DEF plan
<1>8. CASE ~Accepted(answer, jd)
  <2>1. \E code : code # "none" /\ Plan(answer, jd) = Refused(code)
    <3>1. CASE answer = <<>>
      BY <1>1, <3>1
    <3>2. CASE answer # <<>> /\ Len(answer) > MaxCriteria
      BY <1>1, <3>2
    <3>3. CASE answer # <<>> /\ Len(answer) <= MaxCriteria
      <4>1. refused # {}
        BY <1>6, <1>8, <3>3 DEF Accepted
      <4>2. ~(Len(answer) > MaxCriteria)
        BY <1>4, <3>3
      <4> QED BY <1>1, <1>5, <3>3, <4>1, <4>2
    <3> QED BY <1>4, <3>1, <3>2, <3>3
  <2> QED BY <1>2, <1>8, <2>1
<1> QED BY <1>7, <1>8

\* The criteria of an answer that is accepted are ordered.
LEMMA AcceptedOrders ==
  ASSUME NEW jd, IsJob(jd), NEW answer \in Seq(Criteria), Comparable(Range(answer)), Accepted(answer, jd)
  PROVE  Orders(Range(answer), jd) /\ answer \in Seq(Range(answer)) /\ Range(answer) \in SUBSET Criteria
<1>1. Range(answer) \in SUBSET Criteria
  BY RangeOfSeq DEF Range
<1>2. answer \in Seq(Range(answer))
  BY SeqOfRange DEF Range
<1>3. \A c \in Range(answer) : Refusal(c, jd) = "none"
  <2>1. DOMAIN answer = 1..Len(answer)
    OBVIOUS
  <2> QED BY <2>1 DEF Accepted, Range
<1>4. \A c \in Range(answer) : CriterionFormed(c) /\ \A s \in Range(c.sources) : Located(s, jd)
  BY <1>3, AcceptedIs
<1>5. Orders(Range(answer), jd)
  BY <1>1, <1>4, BeforeOrders
<1> QED BY <1>1, <1>2, <1>5

\* Two answers with the same criteria make the same plan, whatever their order.
LEMMA SameCriteria ==
  ASSUME NEW jd, IsJob(jd), NEW answer \in Seq(Criteria), Comparable(Range(answer)), Accepted(answer, jd),
         NEW other \in Seq(Criteria), Range(other) = Range(answer), Len(other) <= MaxCriteria
  PROVE  Plan(other, jd) = Plan(answer, jd)
<1> DEFINE C == Range(answer)
<1>1. Orders(C, jd) /\ answer \in Seq(C)
  BY AcceptedOrders
<1>2. Accepted(other, jd)
  <2>1. DOMAIN answer = 1..Len(answer) /\ DOMAIN other = 1..Len(other)
    OBVIOUS
  <2>2. \A c \in Range(answer) : Refusal(c, jd) = "none"
    BY <2>1 DEF Accepted, Range
  <2>3. \A i \in 1..Len(other) : Refusal(other[i], jd) = "none"
    BY <2>1, <2>2 DEF Range
  <2>4. other # <<>>
    <3>1. Range(<<>>) = {}
      BY DEF Range
    <3>2. Len(answer) # 0 /\ Len(answer) \in Nat
      BY DEF Accepted
    <3>3. Range(answer) # {}
      <4>1. 1 \in 1..Len(answer)
        BY <3>2
      <4> QED BY <2>1, <4>1 DEF Range
    <3> QED BY <3>1, <3>3
  <2> QED BY <2>3, <2>4 DEF Accepted
<1>3. other \in Seq(C)
  <2>1. other \in Seq(Range(other))
    BY SeqOfRange DEF Range
  <2> QED BY <2>1
<1> HIDE DEF C
<1>4. C = Range(answer) /\ C = Range(other)
  BY DEF C
<1>5. Ordered(answer, jd) \in Seq(C) /\ InOrder(Ordered(answer, jd), jd) /\ Range(Ordered(answer, jd)) = C
  BY <1>1, <1>4, OrderedIs
<1>6. Ordered(other, jd) \in Seq(C) /\ InOrder(Ordered(other, jd), jd) /\ Range(Ordered(other, jd)) = C
  BY <1>1, <1>3, <1>4, OrderedIs
<1>7. Ordered(other, jd) = Ordered(answer, jd)
  <2> DEFINE s == Ordered(other, jd)
             t == Ordered(answer, jd)
  <2>1. s \in Seq(C) /\ t \in Seq(C) /\ InOrder(s, jd) /\ InOrder(t, jd) /\ Range(s) = Range(t)
    BY <1>5, <1>6
  <2> HIDE DEF s, t
  <2>2. s = t
    BY <1>1, <2>1, SameOrder
  <2> QED BY <2>2 DEF s, t
<1>8. /\ Plan(answer, jd) = [error |-> "none", criteria |-> Ordered(answer, jd),
                             warnings |-> Warnings(Ordered(answer, jd), {})]
      /\ Plan(other, jd) = [error |-> "none", criteria |-> Ordered(other, jd),
                            warnings |-> Warnings(Ordered(other, jd), {})]
  BY <1>2, PlanIs
<1> QED BY <1>7, <1>8

\* The order and the repetitions of an answer leave no trace in the plan.
LEMMA OrderIgnored ==
  ASSUME NEW jd, IsJob(jd), NEW answer \in Seq(Criteria), Comparable(Range(answer))
  PROVE  PlanIgnoresOrder(answer, jd)
<1> DEFINE n == Len(answer)
<1>1. SUFFICES ASSUME Plan(answer, jd).error = "none"
               PROVE  /\ \A i, j \in 1..n : Plan([answer EXCEPT ![i] = answer[j], ![j] = answer[i]], jd) = Plan(answer, jd)
                      /\ n < MaxCriteria => \A i \in 1..n : Plan(Append(answer, answer[i]), jd) = Plan(answer, jd)
  BY DEF PlanIgnoresOrder
<1>2. Accepted(answer, jd)
  BY <1>1, PlanIs
<1>3. n \in Nat /\ n <= MaxCriteria /\ DOMAIN answer = 1..n /\ MaxCriteria \in Nat /\ \A i \in 1..n : answer[i] \in Criteria
  BY <1>2, LimitsAssumption DEF Accepted
<1>4. ASSUME NEW i \in 1..n, NEW j \in 1..n
      PROVE  Plan([answer EXCEPT ![i] = answer[j], ![j] = answer[i]], jd) = Plan(answer, jd)
  <2> DEFINE other == [answer EXCEPT ![i] = answer[j], ![j] = answer[i]]
  <2>1. /\ other \in Seq(Criteria) /\ Len(other) = n /\ DOMAIN other = 1..n
        /\ \A k \in 1..n : other[k] = IF k = j THEN answer[i] ELSE IF k = i THEN answer[j] ELSE answer[k]
    BY <1>3
  <2> HIDE DEF other, n
  <2>2. Range(other) \subseteq Range(answer)
    BY <1>3, <2>1 DEF Range
  <2>3. Range(answer) \subseteq Range(other)
    <3>1. SUFFICES ASSUME NEW k \in 1..n PROVE answer[k] \in Range(other)
      BY <1>3 DEF Range
    <3>2. \E l \in 1..n : other[l] = answer[k]
      <4>1. CASE k = i
        BY <2>1, <4>1
      <4>2. CASE k = j
        <5>1. CASE i = j
          BY <2>1, <4>2, <5>1
        <5>2. CASE i # j
          BY <2>1, <4>2, <5>2
        <5> QED BY <5>1, <5>2
      <4>3. CASE k # i /\ k # j
        BY <2>1, <4>3
      <4> QED BY <4>1, <4>2, <4>3
    <3> QED BY <2>1, <3>2 DEF Range
  <2>4. Plan(other, jd) = Plan(answer, jd)
    <3>1. Range(other) = Range(answer)
      BY <2>2, <2>3
    <3>2. other \in Seq(Criteria) /\ Len(other) <= MaxCriteria
      BY <1>3, <2>1
    <3> QED BY <1>2, <3>1, <3>2, SameCriteria
  <2> QED BY <2>4 DEF other
<1>5. ASSUME n < MaxCriteria, NEW i \in 1..n PROVE Plan(Append(answer, answer[i]), jd) = Plan(answer, jd)
  <2> DEFINE e == answer[i]
             other == Append(answer, e)
  <2>1. e \in Criteria /\ e \in Range(answer)
    BY <1>3 DEF Range
  <2> HIDE DEF e
  <2>2. other \in Seq(Criteria) /\ Len(other) = n + 1 /\ DOMAIN other = 1..n + 1
        /\ other[n + 1] = e /\ \A k \in 1..n : other[k] = answer[k]
    BY <2>1
  <2> HIDE DEF other, n
  <2>3. \A k \in 1..n + 1 : k \in 1..n \/ k = n + 1
    BY <1>3
  <2>4. 1..n \subseteq 1..n + 1
    BY <1>3
  <2>5. Range(other) = Range(answer)
    <3>1. Range(other) \subseteq Range(answer)
      <4>1. \A k \in 1..n + 1 : other[k] \in Range(answer)
        BY <1>3, <2>1, <2>2, <2>3 DEF Range
      <4> QED BY <2>2, <4>1 DEF Range
    <3>2. Range(answer) \subseteq Range(other)
      BY <1>3, <2>2, <2>4 DEF Range
    <3> QED BY <3>1, <3>2
  <2>6. n + 1 <= MaxCriteria
    BY <1>3, <1>5
  <2>7. Plan(other, jd) = Plan(answer, jd)
    BY <1>2, <2>2, <2>5, <2>6, SameCriteria
  <2> QED BY <2>7 DEF other, e
<1> QED BY <1>4, <1>5

\* A screening takes the plan, which has each criterion of the answer once.
LEMMA UsableAfterAll ==
  ASSUME NEW jd, IsJob(jd), NEW answer \in Seq(Criteria), Comparable(Range(answer))
  PROVE  PlanUsable(answer, jd)
<1> DEFINE C == Range(answer)
           s == Ordered(answer, jd)
<1>1. SUFFICES ASSUME Plan(answer, jd).error = "none"
               PROVE  ScreeningTakes(s, jd) /\ IsInjective(s) /\ Range(s) = C
  <2>1. Plan(answer, jd).error = "none" => Plan(answer, jd).criteria = s
    <3>1. Plan(answer, jd).error = "none" =>
            Plan(answer, jd) = [error |-> "none", criteria |-> s, warnings |-> Warnings(s, {})]
      BY PlanIs
    <3> QED BY <3>1
  <2> QED BY <2>1 DEF PlanUsable
<1>2. Accepted(answer, jd)
  BY <1>1, PlanIs
<1>3. Orders(C, jd) /\ answer \in Seq(C) /\ C \in SUBSET Criteria
  BY <1>2, AcceptedOrders
<1>4. s \in Seq(C) /\ InOrder(s, jd) /\ Range(s) = C /\ Len(s) <= Len(answer)
  <2> DEFINE D == C
  <2>1. D = Range(answer) /\ Orders(D, jd) /\ answer \in Seq(D)
    BY <1>3
  <2> HIDE DEF D
  <2>2. s \in Seq(D) /\ InOrder(s, jd) /\ Range(s) = D /\ Len(s) <= Len(answer)
    BY <2>1, OrderedIs
  <2> QED BY <2>1, <2>2
<1> HIDE DEF s
<1>5. DOMAIN s = 1..Len(s) /\ Len(s) \in Nat /\ \A i \in 1..Len(s) : s[i] \in C
  BY <1>4
<1>6. IsInjective(s)
  <2>1. ASSUME NEW i \in 1..Len(s), NEW j \in 1..Len(s), s[i] = s[j], i < j PROVE FALSE
    <3>1. Before(s[i], s[j], jd)
      BY <1>4, <2>1 DEF InOrder
    <3> QED BY <1>3, <1>5, <2>1, <3>1 DEF Orders
  <2>2. \A i, j \in 1..Len(s) : s[i] = s[j] => i = j
    <3>1. SUFFICES ASSUME NEW i \in 1..Len(s), NEW j \in 1..Len(s), s[i] = s[j], i # j PROVE FALSE
      OBVIOUS
    <3>2. i < j \/ j < i
      BY <1>5, <3>1
    <3> QED BY <2>1, <3>1, <3>2
  <2> QED BY <1>5, <2>2 DEF IsInjective
<1>7. ScreeningTakes(s, jd)
  <2>1. Len(s) \in 1..MaxCriteria
    <3>1. s # <<>>
      <4>1. DOMAIN answer = 1..Len(answer) /\ Len(answer) \in Nat /\ Len(answer) # 0
        BY <1>2 DEF Accepted
      <4>2. 1 \in 1..Len(answer)
        BY <4>1
      <4>3. C # {}
        BY <4>1, <4>2 DEF Range
      <4>4. Range(<<>>) = {}
        BY DEF Range
      <4> HIDE DEF C
      <4> QED BY <1>4, <4>3, <4>4
    <3>2. Len(s) # 0 /\ Len(answer) \in Nat /\ MaxCriteria \in Nat
      BY <1>4, <3>1, LimitsAssumption
    <3>3. Len(answer) <= MaxCriteria
      BY <1>2 DEF Accepted
    <3> QED BY <1>4, <1>5, <3>2, <3>3
  <2>2. ASSUME NEW c \in Range(s), NEW q \in Range(c.sources) PROVE q.phrase \in Range(jd[q.field])
    <3>1. c \in Range(answer) /\ DOMAIN answer = 1..Len(answer)
      BY <1>4
    <3>2. Refusal(c, jd) = "none" /\ c \in Criteria
      BY <1>2, <1>3, <3>1 DEF Accepted, Range
    <3>3. Located(q, jd)
      BY <3>2, AcceptedIs
    <3>4. PICK i \in 1..Len(jd[q.field]) : jd[q.field][i] = q.phrase
      BY <3>3 DEF Located, Locations
    <3>5. q.field \in Range(Fields)
      <4>1. c.sources \in Seq(Sources)
        BY <3>2 DEF Criteria
      <4>2. q \in Sources
        <5> DEFINE w == c.sources
        <5>1. w \in Seq(Sources) /\ q \in Range(w)
          BY <4>1
        <5> HIDE DEF w
        <5>2. DOMAIN w = 1..Len(w) /\ \A l \in 1..Len(w) : w[l] \in Sources
          BY <5>1
        <5> QED BY <5>1, <5>2 DEF Range
      <4> QED BY <4>2 DEF Sources
    <3>6. DOMAIN jd[q.field] = 1..Len(jd[q.field])
      <4>1. jd[q.field] \in Seq(Phrases)
        BY <3>5 DEF IsJob
      <4> QED BY <4>1
    <3> QED BY <3>4, <3>6 DEF Range
  <2> QED BY <2>1, <2>2 DEF ScreeningTakes
<1> QED BY <1>4, <1>6, <1>7

\* A criterion whose importance the warnings do not ask about.
Agrees(c) ==
  LET signalled == {s \in Signals(c) : s.phrase.strong \/ s.phrase.weak}
      Home == [required |-> "requirements", preferred |-> "preferred"]
  IN /\ c.importance = "general" <=> signalled = {}
     /\ \A s \in signalled : s.field = Home[c.importance] /\ (s.phrase.strong <=> c.importance = "required")

\* Without a reason to review its importance, a criterion agrees with its quotes.
LEMMA NoReasonAgrees ==
  ASSUME NEW c \in Criteria, ImportanceReasons(c) = {}
  PROVE  Agrees(c)
<1>1. \A s \in Signals(c) : s.field \in {"responsibilities", "requirements", "preferred"}
                          /\ s.phrase.strong \in BOOLEAN /\ s.phrase.weak \in BOOLEAN
  <2> DEFINE w == c.sources
  <2>1. w \in Seq(Sources)
    BY DEF Criteria
  <2> HIDE DEF w
  <2>2. \A i \in 1..Len(w) : w[i] \in Sources
    BY <2>1
  <2>3. \A s \in Signals(c) : s \in Sources
    BY <2>2 DEF Signals, w
  <2>4. Range(Fields) = {"responsibilities", "requirements", "preferred"}
    BY DEF Range, Fields
  <2> QED BY <2>3, <2>4 DEF Sources, Phrases
<1>2. c.importance \in {"required", "preferred", "general"}
  BY DEF Criteria
<1> DEFINE strong == \E s \in Signals(c) : s.phrase.strong
           weak == \E s \in Signals(c) : s.phrase.weak
<1>3. /\ ~(strong /\ weak) /\ (strong => c.importance = "required") /\ (weak => c.importance = "preferred")
      /\ (~strong /\ ~weak => c.importance = "general")
      /\ \A s \in Signals(c) : ~FieldMismatch(s)
  BY DEF ImportanceReasons
<1>4. ASSUME NEW s \in Signals(c), s.phrase.strong \/ s.phrase.weak
      PROVE  /\ c.importance = IF s.phrase.strong THEN "required" ELSE "preferred"
             /\ s.field = IF s.phrase.strong THEN "requirements" ELSE "preferred"
  <2>1. s.phrase.strong \/ s.phrase.weak
    BY <1>4
  <2>2. ~(s.phrase.strong /\ s.phrase.weak)
    BY <1>3
  <2>3. ~FieldMismatch(s)
    BY <1>3
  <2>4. CASE s.phrase.strong
    <3>1. c.importance = "required"
      BY <1>3, <2>4
    <3>2. s.phrase.strong # s.phrase.weak /\ ~s.phrase.weak
      BY <1>1, <2>2, <2>4
    <3>3. s.field # "responsibilities" /\ s.field # "preferred"
      BY <2>3, <2>4, <3>2 DEF FieldMismatch
    <3> QED BY <1>1, <2>4, <3>1, <3>3
  <2>5. CASE ~s.phrase.strong
    <3>1. c.importance = "preferred"
      BY <1>3, <2>1, <2>5
    <3>2. s.phrase.strong # s.phrase.weak /\ s.phrase.weak
      BY <1>1, <2>1, <2>5
    <3>3. s.field # "responsibilities" /\ s.field # "requirements"
      BY <2>3, <3>2 DEF FieldMismatch
    <3> QED BY <1>1, <2>5, <3>1, <3>3
  <2> QED BY <2>4, <2>5
<1>5. c.importance = "general" <=> {s \in Signals(c) : s.phrase.strong \/ s.phrase.weak} = {}
  BY <1>3, <1>4
<1>6. ASSUME NEW s \in Signals(c), s.phrase.strong \/ s.phrase.weak
      PROVE  /\ s.field = [required |-> "requirements", preferred |-> "preferred"][c.importance]
             /\ s.phrase.strong <=> c.importance = "required"
  BY <1>4, <1>6
<1> QED BY <1>5, <1>6 DEF Agrees

\* A criterion that HR is not asked to review is as important as its quotes say.
LEMMA UnreviewedAfterAll ==
  ASSUME NEW jd, IsJob(jd), NEW answer \in Seq(Criteria), Comparable(Range(answer))
  PROVE  UnreviewedAgrees(answer, jd)
<1> DEFINE plan == Plan(answer, jd)
           s == Ordered(answer, jd)
<1>1. SUFFICES ASSUME NEW i \in 1..Len(plan.criteria), <<"IMPORTANCE", i>> \notin plan.warnings
               PROVE  Agrees(plan.criteria[i])
  BY DEF UnreviewedAgrees, Agrees
<1>2. Accepted(answer, jd)
  <2>1. SUFFICES ASSUME ~Accepted(answer, jd) PROVE FALSE
    OBVIOUS
  <2>2. plan.criteria = <<>>
    BY <2>1, PlanIs
  <2>3. 1..Len(<<>>) = {}
    OBVIOUS
  <2> HIDE DEF plan
  <2> QED BY <1>1, <2>2, <2>3
<1>3. plan.criteria = s /\ plan.warnings = Warnings(s, {})
  <2>1. plan = [error |-> "none", criteria |-> s, warnings |-> Warnings(s, {})]
    BY <1>2, PlanIs
  <2> QED BY <2>1
<1>4. s \in Seq(Criteria)
  <2> DEFINE D == Range(answer)
  <2>1. D = Range(answer) /\ Orders(D, jd) /\ answer \in Seq(D) /\ D \in SUBSET Criteria
    BY <1>2, AcceptedOrders
  <2> HIDE DEF D
  <2>2. s \in Seq(D)
    BY <2>1, OrderedIs
  <2> HIDE DEF s
  <2> QED BY <2>1, <2>2, SeqMonotonic
<1> HIDE DEF s, plan
<1>5. i \in 1..Len(s) /\ <<"IMPORTANCE", i>> \notin Warnings(s, {})
  BY <1>1, <1>3
<1>6. ImportanceReasons(s[i]) = {}
  BY <1>5 DEF Warnings
<1>7. s[i] \in Criteria
  BY <1>4, <1>5
<1> QED BY <1>3, <1>6, <1>7, NoReasonAgrees

-----------------------------------------------------------------------------
(* HR's items *)

\* No two items have the same identifier, other than that of new ones.
IdsDistinct(items) == \A i, j \in Old(items) : items[i].id = items[j].id => i = j

\* A sequence, as the function that it is.
LEMMA AsListed ==
  ASSUME NEW S, NEW s \in Seq(S)
  PROVE  s = [i \in 1..Len(s) |-> s[i]]
OBVIOUS

\* The parts of an item.
LEMMA ItemIs ==
  ASSUME NEW items \in Seq(Items)
  PROVE  /\ Len(items) \in Nat /\ DOMAIN items = 1..Len(items)
         /\ \A i \in 1..Len(items) : items[i] \in Items /\ items[i].id \in Nat /\ items[i].shown \in Criteria
<1>1. Len(items) \in Nat /\ DOMAIN items = 1..Len(items) /\ \A i \in 1..Len(items) : items[i] \in Items
  OBVIOUS
<1> QED BY <1>1 DEF Items

\* A list is distinct when it has as many identifiers as old items.
LEMMA DistinctIs ==
  ASSUME NEW items \in Seq(Items)
  PROVE  Cardinality(ItemIds(items)) = Cardinality(Old(items)) <=> IdsDistinct(items)
<1> DEFINE S == Old(items)
           T == ItemIds(items)
           f == [i \in S |-> items[i].id]
           n == Len(items)
<1>1. n \in Nat
  OBVIOUS
<1>2. S \subseteq 1..n /\ T = {f[i] : i \in S}
  BY DEF Old, ItemIds
<1>3. IsFiniteSet(S)
  <2>1. IsFiniteSet(1..n)
    <3> HIDE DEF n
    <3> QED BY <1>1, FS_Interval
  <2> HIDE DEF n, S
  <2> QED BY <1>2, <2>1, FS_Subset
<1>4. f \in [S -> T] /\ \A t \in T : \E i \in S : f[i] = t
  BY <1>2
<1>5. f \in Surjection(S, T)
  <2> HIDE DEF f, S, T
  <2> QED BY <1>4 DEF Surjection
<1>6. Cardinality(T) = Cardinality(S) <=> f \in Injection(S, T)
  <2> HIDE DEF f, S, T
  <2> QED BY <1>3, <1>5, FS_Surjection
<1>7. f \in Injection(S, T) <=> \A i, j \in S : f[i] = f[j] => i = j
  <2> HIDE DEF f, S, T
  <2> QED BY <1>4 DEF Injection, IsInjective
<1>8. (\A i, j \in S : f[i] = f[j] => i = j) <=> IdsDistinct(items)
  BY DEF IdsDistinct
<1> QED BY <1>6, <1>7, <1>8

\* A request that is saved, and what becomes of it.
Saves(draft, current, used, jd) ==
  /\ RequestFormed(draft) /\ ItemIds(draft) \subseteq ItemIds(current) /\ Unnumbered(draft, used) = {}
  /\ \A i \in 1..Len(draft) : HrRefusal(draft[i], jd) = "none"

Shown(items) == [i \in 1..Len(items) |-> items[i].shown]
AddedIn(items) == {i \in 1..Len(items) : items[i].origin = "hr_added"}

\* A draft is stored exactly when nothing of it is refused.
LEMMA SavedIs ==
  ASSUME NEW draft \in Seq(Items), NEW current, NEW used, NEW jd
  PROVE  /\ Saved(draft, current, used, jd).error = "none" => Saves(draft, current, used, jd)
         /\ Saves(draft, current, used, jd) =>
              Saved(draft, current, used, jd) =
                [error |-> "none", items |-> Numbered(draft, used),
                 warnings |-> Warnings(Shown(Numbered(draft, used)), AddedIn(Numbered(draft, used)))]
<1> DEFINE items == Numbered(draft, used)
           refused == {i \in 1..Len(draft) : HrRefusal(draft[i], jd) # "none"}
           beyond == Unnumbered(draft, used)
           first == Min(refused \cup beyond)
           Error(code) == [error |-> code, items |-> current, warnings |-> {}]
           saved == [error |-> "none", items |-> items, warnings |-> Warnings(Shown(items), AddedIn(items))]
           formed == RequestFormed(draft)
           known == ItemIds(draft) \subseteq ItemIds(current)
<1>1. Saved(draft, current, used, jd) =
        IF ~formed THEN Error("INVALID_REQUEST")
        ELSE IF ~known THEN Error("UNKNOWN_CRITERION")
        ELSE IF refused \cup beyond # {} THEN Error(IF first \in beyond THEN "ID_LIMIT" ELSE HrRefusal(draft[first], jd))
        ELSE saved
  BY DEF Saved, Shown, AddedIn
<1>2. \A code : Error(code).error = code
  OBVIOUS
<1>3. ASSUME refused \cup beyond # {}
      PROVE  (IF first \in beyond THEN "ID_LIMIT" ELSE HrRefusal(draft[first], jd)) # "none"
  <2> DEFINE both == refused \cup beyond
  <2>1. both \in SUBSET Nat
    BY DEF Unnumbered
  <2>2. Min(both) \in both
    <3> HIDE DEF both
    <3>1. PICK i \in both : \A j \in both : i <= j
      BY <1>3, <2>1, LeastOf DEF both
    <3> QED BY <3>1 DEF Min
  <2>3. first \in refused \/ first \in beyond
    BY <2>2
  <2>4. \A i \in refused : HrRefusal(draft[i], jd) # "none"
    OBVIOUS
  <2> HIDE DEF refused, beyond, first, both
  <2> QED BY <2>3, <2>4
<1>4. refused = {} <=> \A i \in 1..Len(draft) : HrRefusal(draft[i], jd) = "none"
  OBVIOUS
<1>5. Saves(draft, current, used, jd) <=> formed /\ known /\ refused \cup beyond = {}
  BY <1>4 DEF Saves
<1> HIDE DEF Error, refused, beyond, first, saved, formed, known
<1>6. Saves(draft, current, used, jd) => Saved(draft, current, used, jd) = saved
  BY <1>1, <1>5
<1>7. ~Saves(draft, current, used, jd) => Saved(draft, current, used, jd).error # "none"
  <2>1. CASE ~formed
    BY <1>1, <1>2, <2>1
  <2>2. CASE formed /\ ~known
    BY <1>1, <1>2, <2>2
  <2>3. CASE formed /\ known /\ refused \cup beyond # {}
    BY <1>1, <1>2, <1>3, <2>3
  <2> QED BY <1>5, <2>1, <2>2, <2>3
<1> QED BY <1>6, <1>7 DEF saved

\* Items that all have identifiers are stored as they are.
LEMMA NumberedOld ==
  ASSUME NEW items \in Seq(Items), NEW used, \A i \in 1..Len(items) : items[i].id # 0
  PROVE  Numbered(items, used) = items /\ Unnumbered(items, used) = {}
<1>1. DOMAIN items = 1..Len(items)
  OBVIOUS
<1>2. Numbered(items, used) = [i \in 1..Len(items) |-> items[i]]
  BY DEF Numbered
<1>3. Unnumbered(items, used) = {}
  BY DEF Unnumbered
<1> QED BY <1>1, <1>2, <1>3

\* What HR may save of an item.
LEMMA HrRefusalNone ==
  ASSUME NEW item \in Items, NEW jd
  PROVE  HrRefusal(item, jd) = "none" =>
           /\ item.shown.claim # "duration" /\ (item.origin = "ai_from_jd" => Refusal(item.shown, jd) = "none")
BY DEF HrRefusal

\* What a screening takes of the items that are saved.
LEMMA PhraseTaken ==
  ASSUME NEW jd, IsJob(jd), NEW c \in Criteria, Refusal(c, jd) = "none"
  PROVE  \A q \in Range(c.sources) : q.phrase \in Range(jd[q.field])
<1> SUFFICES ASSUME NEW q \in Range(c.sources) PROVE q.phrase \in Range(jd[q.field])
  OBVIOUS
<1>1. Located(q, jd)
  BY AcceptedIs
<1>2. PICK i \in 1..Len(jd[q.field]) : jd[q.field][i] = q.phrase
  BY <1>1 DEF Located, Locations
<1>3. q.field \in Range(Fields)
  <2> DEFINE w == c.sources
  <2>1. w \in Seq(Sources) /\ q \in Range(w)
    BY DEF Criteria
  <2> HIDE DEF w
  <2>2. DOMAIN w = 1..Len(w) /\ \A l \in 1..Len(w) : w[l] \in Sources
    BY <2>1
  <2> QED BY <2>1, <2>2 DEF Range, Sources
<1>4. DOMAIN jd[q.field] = 1..Len(jd[q.field])
  <2>1. jd[q.field] \in Seq(Phrases)
    BY <1>3 DEF IsJob
  <2> QED BY <2>1
<1> QED BY <1>2, <1>4 DEF Range

\* A plan that was generated can be saved as it is, with the same warnings.
LEMMA EditableAfterAll ==
  ASSUME NEW jd, IsJob(jd), NEW answer \in Seq(Criteria), Comparable(Range(answer))
  PROVE  PlanEditable(answer, jd)
<1> DEFINE s == Ordered(answer, jd)
           n == Len(s)
           items == Generated5(s)
<1>1. SUFFICES ASSUME Accepted(answer, jd)
               PROVE  Saved(items, items, 1..Len(items), jd) = [error |-> "none", items |-> items, warnings |-> Warnings(s, {})]
  <2>1. Plan(answer, jd).error = "none" => Accepted(answer, jd)
    BY PlanIs
  <2>2. Accepted(answer, jd) => Plan(answer, jd) = [error |-> "none", criteria |-> s, warnings |-> Warnings(s, {})]
    BY PlanIs
  <2> QED BY <2>1, <2>2 DEF PlanEditable
<1>2. s \in Seq(Criteria) /\ Range(s) = Range(answer)
  <2> DEFINE D == Range(answer)
  <2>1. D = Range(answer) /\ Orders(D, jd) /\ answer \in Seq(D) /\ D \in SUBSET Criteria
    BY <1>1, AcceptedOrders
  <2> HIDE DEF D
  <2>2. s \in Seq(D) /\ Range(s) = D
    BY <2>1, OrderedIs
  <2> HIDE DEF s
  <2> QED BY <2>1, <2>2, SeqMonotonic
<1>3. n \in 1..MaxCriteria
  <2>1. PlanUsable(answer, jd)
    BY UsableAfterAll
  <2>2. ScreeningTakes(s, jd)
    <3>1. Plan(answer, jd) = [error |-> "none", criteria |-> s, warnings |-> Warnings(s, {})]
      BY <1>1, PlanIs
    <3> QED BY <2>1, <3>1 DEF PlanUsable
  <2> QED BY <2>2 DEF ScreeningTakes
<1> HIDE DEF s
<1>4. n \in Nat /\ DOMAIN s = 1..n /\ \A i \in 1..n : s[i] \in Criteria
  BY <1>2
<1>5. \A i \in 1..n : Refusal(s[i], jd) = "none"
  <2>1. \A i \in 1..n : s[i] \in Range(answer)
    <3>1. \A i \in 1..n : s[i] \in Range(s)
      BY <1>4 DEF Range
    <3> QED BY <1>2, <3>1
  <2>2. \A c \in Range(answer) : Refusal(c, jd) = "none"
    <3>1. DOMAIN answer = 1..Len(answer)
      OBVIOUS
    <3> QED BY <1>1, <3>1 DEF Accepted, Range
  <2> QED BY <2>1, <2>2
<1>6. /\ DOMAIN items = 1..n /\ Len(items) = n
      /\ \A i \in 1..n : items[i] = [id |-> i, origin |-> "ai_from_jd", note |-> "none", shown |-> s[i]]
  BY <1>4 DEF Generated5
<1>7. items \in Seq(Items)
  <2>1. \A i \in 1..n : [id |-> i, origin |-> "ai_from_jd", note |-> "none", shown |-> s[i]] \in Items
    <3> SUFFICES ASSUME NEW i \in 1..n
                 PROVE  [id |-> i, origin |-> "ai_from_jd", note |-> "none", shown |-> s[i]] \in Items
      OBVIOUS
    <3>1. i \in Nat /\ s[i] \in Criteria
      BY <1>4
    <3> DEFINE c == s[i]
    <3> HIDE DEF c, n
    <3>2. c \in Criteria /\ i \in Nat
      BY <3>1 DEF c
    <3>3. [id |-> i, origin |-> "ai_from_jd", note |-> "none", shown |-> c] \in Items
      BY <3>2 DEF Items, Claimed
    <3> QED BY <3>3 DEF c
  <2>2. items \in [1..n -> Items]
    BY <2>1 DEF Generated5
  <2> QED BY <1>4, <2>2
<1> HIDE DEF items
<1>8. \A i \in 1..n : items[i].id = i /\ items[i].origin = "ai_from_jd" /\ items[i].note = "none" /\ items[i].shown = s[i]
  BY <1>6
<1>10. Numbered(items, 1..Len(items)) = items /\ Unnumbered(items, 1..Len(items)) = {}
  <2>1. \A i \in 1..Len(items) : items[i].id # 0
    BY <1>4, <1>6, <1>8
  <2> QED BY <1>7, <2>1, NumberedOld
<1>9. Saves(items, items, 1..Len(items), jd)
  <2>1. RequestFormed(items)
    <3>1. \A i \in 1..n : DraftFormed(items[i])
      <4> SUFFICES ASSUME NEW i \in 1..n PROVE DraftFormed(items[i])
        OBVIOUS
      <4>1. CriterionFormed(s[i])
        BY <1>4, <1>5, AcceptedIs
      <4>2. i # 0
        BY <1>4
      <4> QED BY <1>8, <4>1, <4>2 DEF DraftFormed, CriterionFormed
    <3>2. IdsDistinct(items)
      BY <1>6, <1>8 DEF IdsDistinct, Old
    <3>3. Cardinality(ItemIds(items)) = Cardinality(Old(items))
      BY <1>7, <3>2, DistinctIs
    <3> QED BY <1>3, <1>6, <3>1, <3>3 DEF RequestFormed
  <2>2. \A i \in 1..n : HrRefusal(items[i], jd) = "none"
    <3> SUFFICES ASSUME NEW i \in 1..n PROVE HrRefusal(items[i], jd) = "none"
      OBVIOUS
    <3>1. Refusal(s[i], jd) = "none" /\ items[i].shown = s[i] /\ items[i].note = "none"
      BY <1>5, <1>8
    <3>2. s[i].claim \notin {"duration", "pollution", "sensitive", "decision"}
      BY <3>1 DEF Refusal
    <3>3. {items[i].shown.claim, items[i].note} \cap {"pollution", "sensitive", "decision"} = {}
      BY <3>1, <3>2
    <3> QED BY <3>1, <3>2, <3>3 DEF HrRefusal
  <2>3. Unnumbered(items, 1..Len(items)) = {}
    BY <1>10
  <2> QED BY <1>6, <2>1, <2>2, <2>3 DEF Saves
<1>11. Shown(items) = s
  <2>1. Shown(items) = [i \in 1..n |-> items[i].shown]
    BY <1>6 DEF Shown
  <2>2. s = [i \in 1..n |-> s[i]]
    BY <1>2, AsListed
  <2> HIDE DEF n
  <2> QED BY <1>8, <2>1, <2>2
<1>12. AddedIn(items) = {}
  BY <1>6, <1>8 DEF AddedIn
<1>13. LET t == Numbered(items, 1..Len(items))
       IN Saved(items, items, 1..Len(items), jd) = [error |-> "none", items |-> t, warnings |-> Warnings(Shown(t), AddedIn(t))]
  BY <1>7, <1>9, SavedIs
<1> QED BY <1>10, <1>11, <1>12, <1>13

\* A finite set of numbers has a greatest one, with 0 at least.
LEMMA GreatestOf ==
  ASSUME NEW S \in SUBSET Nat, IsFiniteSet(S)
  PROVE  Max(S \cup {0}) \in Nat /\ \A x \in S : x <= Max(S \cup {0})
<1> DEFINE last == [T \in (SUBSET S) \ {{}} |-> CHOOSE x \in T : TRUE]
           Good == {T \in SUBSET S : \E m \in Nat : \A x \in T : x <= m}
<1>1. Chooses(last, S)
  <2>1. \A T \in (SUBSET S) \ {{}} : last[T] \in T /\ last[T] \in S
    OBVIOUS
  <2>2. last \in [(SUBSET S) \ {{}} -> S]
    BY <2>1
  <2> HIDE DEF last
  <2> QED BY <2>1, <2>2 DEF Chooses
<1>2. {} \in Good
  OBVIOUS
<1>3. ASSUME NEW T \in SUBSET S, T # {}, T \ {last[T]} \in Good PROVE T \in Good
  <2> DEFINE a == last[T]
  <2>1. a \in T /\ a \in Nat
    BY <1>1, <1>3 DEF Chooses
  <2>2. PICK m \in Nat : \A x \in T \ {a} : x <= m
    BY <1>3
  <2> HIDE DEF a
  <2>3. \A x \in T : x <= m + a
    <3> SUFFICES ASSUME NEW x \in T PROVE x <= m + a
      OBVIOUS
    <3>1. x \in Nat
      OBVIOUS
    <3>2. CASE x = a
      BY <2>1, <3>1, <3>2
    <3>3. CASE x # a
      <4>1. x <= m
        BY <2>2, <3>3
      <4> QED BY <2>1, <3>1, <4>1
    <3> QED BY <3>2, <3>3
  <2>4. m + a \in Nat
    BY <2>1
  <2> QED BY <2>3, <2>4
<1>4. Good = SUBSET S
  <2>1. Good \in SUBSET (SUBSET S)
    OBVIOUS
  <2> HIDE DEF Good, last
  <2>2. Grows(Good, S, last)
    BY <1>2, <1>3, <2>1 DEF Grows
  <2> QED BY <1>1, <2>1, <2>2, Parts
<1>5. PICK m \in Nat : \A x \in S : x <= m
  <2>1. S \in Good
    BY <1>4
  <2> QED BY <2>1
<1> DEFINE B == S \cup {0}
           D == {m - x : x \in B}
<1>6. \A x \in B : x \in Nat /\ x <= m
  BY <1>5
<1>7. D \in SUBSET Nat /\ D # {}
  <2>1. \A x \in B : m - x \in Nat
    BY <1>6
  <2>2. 0 \in B
    OBVIOUS
  <2> QED BY <2>1, <2>2
<1>8. PICK d \in D : \A e \in D : d <= e
  <2> HIDE DEF D
  <2> QED BY <1>7, LeastOf
<1>9. PICK a \in B : d = m - a
  OBVIOUS
<1>10. \A x \in B : x <= a
  <2> SUFFICES ASSUME NEW x \in B PROVE x <= a
    OBVIOUS
  <2>1. m - a <= m - x
    BY <1>8, <1>9
  <2> QED BY <1>6, <2>1
<1> HIDE DEF B
<1>11. Max(B) \in B /\ \A x \in B : x <= Max(B)
  BY <1>10 DEF Max
<1> QED BY <1>6, <1>11 DEF B

\* How many items up to the i-th are new.
NewUpTo(draft, i) == Cardinality({j \in 1..i : draft[j].id = 0})

\* Of two new items, the later has more new ones up to it.
LEMMA NewOnes ==
  ASSUME NEW draft, NEW i \in Nat, NEW j \in Nat, i < j, draft[j].id = 0
  PROVE  NewUpTo(draft, i) \in Nat /\ NewUpTo(draft, j) \in Nat /\ NewUpTo(draft, i) < NewUpTo(draft, j)
<1> DEFINE A == {k \in 1..i : draft[k].id = 0}
           B == {k \in 1..j : draft[k].id = 0}
<1>1. A \subseteq B /\ j \in B /\ j \notin A
  OBVIOUS
<1>2. IsFiniteSet(B)
  <2>1. IsFiniteSet(1..j) /\ B \subseteq 1..j
    BY FS_Interval
  <2> HIDE DEF B
  <2> QED BY <2>1, FS_Subset
<1>3. Cardinality(B) \in Nat /\ Cardinality(A) \in Nat /\ Cardinality(A) < Cardinality(B)
  <2> HIDE DEF A, B
  <2>1. IsFiniteSet(A) /\ Cardinality(A) <= Cardinality(B) /\ (Cardinality(B) = Cardinality(A) => B = A)
    BY <1>1, <1>2, FS_Subset
  <2>2. Cardinality(A) \in Nat /\ Cardinality(B) \in Nat
    BY <1>2, <2>1, FS_CardinalityType
  <2> QED BY <1>1, <2>1, <2>2
<1> QED BY <1>3 DEF NewUpTo

\* What numbering changes of an item.
Renumbered(s, t, i) == t[i].origin = s[i].origin /\ t[i].note = s[i].note /\ t[i].shown = s[i].shown

\* Numbering keeps the items, and gives new ones numbers behind those in use.
LEMMA NumberedIs ==
  ASSUME NEW draft \in Seq(Items), NEW used \in SUBSET Nat, IsFiniteSet(used),
         IdsDistinct(draft), ItemIds(draft) \subseteq used
  PROVE  LET t == Numbered(draft, used)
         IN /\ t \in Seq(Items) /\ Len(t) = Len(draft)
            /\ \A i \in 1..Len(draft) :
                 /\ t[i].id # 0 /\ Renumbered(draft, t, i)
                 /\ IF draft[i].id # 0 THEN t[i] = draft[i] ELSE t[i].id \notin used
            /\ \A i, j \in 1..Len(draft) : t[i].id = t[j].id => i = j
<1> DEFINE n == Len(draft)
           top == Max(used \cup {0})
           t == Numbered(draft, used)
           Behind(i) == top + NewUpTo(draft, i)
<1>1. n \in Nat /\ DOMAIN draft = 1..n /\ \A i \in 1..n : draft[i] \in Items /\ draft[i].id \in Nat
  BY ItemIs
<1>2. top \in Nat /\ \A u \in used : u <= top
  BY GreatestOf
<1>3. t = [i \in 1..n |-> IF draft[i].id # 0 THEN draft[i] ELSE [draft[i] EXCEPT !.id = Behind(i)]]
  BY DEF Numbered, NewUpTo
<1> HIDE DEF top, t
<1>4. \A j \in 1..n : draft[j].id = 0 => NewUpTo(draft, j) \in Nat /\ NewUpTo(draft, j) > 0
  <2> SUFFICES ASSUME NEW j \in 1..n, draft[j].id = 0 PROVE NewUpTo(draft, j) \in Nat /\ NewUpTo(draft, j) > 0
    OBVIOUS
  <2>1. 0 \in Nat /\ j \in Nat /\ 0 < j
    BY <1>1
  <2>2. NewUpTo(draft, 0) \in Nat /\ NewUpTo(draft, j) \in Nat /\ NewUpTo(draft, 0) < NewUpTo(draft, j)
    BY <2>1, NewOnes
  <2> QED BY <2>2
<1>5. \A i \in 1..n : draft[i].id = 0 => Behind(i) \in Nat /\ Behind(i) > top
  BY <1>2, <1>4
<1>6. \A i, j \in 1..n : draft[i].id = 0 /\ draft[j].id = 0 /\ i < j => Behind(i) # Behind(j)
  <2> SUFFICES ASSUME NEW i \in 1..n, NEW j \in 1..n, draft[i].id = 0, draft[j].id = 0, i < j
               PROVE  Behind(i) # Behind(j)
    OBVIOUS
  <2>1. i \in Nat /\ j \in Nat
    BY <1>1
  <2>2. NewUpTo(draft, i) \in Nat /\ NewUpTo(draft, j) \in Nat /\ NewUpTo(draft, i) < NewUpTo(draft, j)
    BY <2>1, NewOnes
  <2> QED BY <1>2, <2>2
<1> HIDE DEF Behind
<1>7. ASSUME NEW i \in 1..n, draft[i].id # 0
      PROVE  t[i] = draft[i] /\ draft[i].id \in used
  <2>1. draft[i].id \in ItemIds(draft)
    BY <1>7 DEF ItemIds
  <2> QED BY <1>3, <1>7, <2>1
<1>8. ASSUME NEW i \in 1..n, draft[i].id = 0
      PROVE  /\ t[i].id = Behind(i) /\ Renumbered(draft, t, i) /\ t[i] \in Items
  <2> DEFINE d == draft[i]
             b == Behind(i)
  <2>1. t[i] = [d EXCEPT !.id = b] /\ d \in Items /\ b \in Nat
    BY <1>1, <1>3, <1>5, <1>8
  <2> HIDE DEF d, b
  <2>2. t[i].id = b /\ t[i].origin = d.origin /\ t[i].note = d.note /\ t[i].shown = d.shown /\ t[i] \in Items
    BY <2>1 DEF Items
  <2> QED BY <2>2 DEF d, b, Renumbered
<1>9. t \in Seq(Items) /\ Len(t) = n
  <2>1. \A i \in 1..n : t[i] \in Items
    BY <1>1, <1>7, <1>8
  <2>2. DOMAIN t = 1..n /\ t = [i \in 1..n |-> t[i]]
    BY <1>3
  <2>3. t \in [1..n -> Items]
    BY <2>1, <2>2
  <2> HIDE DEF n
  <2> QED BY <1>1, <2>3
<1>10. \A i \in 1..n : /\ t[i].id # 0 /\ Renumbered(draft, t, i)
                       /\ IF draft[i].id # 0 THEN t[i] = draft[i] ELSE t[i].id \notin used
  <2> SUFFICES ASSUME NEW i \in 1..n
               PROVE  /\ t[i].id # 0 /\ Renumbered(draft, t, i)
                      /\ IF draft[i].id # 0 THEN t[i] = draft[i] ELSE t[i].id \notin used
    OBVIOUS
  <2>1. CASE draft[i].id # 0
    BY <1>7, <2>1 DEF Renumbered
  <2>2. CASE draft[i].id = 0
    <3>1. Behind(i) \in Nat /\ Behind(i) > top
      BY <1>5, <2>2
    <3>2. Behind(i) \notin used /\ Behind(i) # 0
      BY <1>2, <3>1
    <3> QED BY <1>8, <2>2, <3>2
  <2> QED BY <2>1, <2>2
<1>11. \A i, j \in 1..n : t[i].id = t[j].id => i = j
  <2> SUFFICES ASSUME NEW i \in 1..n, NEW j \in 1..n, t[i].id = t[j].id, i # j PROVE FALSE
    OBVIOUS
  <2>1. CASE draft[i].id # 0 /\ draft[j].id # 0
    BY <1>7, <2>1 DEF IdsDistinct, Old
  <2>2. CASE draft[i].id # 0 /\ draft[j].id = 0
    BY <1>7, <1>10, <2>2
  <2>3. CASE draft[i].id = 0 /\ draft[j].id # 0
    BY <1>7, <1>10, <2>3
  <2>4. CASE draft[i].id = 0 /\ draft[j].id = 0
    <3>1. Behind(i) = Behind(j)
      BY <1>8, <2>4
    <3>2. i < j \/ j < i
      BY <1>1
    <3> QED BY <1>6, <2>4, <3>1, <3>2
  <2> QED BY <2>1, <2>2, <2>3, <2>4
<1> QED BY <1>9, <1>10, <1>11 DEF t

\* The criterion and the origin of an item.
LEMMA FieldsOfItem ==
  ASSUME NEW item \in Items
  PROVE  item.shown \in Criteria /\ item.origin \in {"ai_from_jd", "hr_added"}
BY DEF Items

\* What HR saves, a screening takes and HR can save again, under identifiers of its own.
LEMMA DraftAfterAll ==
  ASSUME NEW draft \in Seq(Items), NEW current, NEW used \in SUBSET Nat, IsFiniteSet(used),
         ItemIds(current) \subseteq used, used \subseteq 1..MaxNumber, NEW jd, IsJob(jd)
  PROVE  DraftUsable(draft, current, used, jd)
<1> DEFINE n == Len(draft)
           t == Numbered(draft, used)
           saved == [error |-> "none", items |-> t, warnings |-> Warnings(Shown(t), AddedIn(t))]
<1>1. Saved(draft, current, used, jd).error = "none" =>
        Saves(draft, current, used, jd) /\ Saved(draft, current, used, jd) = saved
  BY SavedIs
<1>2. SUFFICES ASSUME Saves(draft, current, used, jd)
               PROVE  /\ ScreeningTakes(Shown(t), jd)
                      /\ IsInjective([i \in 1..Len(t) |-> t[i].id])
                      /\ \A i \in 1..Len(t) : IF draft[i].id = 0 THEN t[i].id \notin used ELSE t[i] = draft[i]
                      /\ \A i \in 1..Len(t) : t[i].id <= MaxNumber
                      /\ Saved(t, t, used \cup ItemIds(t), jd) = saved
  <2> HIDE DEF t
  <2>1. saved.items = t
    OBVIOUS
  <2> HIDE DEF saved
  <2> QED BY <1>1, <2>1 DEF DraftUsable, Shown
<1>3. /\ n \in 1..MaxCriteria /\ n \in Nat /\ \A i \in 1..n : draft[i] \in Items /\ DraftFormed(draft[i])
      /\ \A i \in 1..n : HrRefusal(draft[i], jd) = "none"
  BY <1>2 DEF Saves, RequestFormed
<1>4. IdsDistinct(draft)
  BY <1>2, DistinctIs DEF Saves, RequestFormed
<1>5. /\ t \in Seq(Items) /\ Len(t) = n
      /\ \A i \in 1..n :
           /\ t[i].id # 0 /\ Renumbered(draft, t, i)
           /\ IF draft[i].id # 0 THEN t[i] = draft[i] ELSE t[i].id \notin used
      /\ \A i, j \in 1..n : t[i].id = t[j].id => i = j
  <2>1. ItemIds(draft) \subseteq used
    BY <1>2 DEF Saves
  <2> QED BY <1>4, <2>1, NumberedIs
<1>13. \A i \in 1..n : t[i].id <= MaxNumber
  <2> SUFFICES ASSUME NEW i \in 1..n PROVE t[i].id <= MaxNumber
    OBVIOUS
  <2>1. t[i].id \in Nat /\ MaxNumber \in Nat
    BY <1>3, <1>5, ItemIs, LimitsAssumption
  <2>2. CASE draft[i].id # 0
    <3>1. draft[i].id \in ItemIds(draft)
      BY <2>2 DEF ItemIds
    <3> QED BY <1>2, <1>5, <2>2, <3>1 DEF Saves
  <2>3. CASE draft[i].id = 0
    <3>1. ~(t[i].id > MaxNumber)
      BY <1>2, <2>3 DEF Saves, Unnumbered
    <3> HIDE DEF t
    <3> QED BY <2>1, <3>1
  <2> QED BY <2>2, <2>3
<1> HIDE DEF t
<1>6. \A i \in 1..n : t[i] \in Items
  BY <1>3, <1>5
<1>7. IsInjective([i \in 1..Len(t) |-> t[i].id])
  BY <1>5 DEF IsInjective
<1>8. \A i \in 1..n : /\ DraftFormed(t[i]) /\ HrRefusal(t[i], jd) = "none"
  <2> SUFFICES ASSUME NEW i \in 1..n PROVE DraftFormed(t[i]) /\ HrRefusal(t[i], jd) = "none"
    OBVIOUS
  <2>1. t[i].id # 0 /\ t[i].origin = draft[i].origin /\ t[i].note = draft[i].note /\ t[i].shown = draft[i].shown
    BY <1>5 DEF Renumbered
  <2>2. DraftFormed(draft[i]) /\ HrRefusal(draft[i], jd) = "none"
    BY <1>3
  <2>3. DraftFormed(t[i])
    BY <2>1, <2>2 DEF DraftFormed
  <2>4. HrRefusal(t[i], jd) = "none"
    BY <2>1, <2>2 DEF HrRefusal
  <2> QED BY <2>3, <2>4
<1>9. ScreeningTakes(Shown(t), jd)
  <2> DEFINE s == Shown(t)
  <2>1. s = [i \in 1..n |-> t[i].shown]
    BY <1>5 DEF Shown
  <2> HIDE DEF s
  <2>2. DOMAIN s = 1..n /\ Len(s) = n
    BY <1>3, <2>1
  <2>3. ASSUME NEW c \in Range(s), NEW q \in Range(c.sources) PROVE q.phrase \in Range(jd[q.field])
    <3>1. PICK i \in 1..n : c = s[i]
      BY <2>2, <2>3 DEF Range
    <3>2. c = t[i].shown
      BY <2>1, <3>1
    <3>3. t[i] \in Items /\ c \in Criteria /\ t[i].origin \in {"ai_from_jd", "hr_added"}
      BY <1>6, <3>2, FieldsOfItem
    <3>4. DraftFormed(t[i]) /\ HrRefusal(t[i], jd) = "none"
      BY <1>8
    <3>5. t[i].origin = "ai_from_jd"
      <4>1. ASSUME t[i].origin = "hr_added" PROVE FALSE
        <5>1. c.sources = <<>>
          BY <3>2, <3>4, <4>1 DEF DraftFormed
        <5>2. Range(<<>>) = {}
          BY DEF Range
        <5> QED BY <2>3, <5>1, <5>2
      <4> QED BY <3>3, <4>1
    <3>6. Refusal(c, jd) = "none"
      BY <3>2, <3>3, <3>4, <3>5, HrRefusalNone
    <3> QED BY <2>3, <3>3, <3>6, PhraseTaken
  <2> QED BY <1>3, <2>2, <2>3 DEF ScreeningTakes, s
<1>11. Numbered(t, used \cup ItemIds(t)) = t /\ Unnumbered(t, used \cup ItemIds(t)) = {}
  BY <1>5, NumberedOld
<1>10. Saves(t, t, used \cup ItemIds(t), jd)
  <2>1. IdsDistinct(t)
    BY <1>5 DEF IdsDistinct, Old
  <2>2. Cardinality(ItemIds(t)) = Cardinality(Old(t))
    BY <1>5, <2>1, DistinctIs
  <2> QED BY <1>3, <1>5, <1>8, <1>11, <2>2 DEF Saves, RequestFormed
<1>12. LET w == Numbered(t, used \cup ItemIds(t))
       IN Saved(t, t, used \cup ItemIds(t), jd) = [error |-> "none", items |-> w, warnings |-> Warnings(Shown(w), AddedIn(w))]
  BY <1>5, <1>10, SavedIs, ZenonT(60)
<1> QED BY <1>5, <1>7, <1>9, <1>11, <1>12, <1>13

-----------------------------------------------------------------------------
(* Edits *)

\* What is kept of the items in T.
ItemsKept(out, items, ids, T) ==
  /\ IdsDistinct(out)
  /\ \A k \in 1..Len(out) : out[k].id \notin ids /\ \E j \in T : out[k] = items[j]

\* One item more is read.
LEMMA KeptMore ==
  ASSUME NEW items \in Seq(Items), IdsDistinct(items), NEW ids, NEW R \in SUBSET (1..Len(items)),
         NEW m \in 1..Len(items), m \notin R, NEW s \in Seq(Items), ItemsKept(s, items, ids, R),
         items[m].id \notin ids
  PROVE  Append(s, items[m]) \in Seq(Items) /\ ItemsKept(Append(s, items[m]), items, ids, R \cup {m})
<1> DEFINE e == items[m]
           t == Append(s, e)
           n == Len(s)
<1>1. e \in Items
  OBVIOUS
<1>2. /\ t \in Seq(Items) /\ n \in Nat /\ Len(t) = n + 1 /\ t[n + 1] = e /\ \A k \in 1..n : t[k] = s[k]
      /\ \A k \in 1..n + 1 : k \in 1..n \/ k = n + 1
  <2> HIDE DEF e
  <2> QED BY <1>1
<1> HIDE DEF t, n
<1>3. \A k \in 1..n : s[k].id \notin ids /\ \E j \in R : s[k] = items[j]
  BY DEF ItemsKept, n
<1>4. ASSUME NEW k \in 1..n, s[k].id = e.id, e.id # 0 PROVE FALSE
  <2>1. PICK j \in R : s[k] = items[j]
    BY <1>3
  <2>2. j \in 1..Len(items) /\ items[j].id = items[m].id /\ items[m].id # 0
    BY <1>4, <2>1
  <2>3. j = m
    <3>1. j \in Old(items) /\ m \in Old(items)
      BY <2>2 DEF Old
    <3> QED BY <2>2, <3>1 DEF IdsDistinct
  <2> QED BY <2>3
<1>5. IdsDistinct(t)
  <2> SUFFICES ASSUME NEW i \in 1..n + 1, NEW j \in 1..n + 1, t[i].id # 0, t[j].id # 0, t[i].id = t[j].id PROVE i = j
    BY <1>2 DEF IdsDistinct, Old
  <2>1. CASE i \in 1..n /\ j \in 1..n
    <3>1. s[i].id # 0 /\ s[j].id # 0 /\ s[i].id = s[j].id
      BY <1>2, <2>1
    <3>2. IdsDistinct(s) /\ n = Len(s)
      BY DEF ItemsKept, n
    <3> QED BY <2>1, <3>1, <3>2 DEF IdsDistinct, Old
  <2>2. CASE i = n + 1 /\ j \in 1..n
    BY <1>2, <1>4, <2>2
  <2>3. CASE i \in 1..n /\ j = n + 1
    BY <1>2, <1>4, <2>3
  <2> QED BY <1>2, <2>1, <2>2, <2>3
<1>6. \A k \in 1..n + 1 : t[k].id \notin ids /\ \E j \in R \cup {m} : t[k] = items[j]
  <2> SUFFICES ASSUME NEW k \in 1..n + 1 PROVE t[k].id \notin ids /\ \E j \in R \cup {m} : t[k] = items[j]
    OBVIOUS
  <2>1. CASE k \in 1..n
    BY <1>2, <1>3, <2>1
  <2>2. CASE k = n + 1
    BY <1>2, <2>2
  <2> QED BY <1>2, <2>1, <2>2
<1> QED BY <1>2, <1>5, <1>6 DEF ItemsKept, t

\* Without leaves the items whose identifiers are not named, each once.
LEMMA WithoutIs ==
  ASSUME NEW items \in Seq(Items), IdsDistinct(items), NEW ids
  PROVE  Without(items, ids) \in Seq(Items) /\ ItemsKept(Without(items, ids), items, ids, 1..Len(items))
<1> DEFINE n == Len(items)
           I == 1..n
           A == Seq(Items)
           More(out, item) == IF item.id \in ids THEN out ELSE Append(out, item)
           step == [p \in I \X A |-> More(p[2], items[p[1]])]
           Value(g, T) == IF T = {} THEN <<>> ELSE More(g[T \ {Max(T)}], items[Max(T)])
           iter == CHOOSE h : h = [T \in SUBSET I |-> Value(h, T)]
<1>1. n \in Nat /\ DOMAIN items = I /\ \A i \in I : items[i] \in Items
  OBVIOUS
<1>2. \A i \in I, t \in A : More(t, items[i]) \in A
  BY <1>1
<1>3. \A T \in SUBSET I : T # {} => LastIn(n)[T] = Max(T) /\ Max(T) \in T
  BY <1>1, LastOfEach
<1>4. \E g \in [SUBSET I -> A] : \A T \in SUBSET I : g[T] = Value(g, T)
  <2>1. step \in [I \X A -> A] /\ <<>> \in A
    BY <1>2
  <2>2. \A i \in I, t \in A : step[<<i, t>>] = More(t, items[i])
    OBVIOUS
  <2> HIDE DEF step, A, n, More
  <2>3. PICK g \in [SUBSET I -> A] : Folded(g, I, LastIn(n), <<>>, step)
    BY <1>1, <2>1, FoldOfSequence
  <2>4. \A T \in SUBSET I : g[T] = Value(g, T)
    BY <1>3, <2>2, <2>3 DEF Folded
  <2> QED BY <2>3, <2>4
<1>5. Without(items, ids) = iter[I]
  BY <1>1 DEF Without, FoldLeft, MapThenFoldSet
<1>6. iter = [T \in SUBSET I |-> Value(iter, T)]
  <2> HIDE DEF Value
  <2>1. \E g : g = [T \in SUBSET I |-> Value(g, T)]
    BY <1>4
  <2> QED BY <2>1
<1> HIDE DEF iter
<1> DEFINE Good == {T \in SUBSET I : iter[T] \in A /\ ItemsKept(iter[T], items, ids, T)}
<1>7. Good = SUBSET I
  <2>1. {} \in Good
    <3>1. iter[{}] = <<>> /\ <<>> \in A
      BY <1>6
    <3>2. ItemsKept(<<>>, items, ids, {})
      <4>1. 1..Len(<<>>) = {}
        OBVIOUS
      <4> QED BY <4>1 DEF ItemsKept, IdsDistinct, Old
    <3> QED BY <3>1, <3>2
  <2>2. ASSUME NEW T \in SUBSET I, T # {}, T \ {LastIn(n)[T]} \in Good PROVE T \in Good
    <3> DEFINE m == Max(T)
               R == T \ {m}
               s == iter[R]
    <3>1. m \in I /\ m \in T /\ m \notin R /\ R \cup {m} = T /\ R \in SUBSET I /\ s \in A /\ ItemsKept(s, items, ids, R)
      BY <1>3, <2>2
    <3>2. iter[T] = More(s, items[m])
      BY <1>6, <2>2
    <3> HIDE DEF m, R, s
    <3>3. CASE items[m].id \in ids
      <4>1. iter[T] = s
        BY <3>2, <3>3
      <4>2. ItemsKept(s, items, ids, T)
        BY <3>1 DEF ItemsKept
      <4> QED BY <3>1, <4>1, <4>2
    <3>4. CASE items[m].id \notin ids
      <4>1. iter[T] = Append(s, items[m])
        BY <3>2, <3>4
      <4>2. Append(s, items[m]) \in Seq(Items) /\ ItemsKept(Append(s, items[m]), items, ids, R \cup {m})
        BY <3>1, <3>4, KeptMore
      <4> QED BY <3>1, <4>1, <4>2
    <3> QED BY <3>3, <3>4
  <2>3. Good \in SUBSET (SUBSET I)
    OBVIOUS
  <2> HIDE DEF Good, n
  <2>4. Grows(Good, 1..n, LastIn(n))
    BY <2>1, <2>2, <2>3 DEF Grows
  <2> QED BY <1>1, <2>3, <2>4, Indices
<1>8. I \in Good
  <2> HIDE DEF Good
  <2> QED BY <1>7
<1> QED BY <1>5, <1>8

\* What an edit leaves: lists of items without an identifier twice, without an unknown one,
\* and of the items before or of what HR writes.
Like(item, old) == old.id = item.id /\ [item EXCEPT !.shown.importance = old.shown.importance] = old
EditKept(once, items, item) ==
  /\ once \in Seq(Items) /\ IdsDistinct(once) /\ ItemIds(once) \subseteq ItemIds(items)
  /\ \A x \in Range(once) \ {item} : \E old \in Range(items) : Like(x, old)

\* An item is like itself.
LEMMA LikeItself ==
  ASSUME NEW item \in Items
  PROVE  Like(item, item)
<1> DEFINE c == item.shown
<1>1. [c EXCEPT !.importance = c.importance] = c
  <2>1. c \in Criteria
    BY DEF Items
  <2> HIDE DEF c
  <2> QED BY <2>1 DEF Criteria
<1>2. [item EXCEPT !.shown = c] = item
  BY DEF Items
<1>3. [item EXCEPT !.shown.importance = c.importance] = [item EXCEPT !.shown = [c EXCEPT !.importance = c.importance]]
  OBVIOUS
<1> QED BY <1>1, <1>2, <1>3 DEF Like

\* An item is like the one whose importance was changed.
LEMMA LikeReweighted ==
  ASSUME NEW old \in Items, NEW importance \in {"required", "preferred", "general"},
         NEW item, item = [old EXCEPT !.shown.importance = importance]
  PROVE  item \in Items /\ item.id = old.id /\ Like(item, old)
<1> DEFINE c == old.shown
           d == [c EXCEPT !.importance = importance]
<1>1. c \in Criteria
  BY DEF Items
<1>2. d \in Criteria /\ [d EXCEPT !.importance = c.importance] = c
  <2> HIDE DEF c
  <2> QED BY <1>1 DEF Criteria
<1>3. item = [old EXCEPT !.shown = d]
  OBVIOUS
<1> HIDE DEF d
<1>4. item \in Items /\ item.id = old.id /\ item.shown = d
  BY <1>2, <1>3 DEF Items
<1>5. [item EXCEPT !.shown.importance = c.importance] = [item EXCEPT !.shown = [d EXCEPT !.importance = c.importance]]
  BY <1>4
<1>6. [item EXCEPT !.shown = c] = old
  BY <1>3 DEF Items
<1>7. [item EXCEPT !.shown.importance = old.shown.importance] = old
  BY <1>2, <1>5, <1>6
<1> QED BY <1>4, <1>7 DEF Like

\* Items that are among others, and ids among theirs.
LEMMA Among ==
  ASSUME NEW items \in Seq(Items), NEW out \in Seq(Items),
         \A k \in 1..Len(out) : \E j \in 1..Len(items) : out[k] = items[j]
  PROVE  /\ ItemIds(out) \subseteq ItemIds(items)
         /\ \A x \in Range(out) : \E old \in Range(items) : Like(x, old)
<1>1. DOMAIN out = 1..Len(out) /\ DOMAIN items = 1..Len(items) /\ \A j \in 1..Len(items) : items[j] \in Items
  OBVIOUS
<1>2. ItemIds(out) \subseteq ItemIds(items)
  <2> SUFFICES ASSUME NEW k \in 1..Len(out), out[k].id # 0 PROVE out[k].id \in ItemIds(items)
    BY DEF ItemIds
  <2>1. PICK j \in 1..Len(items) : out[k] = items[j]
    OBVIOUS
  <2> QED BY <2>1 DEF ItemIds
<1>3. ASSUME NEW x \in Range(out) PROVE \E old \in Range(items) : Like(x, old)
  <2>1. PICK k \in 1..Len(out) : x = out[k]
    BY <1>1, <1>3 DEF Range
  <2>2. PICK j \in 1..Len(items) : out[k] = items[j]
    OBVIOUS
  <2>3. x \in Items /\ x \in Range(items)
    BY <1>1, <2>1, <2>2 DEF Range
  <2> QED BY <2>3, LikeItself
<1> QED BY <1>2, <1>3

\* The items of a list with one more.
LEMMA AppendedItem ==
  ASSUME NEW items \in Seq(Items), NEW item \in Items
  PROVE  LET t == Append(items, item)
             n == Len(items)
         IN /\ t \in Seq(Items) /\ n \in Nat /\ Len(t) = n + 1 /\ t[n + 1] = item /\ \A k \in 1..n : t[k] = items[k]
            /\ DOMAIN t = 1..n + 1 /\ DOMAIN items = 1..n
            /\ \A k \in 1..n + 1 : k \in 1..n \/ k = n + 1
<1> QED OBVIOUS

\* One item more, whose identifier no other has.
LEMMA OneMore ==
  ASSUME NEW items \in Seq(Items), NEW item \in Items, NEW kept \in Seq(Items), IdsDistinct(kept),
         \A k \in 1..Len(kept) : \E j \in 1..Len(items) : kept[k] = items[j],
         item.id = 0 \/ item.id \in ItemIds(items),
         \A k \in 1..Len(kept) : item.id # 0 => kept[k].id # item.id
  PROVE  EditKept(Append(kept, item), items, item)
<1> DEFINE t == Append(kept, item)
           n == Len(kept)
<1>1. /\ t \in Seq(Items) /\ n \in Nat /\ Len(t) = n + 1 /\ t[n + 1] = item /\ \A k \in 1..n : t[k] = kept[k]
      /\ DOMAIN t = 1..n + 1 /\ DOMAIN kept = 1..n
      /\ \A k \in 1..n + 1 : k \in 1..n \/ k = n + 1
  BY AppendedItem
<1>2. ItemIds(kept) \subseteq ItemIds(items) /\ \A x \in Range(kept) : \E old \in Range(items) : Like(x, old)
  BY Among
<1> HIDE DEF t, n
<1>3. IdsDistinct(t)
  <2> SUFFICES ASSUME NEW i \in 1..n + 1, NEW j \in 1..n + 1, t[i].id # 0, t[j].id # 0, t[i].id = t[j].id PROVE i = j
    BY <1>1 DEF IdsDistinct, Old
  <2>1. CASE i \in 1..n /\ j \in 1..n
    BY <1>1, <2>1 DEF IdsDistinct, Old, n
  <2>2. CASE i = n + 1 /\ j \in 1..n
    BY <1>1, <2>2 DEF n
  <2>3. CASE i \in 1..n /\ j = n + 1
    BY <1>1, <2>3 DEF n
  <2> QED BY <1>1, <2>1, <2>2, <2>3
<1>4. ItemIds(t) \subseteq ItemIds(items)
  <2> SUFFICES ASSUME NEW k \in 1..n + 1, t[k].id # 0 PROVE t[k].id \in ItemIds(items)
    BY <1>1 DEF ItemIds
  <2>1. CASE k \in 1..n
    <3>1. kept[k].id \in ItemIds(kept)
      BY <1>1, <2>1 DEF ItemIds, n
    <3> QED BY <1>1, <1>2, <2>1, <3>1
  <2>2. CASE k = n + 1
    BY <1>1, <2>2
  <2> QED BY <1>1, <2>1, <2>2
<1>5. ASSUME NEW x \in Range(t), x # item PROVE \E old \in Range(items) : Like(x, old)
  <2>1. PICK k \in 1..n + 1 : x = t[k]
    BY <1>1, <1>5 DEF Range
  <2>2. k \in 1..n
    BY <1>1, <1>5, <2>1
  <2>3. x \in Range(kept)
    BY <1>1, <2>1, <2>2 DEF Range
  <2> QED BY <1>2, <2>3
<1> QED BY <1>1, <1>3, <1>4, <1>5 DEF EditKept, t

\* A new item is added.
LEMMA AddedKept ==
  ASSUME NEW items \in Seq(Items), IdsDistinct(items), NEW item \in Items, Added(items, item) # <<>>
  PROVE  EditKept(Added(items, item), items, item)
<1>1. item.id = 0 /\ Added(items, item) = Append(items, item)
  BY DEF Added
<1>2. \A k \in 1..Len(items) : \E j \in 1..Len(items) : items[k] = items[j]
  OBVIOUS
<1>3. EditKept(Append(items, item), items, item)
  BY <1>1, <1>2, OneMore
<1> QED BY <1>1, <1>3

\* An item is deleted.
LEMMA DeletedKept ==
  ASSUME NEW items \in Seq(Items), IdsDistinct(items), NEW item, NEW id, Deleted(items, id) # <<>>
  PROVE  EditKept(Deleted(items, id), items, item)
<1> DEFINE t == Without(items, {id})
<1>1. Deleted(items, id) = t
  BY DEF Deleted
<1>2. t \in Seq(Items) /\ ItemsKept(t, items, {id}, 1..Len(items))
  BY WithoutIs
<1> HIDE DEF t
<1>3. IdsDistinct(t) /\ \A k \in 1..Len(t) : \E j \in 1..Len(items) : t[k] = items[j]
  BY <1>2 DEF ItemsKept
<1>4. ItemIds(t) \subseteq ItemIds(items) /\ \A x \in Range(t) : \E old \in Range(items) : Like(x, old)
  BY <1>2, <1>3, Among
<1> QED BY <1>1, <1>2, <1>3, <1>4 DEF EditKept

\* Items are merged in one.
LEMMA MergedKept ==
  ASSUME NEW items \in Seq(Items), IdsDistinct(items), NEW item \in Items, NEW ids, MergedItems(items, ids, item) # <<>>
  PROVE  EditKept(MergedItems(items, ids, item), items, item)
<1> DEFINE t == Without(items, ids)
<1>1. MergedItems(items, ids, item) = Append(t, item) /\ item.id \in ids /\ ids \subseteq ItemIds(items)
  BY DEF MergedItems
<1>2. t \in Seq(Items) /\ ItemsKept(t, items, ids, 1..Len(items))
  BY WithoutIs
<1> HIDE DEF t
<1>3. IdsDistinct(t) /\ \A k \in 1..Len(t) : t[k].id \notin ids /\ \E j \in 1..Len(items) : t[k] = items[j]
  BY <1>2 DEF ItemsKept
<1>4. item.id \in ItemIds(items) /\ \A k \in 1..Len(t) : t[k].id # item.id
  BY <1>1, <1>3
<1>5. EditKept(Append(t, item), items, item)
  BY <1>2, <1>3, <1>4, OneMore
<1> QED BY <1>1, <1>5

\* The importance of an item is changed.
LEMMA ReweightedKept ==
  ASSUME NEW items \in Seq(Items), IdsDistinct(items), NEW item,
         NEW importance \in {"required", "preferred", "general"}, NEW id, Reweighted(items, id, importance) # <<>>
  PROVE  EditKept(Reweighted(items, id, importance), items, item)
<1> DEFINE n == Len(items)
           t == [i \in 1..n |-> IF items[i].id = id THEN [items[i] EXCEPT !.shown.importance = importance] ELSE items[i]]
<1>1. Reweighted(items, id, importance) = t
  BY DEF Reweighted
<1>2. n \in Nat /\ DOMAIN items = 1..n /\ \A i \in 1..n : items[i] \in Items
  OBVIOUS
<1>3. \A i \in 1..n : t[i] \in Items /\ t[i].id = items[i].id /\ Like(t[i], items[i])
  <2> SUFFICES ASSUME NEW i \in 1..n PROVE t[i] \in Items /\ t[i].id = items[i].id /\ Like(t[i], items[i])
    OBVIOUS
  <2> DEFINE old == items[i]
             new == t[i]
  <2>1. old \in Items
    BY <1>2
  <2>2. new = IF old.id = id THEN [old EXCEPT !.shown.importance = importance] ELSE old
    OBVIOUS
  <2> HIDE DEF old, new
  <2>3. CASE old.id = id
    BY <2>1, <2>2, <2>3, LikeReweighted DEF old, new
  <2>4. CASE old.id # id
    <3>1. new = old
      BY <2>2, <2>4
    <3> QED BY <2>1, <3>1, LikeItself DEF old, new
  <2> QED BY <2>3, <2>4
<1>4. t \in Seq(Items) /\ Len(t) = n /\ DOMAIN t = 1..n
  <2>1. DOMAIN t = 1..n /\ t = [i \in 1..n |-> t[i]]
    OBVIOUS
  <2> HIDE DEF t
  <2>2. t \in [1..n -> Items]
    BY <1>3, <2>1
  <2> HIDE DEF n
  <2> QED BY <1>2, <2>1, <2>2
<1> HIDE DEF t
<1>5. IdsDistinct(t)
  BY <1>3, <1>4 DEF IdsDistinct, Old
<1>6. ItemIds(t) \subseteq ItemIds(items)
  BY <1>3, <1>4 DEF ItemIds
<1>7. \A x \in Range(t) : \E old \in Range(items) : Like(x, old)
  BY <1>2, <1>3, <1>4 DEF Range
<1> QED BY <1>1, <1>4, <1>5, <1>6, <1>7 DEF EditKept

\* Each edit.
LEMMA OneEdit ==
  ASSUME NEW items \in Seq(Items), IdsDistinct(items), NEW item \in Items, NEW once \in EditsOf(items, item) \ {<<>>}
  PROVE  EditKept(once, items, item)
<1>1. item.shown.importance \in {"required", "preferred", "general"}
  BY DEF Items, Criteria
<1>2. CASE once = Added(items, item)
  BY <1>2, AddedKept
<1>3. ASSUME NEW id, once = Deleted(items, id) PROVE EditKept(once, items, item)
  BY <1>3, DeletedKept
<1>4. ASSUME NEW ids, once = MergedItems(items, ids, item) PROVE EditKept(once, items, item)
  BY <1>4, MergedKept
<1>5. ASSUME NEW id, once = Reweighted(items, id, item.shown.importance) PROVE EditKept(once, items, item)
  BY <1>1, <1>5, ReweightedKept
<1>6. \/ once = Added(items, item)
      \/ \E id : once = Deleted(items, id)
      \/ \E ids : once = MergedItems(items, ids, item)
      \/ \E id : once = Reweighted(items, id, item.shown.importance)
  BY DEF EditsOf
<1> QED BY <1>2, <1>3, <1>4, <1>5, <1>6

\* Likeness holds across two edits.
LEMMA LikeTwice ==
  ASSUME NEW x \in Items, NEW y \in Items, NEW z \in Items, Like(x, y), Like(y, z)
  PROVE  Like(x, z)
<1> DEFINE c == x.shown
           d == y.shown
           e == z.shown
<1>1. c \in Criteria /\ d \in Criteria /\ e \in Criteria /\ z.id = y.id /\ y.id = x.id
  BY DEF Items, Like
<1>2. [x EXCEPT !.shown = [c EXCEPT !.importance = d.importance]] = y
  BY DEF Like
<1>3. [y EXCEPT !.shown = [d EXCEPT !.importance = e.importance]] = z
  BY DEF Like
<1>4. d = [c EXCEPT !.importance = d.importance]
  BY <1>2 DEF Items
<1>5. [d EXCEPT !.importance = e.importance] = [c EXCEPT !.importance = e.importance]
  <2> HIDE DEF c, d, e
  <2> QED BY <1>1, <1>4 DEF Criteria
<1> DEFINE f == [c EXCEPT !.importance = e.importance]
           g == [c EXCEPT !.importance = d.importance]
<1>6. [x EXCEPT !.shown = f] = z
  <2>1. [y EXCEPT !.shown = f] = z
    BY <1>3, <1>5
  <2>2. y = [x EXCEPT !.shown = g]
    BY <1>2
  <2> HIDE DEF f, g
  <2> QED BY <2>1, <2>2 DEF Items
<1> QED BY <1>1, <1>6 DEF Like

\* Two edits after one another keep the identifiers of the other criteria.
LEMMA EditsAfterAll ==
  ASSUME NEW items \in Seq(Items), Cardinality(ItemIds(items)) = Cardinality(Old(items)),
         NEW first \in Items, NEW second \in Items
  PROVE  EditsKeepIds(items, first, second)
<1>1. IdsDistinct(items)
  BY DistinctIs
<1> SUFFICES ASSUME NEW once \in EditsOf(items, first) \ {<<>>}, NEW twice \in EditsOf(once, second) \ {<<>>}
             PROVE  /\ Cardinality(ItemIds(twice)) = Cardinality(Old(twice))
                    /\ ItemIds(twice) \subseteq ItemIds(items)
                    /\ \A item \in Range(twice) \ {first, second} :
                         \E old \in Range(items) \cup {first} : Like(item, old)
  BY DEF EditsKeepIds, Like
<1>2. EditKept(once, items, first)
  BY <1>1, OneEdit
<1>3. once \in Seq(Items) /\ IdsDistinct(once)
  BY <1>2 DEF EditKept
<1>4. EditKept(twice, once, second)
  BY <1>3, OneEdit
<1>5. Cardinality(ItemIds(twice)) = Cardinality(Old(twice))
  BY <1>4, DistinctIs DEF EditKept
<1>6. ItemIds(twice) \subseteq ItemIds(items)
  BY <1>2, <1>4 DEF EditKept
<1>7. ASSUME NEW item \in Range(twice) \ {first, second}
      PROVE  \E old \in Range(items) \cup {first} : Like(item, old)
  <2>1. PICK y \in Range(once) : Like(item, y)
    BY <1>4 DEF EditKept
  <2>2. CASE y = first
    BY <2>1, <2>2
  <2>3. CASE y # first
    <3>1. PICK old \in Range(items) : Like(y, old)
      BY <1>2, <2>3 DEF EditKept
    <3>2. twice \in Seq(Items)
      BY <1>4 DEF EditKept
    <3>3. item \in Items /\ y \in Items /\ old \in Items
      <4>1. \A s \in Seq(Items) : \A x \in Range(s) : x \in Items
        <5> SUFFICES ASSUME NEW s \in Seq(Items), NEW x \in Range(s) PROVE x \in Items
          OBVIOUS
        <5>1. DOMAIN s = 1..Len(s) /\ \A i \in 1..Len(s) : s[i] \in Items
          OBVIOUS
        <5> QED BY <5>1 DEF Range
      <4> QED BY <1>3, <3>2, <4>1
    <3> QED BY <2>1, <3>1, <3>3, LikeTwice
  <2> QED BY <2>2, <2>3
<1> QED BY <1>5, <1>6, <1>7

-----------------------------------------------------------------------------
(* The source units of a job's text *)

\* The sentences of lines, in order.
SentencesOf(lines) == [i \in 1..Len(lines) |-> lines[i].sentences]
Words(lines) == FlattenSeq(SentencesOf(lines))

\* The sentences of typed lines.
LEMMA SentencesAre ==
  ASSUME NEW lines \in Seq(Lines)
  PROVE  /\ SentencesOf(lines) \in Seq(Seq(Nat)) /\ Len(SentencesOf(lines)) = Len(lines) /\ Len(lines) \in Nat
         /\ DOMAIN lines = 1..Len(lines)
         /\ \A i \in 1..Len(lines) : /\ SentencesOf(lines)[i] = lines[i].sentences
                                     /\ lines[i] \in Lines /\ lines[i].sentences \in Seq(Nat)
<1> DEFINE n == Len(lines)
           A == Seq(Nat)
<1>1. n \in Nat /\ DOMAIN lines = 1..n /\ \A i \in 1..n : lines[i] \in Lines
  OBVIOUS
<1>2. \A i \in 1..n : lines[i].sentences \in A
  BY <1>1 DEF Lines
<1> DEFINE s == [i \in 1..n |-> lines[i].sentences]
<1>3. s \in Seq(A) /\ Len(s) = n /\ \A i \in 1..n : s[i] = lines[i].sentences
  <2> HIDE DEF n, A
  <2> QED BY <1>1, <1>2
<1>4. s = SentencesOf(lines)
  BY DEF SentencesOf
<1> QED BY <1>1, <1>2, <1>3, <1>4

\* Lines that differ in their form only have the same sentences.
LEMMA SameSentences ==
  ASSUME NEW a \in Seq(Lines), NEW b \in Seq(Lines), Len(a) = Len(b),
         \A i \in 1..Len(a) : a[i].sentences = b[i].sentences
  PROVE  SentencesOf(a) = SentencesOf(b)
BY DEF SentencesOf

\* The text of lines is a sequence of sentences.
LEMMA WordsTyped ==
  ASSUME NEW a \in Seq(Lines)
  PROVE  Words(a) \in Seq(Nat)
<1>1. SentencesOf(a) \in Seq(Seq(Nat))
  BY SentencesAre
<1> DEFINE s == SentencesOf(a)
<1> HIDE DEF s
<1>2. s \in Seq(Seq(Nat))
  BY <1>1 DEF s
<1>3. FlattenSeq(s) \in Seq(Nat)
  BY <1>2, FlatBehind
<1> QED BY <1>3 DEF Words, s

\* The text of lines behind lines.
LEMMA WordsBehind ==
  ASSUME NEW a \in Seq(Lines), NEW b \in Seq(Lines)
  PROVE  a \o b \in Seq(Lines) /\ Words(a \o b) = Words(a) \o Words(b)
<1> DEFINE c == a \o b
           s == SentencesOf(a)
           t == SentencesOf(b)
           u == SentencesOf(c)
           A == Seq(Nat)
<1>1. c \in Seq(Lines) /\ IsJoint(c, a, b)
  BY Joined
<1>2. /\ s \in Seq(A) /\ Len(s) = Len(a) /\ Len(a) \in Nat /\ \A i \in 1..Len(a) : s[i] = a[i].sentences
      /\ t \in Seq(A) /\ Len(t) = Len(b) /\ Len(b) \in Nat /\ \A i \in 1..Len(b) : t[i] = b[i].sentences
  BY SentencesAre
<1> HIDE DEF c
<1>3. u \in Seq(A) /\ Len(u) = Len(c) /\ Len(c) \in Nat /\ \A i \in 1..Len(c) : u[i] = c[i].sentences
  BY <1>1, SentencesAre
<1> HIDE DEF s, t, u, A
<1>4. s \o t \in Seq(A) /\ IsJoint(s \o t, s, t)
  BY <1>2, Joined
<1> DEFINE v == s \o t
<1> HIDE DEF v
<1>5. v \in Seq(A) /\ IsJoint(v, s, t)
  BY <1>4 DEF v
<1>6. u = v
  <2>1. Len(u) = Len(v) /\ Len(v) = Len(a) + Len(b)
    BY <1>1, <1>2, <1>3, <1>5 DEF IsJoint
  <2>2. ASSUME NEW i \in 1..Len(v) PROVE u[i] = v[i]
    <3>1. CASE i \in 1..Len(a)
      <4>1. v[i] = s[i] /\ c[i] = a[i]
        BY <1>1, <1>2, <1>5, <3>1 DEF IsJoint
      <4> QED BY <1>2, <1>3, <2>1, <3>1, <4>1
    <3>2. CASE i \notin 1..Len(a)
      <4>1. PICK j \in 1..Len(b) : i = Len(a) + j
        <5>1. i - Len(a) \in 1..Len(b) /\ i = Len(a) + (i - Len(a))
          BY <1>2, <2>1, <3>2
        <5> QED BY <5>1
      <4>2. v[i] = t[j] /\ c[i] = b[j]
        BY <1>1, <1>2, <1>5, <4>1 DEF IsJoint
      <4> QED BY <1>2, <1>3, <2>1, <4>1, <4>2
    <3> QED BY <3>1, <3>2
  <2> QED BY <1>3, <1>5, <2>1, <2>2, SeqEqual
<1>7. FlattenSeq(s \o t) = FlattenSeq(s) \o FlattenSeq(t)
  <2>1. s \in Seq(Seq(Nat)) /\ t \in Seq(Seq(Nat))
    BY <1>2 DEF A
  <2> QED BY <2>1, FlatBehind
<1> QED BY <1>1, <1>6, <1>7 DEF Words, s, t, u, v, c

\* The text of one line.
LEMMA WordsOfOne ==
  ASSUME NEW l \in Lines
  PROVE  <<l>> \in Seq(Lines) /\ l.sentences \in Seq(Nat) /\ Words(<<l>>) = l.sentences
<1> DEFINE a == <<l>>
<1>1. a \in Seq(Lines) /\ Len(a) = 1 /\ a[1] = l
  OBVIOUS
<1> HIDE DEF a
<1>2. l.sentences \in Seq(Nat)
  BY DEF Lines
<1> DEFINE t == l.sentences
<1>3. SentencesOf(a) = <<t>>
  <2>1. SentencesOf(a) = [i \in 1..1 |-> a[i].sentences]
    BY <1>1 DEF SentencesOf
  <2>2. [i \in 1..1 |-> a[i].sentences] = [i \in 1..1 |-> t]
    BY <1>1
  <2> HIDE DEF t
  <2>3. [i \in 1..1 |-> t] = <<t>>
    OBVIOUS
  <2> QED BY <2>1, <2>2, <2>3
<1>4. FlattenSeq(<<t>>) = t
  <2> HIDE DEF t
  <2>1. t \in Seq(Nat)
    BY <1>2 DEF t
  <2> QED BY <2>1, FlatOne
<1> QED BY <1>1, <1>2, <1>3, <1>4 DEF Words, a

\* The text of one line more.
LEMMA WordsMore ==
  ASSUME NEW a \in Seq(Lines), NEW l \in Lines
  PROVE  Append(a, l) \in Seq(Lines) /\ Words(Append(a, l)) = Words(a) \o l.sentences
<1>1. Append(a, l) = a \o <<l>> /\ Append(a, l) \in Seq(Lines)
  BY AppendIsConcat
<1>2. <<l>> \in Seq(Lines) /\ Words(<<l>>) = l.sentences
  BY WordsOfOne
<1>3. Words(a \o <<l>>) = Words(a) \o Words(<<l>>)
  BY <1>2, WordsBehind
<1> QED BY <1>1, <1>2, <1>3

\* Blank lines have no text.
LEMMA WordsOfNone ==
  ASSUME NEW a \in Seq(Lines), \A i \in 1..Len(a) : Blank(a[i])
  PROVE  Words(a) = <<>>
<1> DEFINE s == SentencesOf(a)
<1>1. s \in Seq(Seq(Nat)) /\ Len(s) = Len(a) /\ \A i \in 1..Len(a) : s[i] = a[i].sentences
  BY SentencesAre
<1> HIDE DEF s
<1>2. \A i \in 1..Len(s) : s[i] = <<>>
  BY <1>1 DEF Blank
<1>3. FlattenSeq(s) = <<>>
  BY <1>1, <1>2, FlatOfNone
<1> QED BY <1>3 DEF Words, s

\* The ends of a sequence that is made of two.
LEMMA EndsOfJoint ==
  ASSUME NEW S, NEW s \in Seq(S), NEW t \in Seq(S)
  PROVE  /\ s # <<>> => s \o t # <<>> /\ (s \o t)[1] = s[1] /\ s[1] \in Range(s)
         /\ t # <<>> => s \o t # <<>> /\ (s \o t)[Len(s \o t)] = t[Len(t)] /\ t[Len(t)] \in Range(t)
<1> DEFINE u == s \o t
<1>1. u \in Seq(S) /\ IsJoint(u, s, t)
  BY Joined
<1> HIDE DEF u
<1>2. Len(s) \in Nat /\ Len(t) \in Nat /\ DOMAIN s = 1..Len(s) /\ DOMAIN t = 1..Len(t) /\ Len(u) = Len(s) + Len(t)
  BY <1>1 DEF IsJoint
<1>3. ASSUME s # <<>> PROVE u # <<>> /\ u[1] = s[1] /\ s[1] \in Range(s)
  <2>1. Len(s) # 0
    BY <1>3
  <2>2. 1 \in 1..Len(s) /\ Len(u) # 0
    BY <1>2, <2>1
  <2> QED BY <1>1, <1>2, <2>2 DEF IsJoint, Range
<1>4. ASSUME t # <<>> PROVE u # <<>> /\ u[Len(u)] = t[Len(t)] /\ t[Len(t)] \in Range(t)
  <2>1. Len(t) # 0
    BY <1>4
  <2>2. Len(t) \in 1..Len(t) /\ Len(u) # 0
    BY <1>2, <2>1
  <2> QED BY <1>1, <1>2, <2>2 DEF IsJoint, Range
<1> QED BY <1>3, <1>4 DEF u

\* A sequence, cut in two.
LEMMA InTwo ==
  ASSUME NEW S, NEW s \in Seq(S), NEW k \in 0..Len(s)
  PROVE  /\ s = SubSeq(s, 1, k) \o SubSeq(s, k + 1, Len(s))
         /\ SubSeq(s, 1, k) \in Seq(S) /\ Len(SubSeq(s, 1, k)) = k /\ \A i \in 1..k : SubSeq(s, 1, k)[i] = s[i]
         /\ SubSeq(s, k + 1, Len(s)) \in Seq(S) /\ Len(SubSeq(s, k + 1, Len(s))) = Len(s) - k
         /\ \A i \in 1..Len(s) - k : SubSeq(s, k + 1, Len(s))[i] = s[k + i]
<1> DEFINE n == Len(s)
<1>1. n \in Nat /\ k \in Nat /\ k <= n
  OBVIOUS
<1>2. SubSeq(s, 1, n) = s
  OBVIOUS
<1>3. SubSeq(s, 1, k) \o SubSeq(s, k + 1, n) = SubSeq(s, 1, n)
  <2>1. 1 \in 1..Len(s) + 1 /\ k \in 1 - 1..Len(s) /\ n \in k..Len(s)
    BY <1>1
  <2> HIDE DEF n
  <2> QED BY <2>1, ConcatAdjacentSubSeq
<1>4. SubSeq(s, 1, k) \in Seq(S) /\ Len(SubSeq(s, 1, k)) = k /\ \A i \in 1..k : SubSeq(s, 1, k)[i] = s[i]
  OBVIOUS
<1>5. SubSeq(s, k + 1, n) \in Seq(S) /\ Len(SubSeq(s, k + 1, n)) = n - k
      /\ \A i \in 1..n - k : SubSeq(s, k + 1, n)[i] = s[k + i]
  OBVIOUS
<1> QED BY <1>2, <1>3, <1>4, <1>5

\* What two sequences have, their joint has.
LEMMA RangeJoined ==
  ASSUME NEW S, NEW s \in Seq(S), NEW t \in Seq(S)
  PROVE  Range(s \o t) = Range(s) \cup Range(t)
BY RangeConcatenation

\* A sequence of one element.
LEMMA OfOne ==
  ASSUME NEW S, NEW s \in Seq(S), Len(s) = 1
  PROVE  s = <<s[1]>>
OBVIOUS

\* The text of lines that begin and end with a written one begins and ends in these.
LEMMA WordsEnds ==
  ASSUME NEW a \in Seq(Lines), a # <<>>, ~Blank(a[1]), ~Blank(a[Len(a)])
  PROVE  /\ Words(a) # <<>>
         /\ Words(a)[1] \in Range(a[1].sentences)
         /\ Words(a)[Len(Words(a))] \in Range(a[Len(a)].sentences)
         /\ \A s \in Range(Words(a)) : \E k \in 1..Len(a) : s \in Range(a[k].sentences)
<1> DEFINE n == Len(a)
<1>1. n \in Nat /\ n # 0 /\ \A i \in 1..n : a[i] \in Lines
  OBVIOUS
<1>2. 1 \in 1..n /\ n \in 1..n
  BY <1>1
<1>3. a[1].sentences \in Seq(Nat) /\ a[1].sentences # <<>> /\ a[n].sentences \in Seq(Nat) /\ a[n].sentences # <<>>
  BY <1>1, <1>2, WordsOfOne DEF Blank
<1>4. Words(a) # <<>> /\ Words(a)[1] \in Range(a[1].sentences)
  <2> DEFINE e == a[1]
             b == SubSeq(a, 2, n)
  <2>1. e \in Lines /\ b \in Seq(Lines) /\ a = <<e>> \o b
    <3> DEFINE f == SubSeq(a, 1, 1)
    <3>1. 1 \in 0..Len(a) /\ 1 + 1 = 2
      BY <1>1
    <3>2. a = f \o b /\ b \in Seq(Lines) /\ f \in Seq(Lines) /\ Len(f) = 1 /\ f[1] = a[1]
      <4>1. /\ a = SubSeq(a, 1, 1) \o SubSeq(a, 1 + 1, Len(a))
            /\ SubSeq(a, 1, 1) \in Seq(Lines) /\ Len(SubSeq(a, 1, 1)) = 1 /\ \A i \in 1..1 : SubSeq(a, 1, 1)[i] = a[i]
            /\ SubSeq(a, 1 + 1, Len(a)) \in Seq(Lines)
        BY <3>1, InTwo
      <4> QED BY <3>1, <4>1
    <3> HIDE DEF f, b
    <3>3. f = <<f[1]>>
      BY <3>2, OfOne
    <3> QED BY <1>1, <1>2, <3>2, <3>3
  <2> DEFINE s == e.sentences
             t == Words(b)
  <2>2. s # <<>> /\ s \in Seq(Nat)
    BY <1>3
  <2> HIDE DEF e, b
  <2>3. <<e>> \in Seq(Lines) /\ Words(<<e>>) = s
    BY <2>1, WordsOfOne
  <2>4. Words(<<e>> \o b) = Words(<<e>>) \o t /\ t \in Seq(Nat)
    BY <2>1, <2>3, WordsBehind, WordsTyped
  <2> HIDE DEF s, t
  <2>5. s \o t # <<>> /\ (s \o t)[1] = s[1] /\ s[1] \in Range(s)
    BY <2>2, <2>4, EndsOfJoint
  <2> QED BY <2>1, <2>3, <2>4, <2>5 DEF s, e
<1>5. Words(a)[Len(Words(a))] \in Range(a[n].sentences)
  <2> DEFINE e == a[n]
             b == SubSeq(a, 1, n - 1)
  <2>1. e \in Lines /\ b \in Seq(Lines) /\ a = Append(b, e)
    <3> DEFINE m == n - 1
               f == SubSeq(a, m + 1, Len(a))
    <3>1. m \in 0..Len(a) /\ m \in Nat /\ Len(a) - m = 1 /\ m + 1 = n
      BY <1>1
    <3> HIDE DEF m
    <3>2. a = SubSeq(a, 1, m) \o f /\ SubSeq(a, 1, m) \in Seq(Lines) /\ f \in Seq(Lines) /\ Len(f) = 1 /\ f[1] = a[m + 1]
      <4>1. /\ a = SubSeq(a, 1, m) \o SubSeq(a, m + 1, Len(a))
            /\ SubSeq(a, 1, m) \in Seq(Lines)
            /\ SubSeq(a, m + 1, Len(a)) \in Seq(Lines) /\ Len(SubSeq(a, m + 1, Len(a))) = Len(a) - m
            /\ \A i \in 1..Len(a) - m : SubSeq(a, m + 1, Len(a))[i] = a[m + i]
        BY <3>1, InTwo, ZenonT(60)
      <4>2. /\ a = SubSeq(a, 1, m) \o f /\ f \in Seq(Lines) /\ Len(f) = Len(a) - m
            /\ \A i \in 1..Len(a) - m : f[i] = a[m + i]
        BY <4>1
      <4> HIDE DEF f
      <4>3. 1 \in 1..Len(a) - m
        BY <3>1
      <4> QED BY <3>1, <4>1, <4>2, <4>3
    <3> HIDE DEF f
    <3>3. f = <<f[1]>>
      BY <3>2, OfOne
    <3>4. b = SubSeq(a, 1, m)
      BY DEF m
    <3> HIDE DEF b
    <3>5. Append(b, e) = b \o <<e>>
      BY <1>1, <1>2, <3>2, <3>4, AppendIsConcat
    <3> QED BY <1>1, <1>2, <3>1, <3>2, <3>3, <3>4, <3>5
  <2> DEFINE s == e.sentences
             t == Words(b)
  <2>2. s # <<>> /\ s \in Seq(Nat)
    BY <1>3
  <2> HIDE DEF e, b
  <2>3. Words(Append(b, e)) = t \o s /\ t \in Seq(Nat)
    BY <2>1, WordsMore, WordsTyped
  <2> HIDE DEF s, t
  <2>4. (t \o s)[Len(t \o s)] = s[Len(s)] /\ s[Len(s)] \in Range(s)
    BY <2>2, <2>3, EndsOfJoint
  <2> QED BY <2>1, <2>3, <2>4 DEF s, e
<1>6. ASSUME NEW s \in Range(Words(a)) PROVE \E k \in 1..n : s \in Range(a[k].sentences)
  <2> DEFINE ss == SentencesOf(a)
             w == Words(a)
  <2>1. ss \in Seq(Seq(Nat)) /\ Len(ss) = n /\ \A i \in 1..n : ss[i] = a[i].sentences /\ a[i].sentences \in Seq(Nat)
    BY SentencesAre
  <2>2. w = FlattenSeq(ss)
    BY DEF Words
  <2> HIDE DEF ss, w
  <2>3. ss # <<>>
    BY <1>1, <2>1
  <2>4. w \in Seq(Nat) /\ IsFlat(w, ss, Len(ss))
    BY <2>1, <2>2, <2>3, Flattened
  <2>5. PICK i \in 1..Len(w) : s = w[i]
    <3>1. DOMAIN w = 1..Len(w) /\ s \in Range(w)
      BY <1>6, <2>4 DEF w
    <3> QED BY <3>1 DEF Range
  <2>6. PICK p \in Places(ss, n) : w[i] = At(ss, p)
    BY <2>1, <2>4 DEF IsFlat
  <2>7. p[1] \in 1..n /\ p[2] \in 1..Len(ss[p[1]])
    BY <2>6 DEF Places
  <2> DEFINE k == p[1]
             v == ss[k]
  <2>8. k \in 1..n /\ v = a[k].sentences /\ v \in Seq(Nat) /\ p[2] \in 1..Len(v)
    BY <2>1, <2>7
  <2>9. s = v[p[2]]
    BY <2>5, <2>6 DEF At
  <2> HIDE DEF k, v
  <2>10. DOMAIN v = 1..Len(v)
    BY <2>8
  <2>11. s \in Range(v)
    BY <2>8, <2>9, <2>10 DEF Range
  <2> QED BY <2>8, <2>11
<1> QED BY <1>4, <1>5, <1>6

\* A line that begins an item of a list; a text that is taken from lines among the first d,
\* which no blank line and no other item divides.
Starts(line) == line.list /\ ~line.indented
Undivided(L, lo, hi) == \A k \in lo + 1..hi : ~Blank(L[k]) /\ ~Starts(L[k])
Spans(u, L, d) ==
  \E lo, hi \in 1..d :
    u[1] \in Range(L[lo].sentences) /\ u[Len(u)] \in Range(L[hi].sentences) /\ Undivided(L, lo, hi)
Said(s, L, d) == \E k \in 1..d : s \in Range(L[k].sentences)
FromLines(u, L, d) == u \in Seq(Nat) /\ u # <<>> /\ (\A s \in Range(u) : Said(s, L, d)) /\ Spans(u, L, d)

\* A text of the first d lines is one of more lines.
LEMMA FromMore ==
  ASSUME NEW L, NEW d \in Nat, NEW i \in Nat, d <= i, NEW u, FromLines(u, L, d)
  PROVE  FromLines(u, L, i)
<1>1. 1..d \subseteq 1..i
  OBVIOUS
<1>2. \A s \in Range(u) : Said(s, L, i)
  <2> SUFFICES ASSUME NEW s \in Range(u) PROVE Said(s, L, i)
    OBVIOUS
  <2>1. Said(s, L, d)
    BY DEF FromLines
  <2> QED BY <1>1, <2>1 DEF Said
<1>3. Spans(u, L, i)
  <2>1. Spans(u, L, d)
    BY DEF FromLines
  <2> QED BY <1>1, <2>1 DEF Spans
<1> QED BY <1>2, <1>3 DEF FromLines

\* The block that is read after i lines: those behind the first d.
Block(b, L, i, d) ==
  /\ b \in Seq(Lines) /\ Len(b) = i - d
  /\ \A k \in 1..i - d : b[k] = L[d + k] /\ ~Blank(L[d + k])
  /\ Undivided(L, d + 1, i)

Written(out, L, d) ==
  /\ out \in Seq(Seq(Nat)) /\ FlattenSeq(out) = Words(SubSeq(L, 1, d))
  /\ \A u \in Range(out) : FromLines(u, L, d)

\* The lines of a block are behind those before.
LEMMA BlockIs ==
  ASSUME NEW L \in Seq(Lines), NEW i \in 0..Len(L), NEW d \in 0..i, NEW b, Block(b, L, i, d)
  PROVE  SubSeq(L, 1, d) \in Seq(Lines) /\ Words(SubSeq(L, 1, i)) = Words(SubSeq(L, 1, d)) \o Words(b)
<1> DEFINE M == SubSeq(L, 1, i)
           c == SubSeq(M, d + 1, Len(M))
           a == SubSeq(L, 1, d)
           e == SubSeq(M, 1, d)
<1>1. i \in Nat /\ d \in Nat /\ d <= i /\ Len(L) \in Nat /\ i <= Len(L)
  OBVIOUS
<1>2. M \in Seq(Lines) /\ Len(M) = i /\ \A k \in 1..i : M[k] = L[k]
  BY InTwo
<1>3. a \in Seq(Lines) /\ Len(a) = d /\ \A k \in 1..d : a[k] = L[k]
  <2>1. d \in 0..Len(L)
    BY <1>1
  <2> QED BY <2>1, InTwo
<1> HIDE DEF M
<1>4. /\ M = e \o c /\ e \in Seq(Lines) /\ Len(e) = d /\ (\A k \in 1..d : e[k] = M[k])
      /\ c \in Seq(Lines) /\ Len(c) = Len(M) - d /\ \A k \in 1..Len(M) - d : c[k] = M[d + k]
  <2>1. d \in 0..Len(M)
    BY <1>1, <1>2
  <2> QED BY <1>2, <2>1, InTwo
<1> HIDE DEF a, c, e
<1>5. e = a
  <2>1. \A k \in 1..d : k \in 1..i
    BY <1>1
  <2>2. \A k \in 1..Len(e) : e[k] = a[k]
    BY <1>2, <1>3, <1>4, <2>1
  <2> QED BY <1>3, <1>4, <2>2, SeqEqual
<1>6. c = b
  <2>1. \A k \in 1..i - d : d + k \in 1..i
    BY <1>1
  <2>2. b \in Seq(Lines) /\ Len(b) = i - d /\ \A k \in 1..i - d : b[k] = L[d + k]
    BY DEF Block
  <2>3. \A k \in 1..Len(c) : c[k] = b[k]
    <3> SUFFICES ASSUME NEW k \in 1..i - d PROVE c[k] = b[k]
      BY <1>2, <1>4
    <3>1. c[k] = M[d + k] /\ M[d + k] = L[d + k] /\ b[k] = L[d + k]
      BY <1>2, <1>4, <2>1, <2>2
    <3> QED BY <3>1
  <2> QED BY <1>2, <1>4, <2>2, <2>3, SeqEqual
<1>7. Words(e \o c) = Words(e) \o Words(c)
  BY <1>4, WordsBehind
<1>8. Words(M) = Words(a) \o Words(b)
  BY <1>4, <1>5, <1>6, <1>7
<1> QED BY <1>3, <1>8 DEF a, M

\* What is written of a block is written behind the rest.
LEMMA WrittenMore ==
  ASSUME NEW L \in Seq(Lines), NEW i \in 0..Len(L), NEW d \in 0..i, NEW b, Block(b, L, i, d),
         NEW out, Written(out, L, d), NEW more \in Seq(Seq(Nat)), FlattenSeq(more) = Words(b),
         \A u \in Range(more) : FromLines(u, L, i)
  PROVE  Written(out \o more, L, i)
<1> DEFINE A == Seq(Nat)
           all == out \o more
<1>1. out \in Seq(A) /\ more \in Seq(A)
  BY DEF Written
<1>2. all \in Seq(A) /\ Range(all) = Range(out) \cup Range(more)
  <2> HIDE DEF A
  <2>1. out \o more \in Seq(A)
    BY <1>1, Joined
  <2>2. Range(out \o more) = Range(out) \cup Range(more)
    BY <1>1, RangeJoined
  <2> QED BY <2>1, <2>2
<1>3. FlattenSeq(all) = FlattenSeq(out) \o FlattenSeq(more)
  BY <1>1, FlatBehind
<1>4. FlattenSeq(all) = Words(SubSeq(L, 1, i))
  <2>1. Words(SubSeq(L, 1, i)) = Words(SubSeq(L, 1, d)) \o Words(b)
    BY BlockIs
  <2>2. FlattenSeq(out) = Words(SubSeq(L, 1, d))
    BY DEF Written
  <2> HIDE DEF all
  <2> QED BY <1>3, <2>1, <2>2
<1>5. \A u \in Range(all) : FromLines(u, L, i)
  <2>1. d \in Nat /\ i \in Nat /\ d <= i
    OBVIOUS
  <2>2. \A u \in Range(out) : FromLines(u, L, i)
    <3> SUFFICES ASSUME NEW u \in Range(out) PROVE FromLines(u, L, i)
      OBVIOUS
    <3>1. FromLines(u, L, d)
      BY DEF Written
    <3> QED BY <2>1, <3>1, FromMore
  <2> HIDE DEF all
  <2> QED BY <1>2, <2>2
<1> QED BY <1>2, <1>4, <1>5 DEF Written

\* The text of a block that is kept whole.
LEMMA BlockWhole ==
  ASSUME NEW L \in Seq(Lines), NEW i \in 0..Len(L), NEW d \in 0..i, NEW b, Block(b, L, i, d), b # <<>>
  PROVE  FromLines(Words(b), L, i)
<1> DEFINE n == Len(b)
           u == Words(b)
<1>1. /\ b \in Seq(Lines) /\ n = i - d /\ i \in Nat /\ d \in Nat /\ n \in Nat /\ n # 0
      /\ \A k \in 1..n : b[k] = L[d + k] /\ ~Blank(L[d + k])
  BY DEF Block
<1>2. 1 \in 1..n /\ n \in 1..n /\ d + n = i /\ d + 1 \in 1..i /\ i \in 1..i
  BY <1>1
<1>3. ~Blank(b[1]) /\ ~Blank(b[Len(b)]) /\ b[1] = L[d + 1] /\ b[Len(b)] = L[i]
  BY <1>1, <1>2
<1>4. /\ u # <<>> /\ u[1] \in Range(b[1].sentences) /\ u[Len(u)] \in Range(b[Len(b)].sentences)
      /\ \A s \in Range(u) : \E k \in 1..Len(b) : s \in Range(b[k].sentences)
  BY <1>1, <1>3, WordsEnds
<1>5. u \in Seq(Nat)
  BY <1>1, WordsTyped
<1> HIDE DEF u, n
<1>6. Spans(u, L, i)
  <2>1. Undivided(L, d + 1, i)
    BY DEF Block
  <2> QED BY <1>2, <1>3, <1>4, <2>1 DEF Spans
<1>7. ASSUME NEW s \in Range(u) PROVE Said(s, L, i)
  <2>1. PICK k \in 1..n : s \in Range(b[k].sentences)
    BY <1>4 DEF n
  <2>2. d + k \in 1..i /\ b[k] = L[d + k]
    BY <1>1, <2>1
  <2> QED BY <2>1, <2>2 DEF Said
<1> QED BY <1>4, <1>5, <1>6, <1>7 DEF FromLines, u

\* The sentences of a single line.
LEMMA LineCut ==
  ASSUME NEW L \in Seq(Lines), NEW i \in 1..Len(L), NEW u \in Seq(Nat), u = L[i].sentences, NEW j \in 1..Len(u)
  PROVE  FromLines(<<u[j]>>, L, i)
<1> DEFINE s == u[j]
           v == <<s>>
<1>1. s \in Nat /\ s \in Range(u) /\ i \in 1..i /\ i \in Nat
  <2>1. DOMAIN u = 1..Len(u)
    OBVIOUS
  <2> QED BY <2>1 DEF Range
<1> HIDE DEF s
<1>2. v \in Seq(Nat) /\ v # <<>> /\ v[1] = s /\ Len(v) = 1 /\ \A x \in Range(v) : x = s
  BY <1>1 DEF Range
<1> HIDE DEF v
<1>3. Undivided(L, i, i)
  <2>1. i + 1..i = {}
    BY <1>1
  <2> QED BY <2>1 DEF Undivided
<1>4. Spans(v, L, i)
  BY <1>1, <1>2, <1>3 DEF Spans
<1>5. Said(s, L, i)
  BY <1>1 DEF Said
<1> QED BY <1>2, <1>4, <1>5 DEF FromLines, v, s

\* The loop over the lines, after i of them: what is written is of the first d.
Accs == [out : Seq(Seq(Nat)), block : [lines : Seq(Lines), list : BOOLEAN]]
CutTo(acc, L, i, d) == acc \in Accs /\ d \in 0..i /\ Block(acc.block.lines, L, i, d) /\ Written(acc.out, L, d)

\* When all lines are written, the block is empty.
LEMMA NoBlockIs ==
  ASSUME NEW L, NEW i \in Nat, NEW out \in Seq(Seq(Nat)), Written(out, L, i)
  PROVE  CutTo([out |-> out, block |-> NoBlock], L, i, i)
<1> DEFINE acc == [out |-> out, block |-> NoBlock]
<1>1. NoBlock = [lines |-> <<>>, list |-> FALSE]
  BY DEF NoBlock
<1>2. <<>> \in Seq(Lines) /\ Len(<<>>) = 0
  OBVIOUS
<1>3. acc \in Accs
  BY <1>1, <1>2 DEF Accs
<1>4. acc.out = out /\ acc.block.lines = <<>>
  BY <1>1
<1>5. Block(<<>>, L, i, i)
  <2>1. i - i = 0 /\ 1..0 = {} /\ (i + 1) + 1..i = {}
    OBVIOUS
  <2> QED BY <1>2, <2>1 DEF Block, Undivided
<1>6. i \in 0..i
  OBVIOUS
<1> HIDE DEF acc
<1>7. CutTo(acc, L, i, i)
  BY <1>3, <1>4, <1>5, <1>6 DEF CutTo
<1> QED BY <1>7 DEF acc

\* Flushing writes the block.
LEMMA FlushedCut ==
  ASSUME NEW L \in Seq(Lines), NEW i \in 0..Len(L), NEW d, NEW acc, CutTo(acc, L, i, d)
  PROVE  /\ Flushed(acc) = [out |-> Flushed(acc).out, block |-> NoBlock]
         /\ Flushed(acc).out \in Seq(Seq(Nat)) /\ Written(Flushed(acc).out, L, i)
<1> DEFINE b == acc.block.lines
           out == acc.out
           texts == Words(b)
           ones == [k \in 1..Len(texts) |-> <<texts[k]>>]
           whole == acc.block.list \/ Len(b) > 1
           more == IF b = <<>> THEN <<>> ELSE IF whole THEN <<texts>> ELSE ones
<1>1. d \in 0..i /\ Block(b, L, i, d) /\ Written(out, L, d) /\ b \in Seq(Lines) /\ Len(b) = i - d
  BY DEF CutTo, Block
<1>2. Flushed(acc) = [out |-> out \o more, block |-> NoBlock]
  BY DEF Flushed, Words, SentencesOf
<1>3. texts \in Seq(Nat)
  BY <1>1, WordsTyped
<1>4. more \in Seq(Seq(Nat)) /\ FlattenSeq(more) = texts /\ \A u \in Range(more) : FromLines(u, L, i)
  <2>1. CASE b = <<>>
    <3>1. more = <<>>
      BY <2>1
    <3>2. texts = <<>>
      <4>1. \A k \in 1..Len(b) : Blank(b[k])
        BY <2>1
      <4> QED BY <1>1, <4>1, WordsOfNone
    <3>3. <<>> \in Seq(Seq(Nat)) /\ \A k \in 1..Len(<<>>) : <<>>[k] = <<>>
      OBVIOUS
    <3>4. FlattenSeq(<<>>) = <<>>
      BY <3>3, FlatOfNone
    <3>5. Range(<<>>) = {}
      BY DEF Range
    <3> HIDE DEF more, texts
    <3> QED BY <3>1, <3>2, <3>3, <3>4, <3>5
  <2>2. CASE b # <<>> /\ whole
    <3>1. more = <<texts>>
      BY <2>2
    <3>2. FromLines(texts, L, i)
      BY <1>1, <2>2, BlockWhole
    <3> HIDE DEF texts, more
    <3>3. FlattenSeq(<<texts>>) = texts
      BY <1>3, FlatOne
    <3>4. \A u \in Range(<<texts>>) : u = texts
      BY DEF Range
    <3>5. <<texts>> \in Seq(Seq(Nat))
      BY <1>3
    <3> QED BY <3>1, <3>2, <3>3, <3>4, <3>5
  <2>3. CASE b # <<>> /\ ~whole
    <3>1. more = ones
      BY <2>3
    <3>2. ones \in Seq(Seq(Nat)) /\ FlattenSeq(ones) = texts
      <4> DEFINE t == texts
      <4>1. t \in Seq(Nat)
        BY <1>3
      <4> HIDE DEF t
      <4>2. LET o == [k \in 1..Len(t) |-> <<t[k]>>] IN o \in Seq(Seq(Nat)) /\ FlattenSeq(o) = t
        BY <4>1, FlatOfOnes
      <4> QED BY <4>2 DEF t
    <3>3. Len(b) = 1 /\ b = <<b[1]>> /\ b[1] \in Lines
      <4> DEFINE c == b
      <4>1. c \in Seq(Lines) /\ c # <<>> /\ ~(Len(c) > 1)
        BY <1>1, <2>3
      <4> HIDE DEF c
      <4>3. Len(c) \in Nat /\ Len(c) # 0
        BY <4>1
      <4>4. Len(c) = 1
        <5> DEFINE m == Len(c)
        <5>1. m \in Nat /\ m # 0 /\ ~(m > 1)
          BY <4>1, <4>3
        <5> HIDE DEF m
        <5>2. m = 1
          BY <5>1
        <5> QED BY <5>2 DEF m
      <4>5. c = <<c[1]>>
        BY <4>1, <4>4, OfOne
      <4>6. c[1] \in Lines
        BY <4>1, <4>4
      <4>2. Len(c) = 1 /\ c = <<c[1]>> /\ c[1] \in Lines
        BY <4>4, <4>5, <4>6
      <4> QED BY <4>2 DEF c
    <3>4. i \in 1..Len(L) /\ i = d + 1 /\ b[1] = L[i]
      <4>0. i - d = 1
        BY <1>1, <3>3
      <4>1. i \in Nat /\ d \in Nat /\ Len(L) \in Nat /\ i <= Len(L) /\ i - d = 1
        <5>1. Len(L) \in Nat /\ i \in 0..Len(L) /\ d \in 0..i
          BY <1>1
        <5> HIDE DEF b
        <5> QED BY <4>0, <5>1
      <4>2. \A k \in 1..i - d : b[k] = L[d + k]
        BY <1>1 DEF Block
      <4>3. 1 \in 1..i - d /\ d + 1 = i /\ i \in 1..Len(L)
        BY <4>1
      <4> HIDE DEF b
      <4> QED BY <4>2, <4>3
    <3>5. texts = L[i].sentences
      <4> DEFINE l == b[1]
      <4>1. l \in Lines /\ l = L[i] /\ b = <<l>>
        BY <3>3, <3>4
      <4> HIDE DEF l
      <4>2. Words(<<l>>) = l.sentences
        BY <4>1, WordsOfOne
      <4> QED BY <4>1, <4>2
    <3> HIDE DEF texts
    <3>6. \A k \in 1..Len(texts) : FromLines(<<texts[k]>>, L, i)
      BY <1>3, <3>4, <3>5, LineCut
    <3>7. \A u \in Range(ones) : \E k \in 1..Len(texts) : u = <<texts[k]>>
      BY DEF Range
    <3>8. \A u \in Range(ones) : FromLines(u, L, i)
      <4> HIDE DEF ones
      <4> QED BY <3>6, <3>7
    <3> HIDE DEF ones, more
    <3> QED BY <3>1, <3>2, <3>8
  <2> QED BY <2>1, <2>2, <2>3
<1> HIDE DEF more, texts, ones, whole, b, out
<1>5. Written(out \o more, L, i)
  BY <1>1, <1>4, WrittenMore DEF texts
<1>6. Flushed(acc).out = out \o more
  BY <1>2
<1>7. out \o more \in Seq(Seq(Nat))
  BY <1>5 DEF Written
<1> QED BY <1>2, <1>5, <1>6, <1>7

\* Reading the next line keeps what is written and what is in the block apart.
LEMMA ReadLineCut ==
  ASSUME NEW L \in Seq(Lines), NEW i \in Nat, i + 1 \in 1..Len(L), NEW d, NEW acc, CutTo(acc, L, i, d)
  PROVE  \E e : CutTo(ReadLine(acc, L[i + 1]), L, i + 1, e)
<1> DEFINE line == L[i + 1]
           flushed == Flushed(acc)
           starts == line.list /\ ~line.indented
           continues == (line.indented /\ acc.block.lines # <<>>) \/ acc.block.list
<1>1. /\ i \in 0..Len(L) /\ i + 1 \in 0..Len(L) /\ i + 1 \in 1..Len(L) /\ Len(L) \in Nat /\ i \in 0..i + 1 /\ i + 1 \in Nat
      /\ line \in Lines
  OBVIOUS
<1>2. flushed = [out |-> flushed.out, block |-> NoBlock] /\ flushed.out \in Seq(Seq(Nat)) /\ Written(flushed.out, L, i)
  BY <1>1, FlushedCut
<1>3. line.list \in BOOLEAN /\ line.indented \in BOOLEAN
  BY <1>1 DEF Lines
<1>4. SubSeq(L, 1, i + 1) = Append(SubSeq(L, 1, i), line) /\ SubSeq(L, 1, i) \in Seq(Lines)
  <2> DEFINE s == SubSeq(L, 1, i)
             t == SubSeq(L, 1, i + 1)
  <2>1. s \in Seq(Lines) /\ Len(s) = i /\ \A k \in 1..i : s[k] = L[k]
    BY <1>1, InTwo
  <2>2. t \in Seq(Lines) /\ Len(t) = i + 1 /\ \A k \in 1..i + 1 : t[k] = L[k]
    BY <1>1, InTwo
  <2> DEFINE l == line
  <2> HIDE DEF s, t, l
  <2>3. /\ Append(s, l) \in Seq(Lines) /\ Len(Append(s, l)) = i + 1 /\ Append(s, l)[i + 1] = l
        /\ \A k \in 1..i : Append(s, l)[k] = s[k]
    BY <1>1, <2>1 DEF l
  <2>4. \A k \in 1..i + 1 : k \in 1..i \/ k = i + 1
    BY <1>1
  <2>5. \A k \in 1..i + 1 : t[k] = Append(s, l)[k]
    <3> SUFFICES ASSUME NEW k \in 1..i + 1 PROVE t[k] = Append(s, l)[k]
      OBVIOUS
    <3>1. CASE k \in 1..i
      BY <2>1, <2>2, <2>3, <3>1
    <3>2. CASE k = i + 1
      BY <2>2, <2>3, <3>2 DEF l
    <3> QED BY <2>4, <3>1, <3>2
  <2> DEFINE v == Append(s, l)
  <2>6. v \in Seq(Lines) /\ Len(v) = Len(t) /\ \A k \in 1..Len(v) : v[k] = t[k]
    BY <2>2, <2>3, <2>5
  <2> HIDE DEF v
  <2>7. v = t
    BY <2>2, <2>6, SeqEqual
  <2> QED BY <2>1, <2>7 DEF s, t, l, v
<1> HIDE DEF flushed
<1>5. CASE Blank(line)
  <2>1. ReadLine(acc, line) = flushed
    BY <1>5 DEF ReadLine, flushed
  <2>2. Words(SubSeq(L, 1, i + 1)) = Words(SubSeq(L, 1, i))
    <3> DEFINE s == SubSeq(L, 1, i)
               w == Words(s)
    <3>1. s \in Seq(Lines)
      BY <1>4
    <3> HIDE DEF s
    <3>2. Words(Append(s, line)) = w \o line.sentences /\ w \in Seq(Nat)
      BY <1>1, <3>1, WordsMore, WordsTyped
    <3>3. line.sentences = <<>>
      BY <1>5 DEF Blank
    <3> HIDE DEF w
    <3>4. w \o <<>> = w
      BY <3>2
    <3> QED BY <1>4, <3>2, <3>3, <3>4 DEF s, w
  <2>3. Written(flushed.out, L, i + 1)
    <3>1. \A u \in Range(flushed.out) : FromLines(u, L, i + 1)
      <4> SUFFICES ASSUME NEW u \in Range(flushed.out) PROVE FromLines(u, L, i + 1)
        OBVIOUS
      <4>1. FromLines(u, L, i)
        BY <1>2 DEF Written
      <4>2. i <= i + 1
        OBVIOUS
      <4> QED BY <1>1, <4>1, <4>2, FromMore
    <3> QED BY <1>2, <2>2, <3>1 DEF Written
  <2>4. CutTo(flushed, L, i + 1, i + 1)
    <3> DEFINE o == flushed.out
    <3>1. o \in Seq(Seq(Nat)) /\ Written(o, L, i + 1) /\ flushed = [out |-> o, block |-> NoBlock]
      BY <1>2, <2>3
    <3> HIDE DEF o
    <3> QED BY <1>1, <3>1, NoBlockIs
  <2> QED BY <2>1, <2>4
<1>6. CASE ~Blank(line) /\ ~starts /\ continues
  <2> DEFINE b == acc.block.lines
             c == Append(b, line)
             next == [acc EXCEPT !.block.lines = c]
  <2>1. ReadLine(acc, line) = next
    BY <1>6 DEF ReadLine
  <2>2. acc \in Accs /\ d \in 0..i /\ Block(b, L, i, d) /\ Written(acc.out, L, d)
    BY DEF CutTo
  <2>3. /\ b \in Seq(Lines) /\ Len(b) = i - d /\ Undivided(L, d + 1, i)
        /\ \A k \in 1..i - d : b[k] = L[d + k] /\ ~Blank(L[d + k])
    BY <2>2 DEF Block
  <2>4. /\ c \in Seq(Lines) /\ Len(c) = (i - d) + 1 /\ c[(i - d) + 1] = line
        /\ \A k \in 1..i - d : c[k] = b[k]
    <3> DEFINE l == line
    <3> HIDE DEF l, b
    <3>1. l \in Lines
      BY <1>1 DEF l
    <3>2. Append(b, l) \in Seq(Lines) /\ Len(Append(b, l)) = Len(b) + 1 /\ Append(b, l)[Len(b) + 1] = l
          /\ \A k \in 1..Len(b) : Append(b, l)[k] = b[k]
      BY <2>3, <3>1
    <3> QED BY <2>3, <3>2 DEF l
  <2> HIDE DEF c
  <2>5. next \in Accs /\ next.block.lines = c /\ next.out = acc.out
    BY <2>2, <2>4 DEF Accs
  <2>6. d \in Nat /\ i \in Nat /\ d <= i /\ (i + 1) - d = (i - d) + 1 /\ d + ((i - d) + 1) = i + 1 /\ d \in 0..i + 1
    BY <2>2
  <2>7. \A k \in 1..(i - d) + 1 : k \in 1..i - d \/ k = (i - d) + 1
    BY <2>6
  <2>8. \A k \in 1..(i + 1) - d : c[k] = L[d + k] /\ ~Blank(L[d + k])
    <3> SUFFICES ASSUME NEW k \in 1..(i - d) + 1 PROVE c[k] = L[d + k] /\ ~Blank(L[d + k])
      BY <2>6
    <3>1. CASE k \in 1..i - d
      BY <2>3, <2>4, <3>1
    <3>2. CASE k = (i - d) + 1
      BY <1>6, <2>4, <2>6, <3>2
    <3> QED BY <2>7, <3>1, <3>2
  <2>9. Undivided(L, d + 1, i + 1)
    <3>1. ~Blank(L[i + 1]) /\ ~Starts(L[i + 1])
      BY <1>6 DEF Starts
    <3>2. \A k \in (d + 1) + 1..i + 1 : k \in (d + 1) + 1..i \/ k = i + 1
      BY <2>6
    <3> QED BY <2>3, <3>1, <3>2 DEF Undivided
  <2>10. Block(c, L, i + 1, d)
    BY <2>4, <2>6, <2>8, <2>9 DEF Block
  <2> HIDE DEF next
  <2>11. CutTo(next, L, i + 1, d)
    BY <2>2, <2>5, <2>6, <2>10 DEF CutTo
  <2> QED BY <2>1, <2>11
<1>7. CASE ~Blank(line) /\ ~(~starts /\ continues)
  <2> DEFINE c == <<line>>
             next == [flushed EXCEPT !.block = [lines |-> c, list |-> starts]]
             o == flushed.out
  <2>1. ReadLine(acc, line) = next
    BY <1>7 DEF ReadLine, flushed
  <2>2. c \in Seq(Lines) /\ Len(c) = 1 /\ c[1] = line
    BY <1>1
  <2>3. starts \in BOOLEAN
    BY <1>3
  <2>4. o \in Seq(Seq(Nat)) /\ Written(o, L, i) /\ flushed = [out |-> o, block |-> NoBlock]
    BY <1>2
  <2> HIDE DEF c, starts, o
  <2>5. next = [out |-> o, block |-> [lines |-> c, list |-> starts]]
    BY <2>4
  <2> HIDE DEF next
  <2>6. next \in Accs /\ next.block.lines = c /\ next.out = o
    BY <2>2, <2>3, <2>4, <2>5 DEF Accs
  <2>7. Block(c, L, i + 1, i)
    <3>1. (i + 1) - i = 1 /\ \A k \in 1..1 : k = 1
      OBVIOUS
    <3>2. Undivided(L, i + 1, i + 1)
      <4>1. (i + 1) + 1..i + 1 = {}
        OBVIOUS
      <4> QED BY <4>1 DEF Undivided
    <3> QED BY <1>7, <2>2, <3>1, <3>2 DEF Block
  <2>8. CutTo(next, L, i + 1, i)
    BY <1>1, <2>4, <2>6, <2>7 DEF CutTo
  <2> QED BY <2>1, <2>8
<1> QED BY <1>5, <1>6, <1>7

\* Whatever is read, the accumulator keeps its shape.
LEMMA FlushedTyped ==
  ASSUME NEW acc \in Accs
  PROVE  Flushed(acc) \in Accs /\ Flushed(acc).block = NoBlock
<1> DEFINE b == acc.block.lines
           out == acc.out
           texts == Words(b)
           ones == [k \in 1..Len(texts) |-> <<texts[k]>>]
           more == IF b = <<>> THEN <<>> ELSE IF acc.block.list \/ Len(b) > 1 THEN <<texts>> ELSE ones
           A == Seq(Nat)
<1>1. Flushed(acc) = [out |-> out \o more, block |-> NoBlock]
  BY DEF Flushed, Words, SentencesOf
<1>2. b \in Seq(Lines) /\ out \in Seq(Seq(Nat))
  BY DEF Accs
<1>3. texts \in Seq(Nat)
  BY <1>2, WordsTyped
<1> HIDE DEF texts
<1>4. ones \in Seq(Seq(Nat))
  BY <1>3, FlatOfOnes
<1>5. <<texts>> \in Seq(Seq(Nat)) /\ <<>> \in Seq(Seq(Nat))
  BY <1>3
<1> HIDE DEF ones
<1>6. more \in Seq(Seq(Nat))
  BY <1>4, <1>5
<1> HIDE DEF more
<1>7. out \o more \in Seq(A)
  <2>1. out \in Seq(A) /\ more \in Seq(A)
    BY <1>2, <1>6
  <2> HIDE DEF A, out
  <2> QED BY <2>1, Joined
<1> DEFINE o == out \o more
<1>8. o \in Seq(Seq(Nat)) /\ Flushed(acc) = [out |-> o, block |-> NoBlock]
  BY <1>1, <1>7
<1> HIDE DEF o
<1>9. NoBlock \in [lines : Seq(Lines), list : BOOLEAN]
  BY DEF NoBlock
<1> QED BY <1>8, <1>9 DEF Accs

\* So does reading a line.
LEMMA ReadLineTyped ==
  ASSUME NEW acc \in Accs, NEW line \in Lines
  PROVE  ReadLine(acc, line) \in Accs
<1> DEFINE flushed == Flushed(acc)
           b == acc.block.lines
           c == Append(b, line)
           starts == line.list /\ ~line.indented
           continues == (line.indented /\ acc.block.lines # <<>>) \/ acc.block.list
<1>1. flushed \in Accs
  BY FlushedTyped
<1>2. starts \in BOOLEAN
  BY DEF Lines
<1>3. c \in Seq(Lines)
  BY DEF Accs
<1>4. [acc EXCEPT !.block.lines = c] \in Accs
  <2> HIDE DEF c
  <2> QED BY <1>3 DEF Accs
<1>5. [flushed EXCEPT !.block = [lines |-> <<line>>, list |-> starts]] \in Accs
  <2> DEFINE e == <<line>>
  <2>1. e \in Seq(Lines)
    OBVIOUS
  <2> HIDE DEF flushed, starts, e
  <2>2. [flushed EXCEPT !.block = [lines |-> e, list |-> starts]] \in Accs
    BY <1>1, <1>2, <2>1 DEF Accs
  <2> QED BY <2>2 DEF e
<1>6. CASE Blank(line)
  BY <1>1, <1>6 DEF ReadLine
<1>7. CASE ~Blank(line) /\ ~starts /\ continues
  BY <1>4, <1>7 DEF ReadLine
<1>8. CASE ~Blank(line) /\ ~(~starts /\ continues)
  BY <1>5, <1>8 DEF ReadLine
<1> QED BY <1>6, <1>7, <1>8

Begun == [out |-> <<>>, block |-> NoBlock]

\* After all lines.
LEMMA LinesRead ==
  ASSUME NEW L \in Seq(Lines)
  PROVE  \E d : CutTo(FoldLeft(ReadLine, Begun, L), L, Len(L), d)
<1> DEFINE n == Len(L)
           I == 1..n
           A == Accs
           step == [p \in I \X A |-> ReadLine(p[2], L[p[1]])]
           Value(g, T) == IF T = {} THEN Begun ELSE ReadLine(g[T \ {Max(T)}], L[Max(T)])
           iter == CHOOSE h : h = [T \in SUBSET I |-> Value(h, T)]
<1>1. n \in Nat /\ DOMAIN L = I /\ \A i \in I : L[i] \in Lines
  OBVIOUS
<1>2. \A i \in I, acc \in A : ReadLine(acc, L[i]) \in A
  BY <1>1, ReadLineTyped
<1>3. \A T \in SUBSET I : T # {} => LastIn(n)[T] = Max(T) /\ Max(T) \in T
  BY <1>1, LastOfEach
<1>4. CutTo(Begun, L, 0, 0)
  <2>1. Written(<<>>, L, 0)
    <3>1. <<>> \in Seq(Seq(Nat)) /\ \A k \in 1..Len(<<>>) : <<>>[k] = <<>>
      OBVIOUS
    <3>2. FlattenSeq(<<>>) = <<>>
      BY <3>1, FlatOfNone
    <3>3. SubSeq(L, 1, 0) \in Seq(Lines) /\ Len(SubSeq(L, 1, 0)) = 0
      BY <1>1, InTwo
    <3> DEFINE s == SubSeq(L, 1, 0)
    <3> HIDE DEF s
    <3>4. s \in Seq(Lines) /\ \A i \in 1..Len(s) : Blank(s[i])
      BY <3>3 DEF s
    <3>5. Words(s) = <<>>
      BY <3>4, WordsOfNone
    <3>6. Range(<<>>) = {}
      BY DEF Range
    <3> QED BY <3>1, <3>2, <3>5, <3>6 DEF Written, s
  <2>2. <<>> \in Seq(Seq(Nat)) /\ 0 \in Nat
    OBVIOUS
  <2>3. CutTo([out |-> <<>>, block |-> NoBlock], L, 0, 0)
    BY <2>1, <2>2, NoBlockIs
  <2> QED BY <2>3 DEF Begun
<1>5. \E g \in [SUBSET I -> A] : \A T \in SUBSET I : g[T] = Value(g, T)
  <2>1. step \in [I \X A -> A] /\ Begun \in A
    BY <1>2, <1>4 DEF CutTo
  <2>2. \A i \in I, t \in A : step[<<i, t>>] = ReadLine(t, L[i])
    OBVIOUS
  <2> HIDE DEF step, A, n
  <2>3. PICK g \in [SUBSET I -> A] : Folded(g, I, LastIn(n), Begun, step)
    BY <1>1, <2>1, FoldOfSequence
  <2>4. \A T \in SUBSET I : g[T] = Value(g, T)
    BY <1>3, <2>2, <2>3 DEF Folded
  <2> QED BY <2>3, <2>4
<1>6. FoldLeft(ReadLine, Begun, L) = iter[I]
  BY <1>1 DEF FoldLeft, MapThenFoldSet
<1>7. iter = [T \in SUBSET I |-> Value(iter, T)]
  <2> HIDE DEF Value
  <2>1. \E g : g = [T \in SUBSET I |-> Value(g, T)]
    BY <1>5
  <2> QED BY <2>1
<1> HIDE DEF iter
<1> DEFINE N == {i \in Nat : i <= n => \E d : CutTo(iter[1..i], L, i, d)}
<1>8. 0 \in N
  <2>1. 1..0 = {} /\ {} \in SUBSET I
    OBVIOUS
  <2>2. iter[{}] = Begun
    BY <1>7, <2>1
  <2>3. iter[1..0] = Begun
    BY <2>1, <2>2
  <2> QED BY <1>4, <2>3
<1>9. ASSUME NEW i \in N PROVE i + 1 \in N
  <2> SUFFICES ASSUME i + 1 <= n PROVE \E d : CutTo(iter[1..i + 1], L, i + 1, d)
    OBVIOUS
  <2>1. i \in Nat /\ (i <= n => \E d : CutTo(iter[1..i], L, i, d))
    OBVIOUS
  <2> HIDE DEF N
  <2> DEFINE T == 1..i + 1
             acc == iter[1..i]
  <2>2. Max(T) = i + 1 /\ T \ {i + 1} = 1..i /\ T # {}
    <3> HIDE DEF n
    <3> QED BY <2>1, LastOfInterval
  <2>3. T \in SUBSET I /\ i + 1 \in 1..Len(L) /\ i <= n
    BY <1>1, <2>1
  <2>4. iter[T] = ReadLine(iter[1..i], L[i + 1])
    <3>1. iter[T] = Value(iter, T)
      BY <1>7, <2>3
    <3> HIDE DEF T
    <3> QED BY <2>2, <3>1
  <2>5. PICK d : CutTo(acc, L, i, d)
    BY <2>1, <2>3
  <2> HIDE DEF acc, n
  <2>6. \E e : CutTo(ReadLine(acc, L[i + 1]), L, i + 1, e)
    BY <2>1, <2>3, <2>5, ReadLineCut
  <2> QED BY <2>4, <2>6 DEF acc
<1>10. N = Nat
  <2>1. N \in SUBSET Nat
    OBVIOUS
  <2> HIDE DEF N
  <2> QED BY <1>8, <1>9, <2>1, Numbers
<1>11. \E d : CutTo(iter[I], L, n, d)
  <2>1. n \in N
    BY <1>1, <1>10
  <2> QED BY <1>1, <2>1
<1> QED BY <1>6, <1>11

\* What the loop writes of lines, when the last block is flushed.
LEMMA AllWritten ==
  ASSUME NEW L \in Seq(Lines)
  PROVE  Written(Flushed(FoldLeft(ReadLine, Begun, L)).out, L, Len(L))
<1> DEFINE acc == FoldLeft(ReadLine, Begun, L)
<1>1. PICK d : CutTo(acc, L, Len(L), d)
  BY LinesRead
<1>2. Len(L) \in 0..Len(L)
  OBVIOUS
<1> HIDE DEF acc
<1>3. Written(Flushed(acc).out, L, Len(L))
  BY <1>1, <1>2, FlushedCut
<1> QED BY <1>3 DEF acc

\* The lines L are those of a field behind the first off, the indentation of the first aside.
Trimmed(L, lines, off) ==
  /\ off \in Nat /\ off + Len(L) <= Len(lines)
  /\ \A k \in 1..Len(L) : L[k].sentences = lines[off + k].sentences /\ (k # 1 => L[k] = lines[off + k])

\* The space around a field holds none of its text.
LEMMA NormalizedIs ==
  ASSUME NEW lines \in Seq(Lines)
  PROVE  /\ NormalizedField(lines) \in Seq(Lines) /\ Words(NormalizedField(lines)) = Words(lines)
         /\ \E off : Trimmed(NormalizedField(lines), lines, off)
<1> DEFINE n == Len(lines)
           written == {i \in 1..n : ~Blank(lines[i])}
           L == NormalizedField(lines)
           lo == Min(written)
           hi == Max(written)
           q == SubSeq(lines, lo, hi)
<1>1. n \in Nat /\ \A i \in 1..n : lines[i] \in Lines
  OBVIOUS
<1>2. L = IF written = {} THEN <<>> ELSE [q EXCEPT ![1].indented = FALSE]
  BY DEF NormalizedField
<1>3. CASE written = {}
  <2>1. L = <<>>
    BY <1>2, <1>3
  <2>2. Words(lines) = <<>>
    <3>1. \A i \in 1..Len(lines) : Blank(lines[i])
      BY <1>3
    <3> QED BY <3>1, WordsOfNone
  <2> HIDE DEF L
  <2>3. L \in Seq(Lines) /\ Len(L) = 0
    BY <2>1
  <2>4. Words(L) = <<>>
    <3>1. \A i \in 1..Len(L) : Blank(L[i])
      BY <2>3
    <3> QED BY <2>3, <3>1, WordsOfNone
  <2>5. Trimmed(L, lines, 0)
    BY <1>1, <2>3 DEF Trimmed
  <2>6. L \in Seq(Lines) /\ Words(L) = Words(lines) /\ \E o : Trimmed(L, lines, o)
    BY <2>2, <2>3, <2>4, <2>5
  <2> QED BY <2>6 DEF L
<1>4. CASE written # {}
  <2>1. lo \in written /\ \A i \in written : lo <= i
    <3>1. written \in SUBSET Nat
      OBVIOUS
    <3>2. PICK i \in written : \A j \in written : i <= j
      <4> HIDE DEF written
      <4> QED BY <1>4, <3>1, LeastOf
    <3> HIDE DEF written
    <3> QED BY <3>2 DEF Min
  <2>2. hi \in written /\ \A i \in written : i <= hi
    <3>1. written \in SUBSET (1..n)
      OBVIOUS
    <3> HIDE DEF written, n
    <3> QED BY <1>1, <1>4, <3>1, LastIndex
  <2>3. lo \in 1..n /\ hi \in 1..n /\ lo <= hi
    BY <2>1, <2>2
  <2>4. \A i \in 1..n : i < lo \/ i > hi => Blank(lines[i])
    <3> SUFFICES ASSUME NEW i \in 1..n, i < lo \/ i > hi, ~Blank(lines[i]) PROVE FALSE
      OBVIOUS
    <3>1. i \in written
      OBVIOUS
    <3>2. lo <= i /\ i <= hi
      BY <2>1, <2>2, <3>1
    <3> HIDE DEF written, lo, hi
    <3> QED BY <1>1, <2>3, <3>2
  <2> HIDE DEF lo, hi, written
  <2> DEFINE off == lo - 1
             a == SubSeq(lines, 1, hi)
             z == SubSeq(lines, hi + 1, Len(lines))
             p == SubSeq(a, 1, off)
             r == SubSeq(a, off + 1, Len(a))
  <2>5. off \in Nat /\ off + 1 = lo /\ hi \in 0..Len(lines) /\ hi \in Nat /\ lo \in Nat /\ off <= hi /\ n = Len(lines)
    BY <1>1, <2>3
  <2>6. /\ lines = a \o z /\ a \in Seq(Lines) /\ Len(a) = hi /\ (\A k \in 1..hi : a[k] = lines[k])
        /\ z \in Seq(Lines) /\ Len(z) = Len(lines) - hi /\ \A k \in 1..Len(lines) - hi : z[k] = lines[hi + k]
    BY <2>5, InTwo, ZenonT(60)
  <2> HIDE DEF a, z, off
  <2>7. /\ a = p \o r /\ p \in Seq(Lines) /\ Len(p) = off /\ (\A k \in 1..off : p[k] = a[k])
        /\ r \in Seq(Lines) /\ Len(r) = Len(a) - off /\ \A k \in 1..Len(a) - off : r[k] = a[off + k]
    <3>1. off \in 0..Len(a)
      BY <2>5, <2>6
    <3> QED BY <2>6, <3>1, InTwo, ZenonT(60)
  <2> HIDE DEF p, r
  <2>8. Words(p) = <<>>
    <3>1. \A k \in 1..Len(p) : Blank(p[k])
      <4> SUFFICES ASSUME NEW k \in 1..off PROVE Blank(p[k])
        BY <2>7
      <4>1. k \in 1..hi /\ k \in 1..n /\ k < lo
        BY <1>1, <2>3, <2>5
      <4>2. p[k] = lines[k]
        BY <2>6, <2>7, <4>1
      <4> QED BY <2>4, <4>1, <4>2
    <3> QED BY <2>7, <3>1, WordsOfNone
  <2>9. Words(z) = <<>>
    <3>1. \A k \in 1..Len(z) : Blank(z[k])
      <4> SUFFICES ASSUME NEW k \in 1..n - hi PROVE Blank(z[k])
        BY <2>5, <2>6
      <4>1. hi + k \in 1..n /\ hi + k > hi
        BY <1>1, <2>5
      <4>2. z[k] = lines[hi + k]
        BY <2>5, <2>6
      <4> QED BY <2>4, <4>1, <4>2
    <3> QED BY <2>6, <3>1, WordsOfNone
  <2>10. Words(lines) = Words(r)
    <3>1. Words(a \o z) = Words(a) \o Words(z) /\ Words(p \o r) = Words(p) \o Words(r)
      BY <2>6, <2>7, WordsBehind
    <3>2. Words(a) \in Seq(Nat) /\ Words(r) \in Seq(Nat)
      BY <2>6, <2>7, WordsTyped
    <3> DEFINE x == Words(a)
               y == Words(r)
    <3> HIDE DEF x, y
    <3>3. x \in Seq(Nat) /\ y \in Seq(Nat)
      BY <3>2 DEF x, y
    <3>4. x \o <<>> = x /\ <<>> \o y = y
      BY <3>3
    <3>5. Words(lines) = x
      BY <2>6, <2>9, <3>1, <3>4 DEF x
    <3>6. x = y
      BY <2>7, <2>8, <3>1, <3>4 DEF x, y
    <3> QED BY <3>5, <3>6 DEF y
  <2>11. r = q
    <3>1. q \in Seq(Lines) /\ Len(q) = hi - off /\ \A k \in 1..hi - off : q[k] = lines[off + k]
      <4>1. hi - off = (hi - lo) + 1 /\ \A k : k \in Nat => off + k = (lo + k) - 1
        BY <2>5
      <4>2. q \in Seq(Lines) /\ Len(q) = (hi - lo) + 1 /\ \A k \in 1..(hi - lo) + 1 : q[k] = lines[(lo + k) - 1]
        <5> HIDE DEF n
        <5>1. lo \in Nat /\ hi \in Nat /\ lo >= 1 /\ hi <= n /\ lo <= hi /\ n \in Nat /\ n = Len(lines)
          BY <1>1, <2>3, <2>5
        <5>2. q \in Seq(Lines) /\ Len(q) = (hi - lo) + 1
          BY <5>1
        <5>3. \A k \in 1..(hi - lo) + 1 : q[k] = lines[(lo + k) - 1]
          BY <5>1
        <5> QED BY <5>2, <5>3
      <4> HIDE DEF q
      <4> QED BY <2>5, <4>1, <4>2, SMTT(30)
    <3>2. \A k \in 1..hi - off : off + k \in 1..hi
      BY <2>5
    <3> HIDE DEF q
    <3>3. \A k \in 1..hi - off : r[k] = q[k]
      <4> SUFFICES ASSUME NEW k \in 1..hi - off PROVE r[k] = q[k]
        OBVIOUS
      <4>1. r[k] = a[off + k]
        BY <2>6, <2>7
      <4>2. a[off + k] = lines[off + k]
        BY <2>6, <3>2
      <4> QED BY <3>1, <4>1, <4>2
    <3>4. Len(r) = hi - off
      BY <2>6, <2>7
    <3> QED BY <2>7, <3>1, <3>3, <3>4, SeqEqual
  <2> HIDE DEF q
  <2>12. L = [r EXCEPT ![1].indented = FALSE]
    BY <1>2, <1>4, <2>11
  <2>13. /\ Len(r) = hi - off /\ Len(r) \in Nat /\ 1 \in 1..Len(r) /\ off + Len(r) <= n
         /\ \A k \in 1..Len(r) : r[k] = lines[off + k]
    <3>1. Len(r) = hi - off
      BY <2>6, <2>7
    <3>2. \A k \in 1..hi - off : off + k \in 1..hi
      BY <2>5
    <3>3. \A k \in 1..Len(r) : r[k] = lines[off + k]
      <4> SUFFICES ASSUME NEW k \in 1..hi - off PROVE r[k] = lines[off + k]
        BY <3>1
      <4>1. r[k] = a[off + k]
        BY <2>6, <2>7
      <4>2. a[off + k] = lines[off + k]
        BY <2>6, <3>2
      <4> QED BY <4>1, <4>2
    <3>4. hi - off \in Nat /\ 1 \in 1..hi - off /\ off + (hi - off) <= n
      BY <1>1, <2>3, <2>5
    <3> QED BY <3>1, <3>3, <3>4
  <2> HIDE DEF L, n
  <2> DEFINE e == [r[1] EXCEPT !.indented = FALSE]
             first == r[1]
  <2>14. L = [r EXCEPT ![1] = e]
    BY <2>12
  <2>15. first \in Lines
    BY <2>7, <2>13
  <2>16. e \in Lines /\ e.sentences = first.sentences
    <3> HIDE DEF first
    <3>1. e = [first EXCEPT !.indented = FALSE]
      BY DEF first
    <3> HIDE DEF e
    <3> QED BY <2>15, <3>1 DEF Lines
  <2> HIDE DEF e
  <2>17. L \in Seq(Lines) /\ Len(L) = Len(r) /\ L[1] = e /\ \A k \in 1..Len(r) : k # 1 => L[k] = r[k]
    BY <2>7, <2>13, <2>14, <2>16
  <2>18. \A k \in 1..Len(r) : L[k].sentences = r[k].sentences
    <3> SUFFICES ASSUME NEW k \in 1..Len(r) PROVE L[k].sentences = r[k].sentences
      OBVIOUS
    <3>1. CASE k = 1
      BY <2>16, <2>17, <3>1
    <3>2. CASE k # 1
      BY <2>17, <3>2
    <3> QED BY <3>1, <3>2
  <2>19. Words(L) = Words(r)
    <3>1. SentencesOf(L) = SentencesOf(r)
      BY <2>7, <2>17, <2>18, SameSentences
    <3> QED BY <3>1 DEF Words
  <2>20. Trimmed(L, lines, off)
    <3>1. \A k \in 1..Len(L) : L[k].sentences = lines[off + k].sentences /\ (k # 1 => L[k] = lines[off + k])
      BY <2>13, <2>17, <2>18
    <3>2. off \in Nat /\ off + Len(L) <= Len(lines)
      BY <2>5, <2>13, <2>17
    <3> QED BY <3>1, <3>2 DEF Trimmed
  <2>21. L \in Seq(Lines) /\ Words(L) = Words(lines) /\ \E o : Trimmed(L, lines, o)
    BY <2>10, <2>17, <2>19, <2>20
  <2> QED BY <2>21 DEF L
<1> QED BY <1>3, <1>4

\* A text of the field without the space around it is one of the field.
LEMMA FromTrimmed ==
  ASSUME NEW lines \in Seq(Lines), NEW L \in Seq(Lines), NEW off, Trimmed(L, lines, off), NEW u, FromLines(u, L, Len(L))
  PROVE  FromLines(u, lines, Len(lines))
<1> DEFINE n == Len(L)
           m == Len(lines)
<1>1. /\ n \in Nat /\ m \in Nat /\ off \in Nat /\ off + n <= m
      /\ \A k \in 1..n : L[k].sentences = lines[off + k].sentences /\ (k # 1 => L[k] = lines[off + k])
  BY DEF Trimmed
<1>2. u \in Seq(Nat) /\ u # <<>> /\ (\A s \in Range(u) : Said(s, L, n)) /\ Spans(u, L, n)
  BY DEF FromLines
<1> HIDE DEF n, m
<1>3. \A k \in 1..n : off + k \in 1..m
  BY <1>1
<1>4. ASSUME NEW s \in Range(u) PROVE Said(s, lines, m)
  <2>1. PICK k \in 1..n : s \in Range(L[k].sentences)
    BY <1>2 DEF Said
  <2>2. off + k \in 1..m /\ s \in Range(lines[off + k].sentences)
    BY <1>1, <1>3, <2>1
  <2> QED BY <2>2 DEF Said
<1>5. Spans(u, lines, m)
  <2>1. PICK lo \in 1..n, hi \in 1..n :
          u[1] \in Range(L[lo].sentences) /\ u[Len(u)] \in Range(L[hi].sentences) /\ Undivided(L, lo, hi)
    BY <1>2 DEF Spans
  <2>2. Undivided(lines, off + lo, off + hi)
    <3> SUFFICES ASSUME NEW j \in off + lo + 1..off + hi PROVE ~Blank(lines[j]) /\ ~Starts(lines[j])
      BY DEF Undivided
    <3> DEFINE k == j - off
    <3>1. k \in lo + 1..hi /\ off + k = j /\ k # 1 /\ k \in 1..n
      BY <1>1, <2>1
    <3> HIDE DEF k
    <3>2. L[k] = lines[j]
      BY <1>1, <3>1
    <3>3. ~Blank(L[k]) /\ ~Starts(L[k])
      BY <2>1, <3>1 DEF Undivided
    <3> QED BY <3>2, <3>3
  <2>3. off + lo \in 1..m /\ off + hi \in 1..m
    BY <1>3, <2>1
  <2>4. u[1] \in Range(lines[off + lo].sentences) /\ u[Len(u)] \in Range(lines[off + hi].sentences)
    BY <1>1, <2>1
  <2> QED BY <2>2, <2>3, <2>4 DEF Spans
<1> QED BY <1>2, <1>4, <1>5 DEF FromLines, m

\* The fragments of a field: they hold its text, and each is of lines of it.
LEMMA FragmentsAre ==
  ASSUME NEW lines \in Seq(Lines)
  PROVE  /\ Fragments(lines) \in Seq(Seq(Nat)) /\ FlattenSeq(Fragments(lines)) = Words(lines)
         /\ \A u \in Range(Fragments(lines)) : FromLines(u, lines, Len(lines))
<1> DEFINE L == NormalizedField(lines)
           out == Fragments(lines)
<1>1. L \in Seq(Lines) /\ Words(L) = Words(lines)
  BY NormalizedIs
<1>2. PICK off : Trimmed(L, lines, off)
  BY NormalizedIs
<1>3. out = Flushed(FoldLeft(ReadLine, Begun, L)).out
  BY DEF Fragments, Begun
<1> HIDE DEF L, out
<1>4. Written(out, L, Len(L))
  BY <1>1, <1>3, AllWritten
<1>5. SubSeq(L, 1, Len(L)) = L
  BY <1>1
<1>6. out \in Seq(Seq(Nat)) /\ FlattenSeq(out) = Words(lines)
  BY <1>1, <1>4, <1>5 DEF Written
<1>7. \A u \in Range(out) : FromLines(u, lines, Len(lines))
  <2> SUFFICES ASSUME NEW u \in Range(out) PROVE FromLines(u, lines, Len(lines))
    OBVIOUS
  <2>1. FromLines(u, L, Len(L))
    BY <1>4 DEF Written
  <2> QED BY <1>1, <1>2, <2>1, FromTrimmed
<1> QED BY <1>6, <1>7 DEF out

\* Where each of three sequences lies in all, the three one behind another.
Offsets(off, all, ss) ==
  /\ off \in [1..3 -> Nat] /\ Len(all) \in Nat /\ DOMAIN all = 1..Len(all)
  /\ \A k \in 1..3 : off[k] + Len(ss[k]) <= Len(all)
  /\ \A k \in 1..3 : \A j \in 1..Len(ss[k]) : all[off[k] + j] = ss[k][j]
  /\ \A i \in 1..Len(all) : \E k \in 1..3 : \E j \in 1..Len(ss[k]) : i = off[k] + j

\* Three sequences, flattened.
LEMMA FlatThree ==
  ASSUME NEW S, NEW ss \in Seq(Seq(S)), Len(ss) = 3
  PROVE  /\ ss[1] \in Seq(S) /\ ss[2] \in Seq(S) /\ ss[3] \in Seq(S)
         /\ FlattenSeq(ss) = (ss[1] \o ss[2]) \o ss[3]
<1> DEFINE a == ss[1]
           b == ss[2]
           c == ss[3]
<1>1. a \in Seq(S) /\ b \in Seq(S) /\ c \in Seq(S)
  <2> DEFINE A == Seq(S)
  <2>1. ss \in Seq(A)
    OBVIOUS
  <2> HIDE DEF A
  <2>2. \A i \in 1..Len(ss) : ss[i] \in A
    BY <2>1, ElementOfSeq
  <2>3. 1 \in 1..Len(ss) /\ 2 \in 1..Len(ss) /\ 3 \in 1..Len(ss)
    OBVIOUS
  <2>4. ss[1] \in A /\ ss[2] \in A /\ ss[3] \in A
    BY <2>2, <2>3
  <2> QED BY <2>4 DEF A
<1>2. PICK g \in [0..Len(ss) -> Seq(S)] : Flats(g, ss) /\ FlattenSeq(ss) = g[Len(ss)]
  BY FlatIs
<1>3. g[0] = <<>> /\ g[1] = g[0] \o a /\ g[2] = g[1] \o b /\ g[3] = g[2] \o c
  <2>1. /\ 1 \in 1..Len(ss) /\ 2 \in 1..Len(ss) /\ 3 \in 1..Len(ss)
        /\ 1 - 1 = 0 /\ 2 - 1 = 1 /\ 3 - 1 = 2
    OBVIOUS
  <2> QED BY <1>2, <2>1 DEF Flats
<1> HIDE DEF a, b, c
<1>4. g[1] = a
  BY <1>1, <1>3
<1>5. FlattenSeq(ss) = (a \o b) \o c
  BY <1>2, <1>3, <1>4
<1> QED BY <1>1, <1>5 DEF a, b, c

\* Each place in all is one in one of the three.
LEMMA InThree ==
  ASSUME NEW S, NEW ss \in Seq(Seq(S)), Len(ss) = 3
  PROVE  FlattenSeq(ss) \in Seq(S) /\ \E off : Offsets(off, FlattenSeq(ss), ss)
<1> DEFINE a == ss[1]
           b == ss[2]
           c == ss[3]
           ab == a \o b
           all == FlattenSeq(ss)
<1>1. a \in Seq(S) /\ b \in Seq(S) /\ c \in Seq(S) /\ all = ab \o c
  BY FlatThree
<1> DEFINE p == Len(a)
           q == Len(b)
           r == Len(c)
           off == [k \in 1..3 |-> IF k = 1 THEN 0 ELSE IF k = 2 THEN p ELSE p + q]
<1> HIDE DEF all, ab
<1>2. p \in Nat /\ q \in Nat /\ r \in Nat
  <2> HIDE DEF a, b, c
  <2> QED BY <1>1
<1>3. ab \in Seq(S) /\ IsJoint(ab, a, b)
  <2> HIDE DEF a, b, c
  <2> QED BY <1>1, Joined DEF ab
<1>4. all \in Seq(S) /\ IsJoint(all, ab, c)
  <2> HIDE DEF a, b, c
  <2> QED BY <1>1, <1>3, Joined
<1>5. /\ Len(all) = p + q + r /\ DOMAIN all = 1..Len(all)
      /\ \A j \in 1..p : all[j] = a[j]
      /\ \A j \in 1..q : all[p + j] = b[j]
      /\ \A j \in 1..r : all[p + q + j] = c[j]
  <2>1. Len(ab) = p + q /\ (\A j \in 1..p : ab[j] = a[j]) /\ \A j \in 1..q : ab[p + j] = b[j]
    BY <1>3 DEF IsJoint
  <2>2. Len(all) = (p + q) + r /\ (\A j \in 1..p + q : all[j] = ab[j]) /\ \A j \in 1..r : all[(p + q) + j] = c[j]
    BY <1>4, <2>1 DEF IsJoint
  <2>3. DOMAIN all = 1..Len(all)
    BY <1>4
  <2> HIDE DEF p, q, r, a, b, c
  <2>4. \A j \in 1..p : j \in 1..p + q
    BY <1>2
  <2>5. \A j \in 1..q : p + j \in 1..p + q
    BY <1>2
  <2> QED BY <1>2, <2>1, <2>2, <2>3, <2>4, <2>5
<1> HIDE DEF p, q, r
<1>6. off \in [1..3 -> Nat] /\ off[1] = 0 /\ off[2] = p /\ off[3] = p + q
  BY <1>2
<1> HIDE DEF off
<1>7. Len(ss[1]) = p /\ Len(ss[2]) = q /\ Len(ss[3]) = r
  BY DEF p, q, r
<1>8. \A k \in 1..3 : k = 1 \/ k = 2 \/ k = 3
  OBVIOUS
<1>9. \A k \in 1..3 : off[k] + Len(ss[k]) <= Len(all)
  BY <1>2, <1>5, <1>6, <1>7, <1>8
<1>10. \A k \in 1..3 : \A j \in 1..Len(ss[k]) : all[off[k] + j] = ss[k][j]
  <2>1. \A j \in 1..p : all[0 + j] = all[j]
    BY <1>2
  <2> SUFFICES ASSUME NEW k \in 1..3, NEW j \in 1..Len(ss[k]) PROVE all[off[k] + j] = ss[k][j]
    OBVIOUS
  <2>2. CASE k = 1
    BY <1>5, <1>6, <1>7, <2>1, <2>2
  <2>3. CASE k = 2
    BY <1>5, <1>6, <1>7, <2>3
  <2>4. CASE k = 3
    BY <1>5, <1>6, <1>7, <2>4
  <2> QED BY <1>8, <2>2, <2>3, <2>4
<1>11. \A i \in 1..Len(all) : \E k \in 1..3 : \E j \in 1..Len(ss[k]) : i = off[k] + j
  <2> SUFFICES ASSUME NEW i \in 1..Len(all) PROVE \E k \in 1..3 : \E j \in 1..Len(ss[k]) : i = off[k] + j
    OBVIOUS
  <2>0. 1 \in 1..3 /\ 2 \in 1..3 /\ 3 \in 1..3
    OBVIOUS
  <2>1. CASE i <= p
    <3>1. i \in 1..p /\ i = 0 + i
      BY <1>2, <1>5, <2>1
    <3> QED BY <1>6, <1>7, <2>0, <3>1
  <2>2. CASE i > p /\ i <= p + q
    <3>1. i - p \in 1..q /\ i = p + (i - p)
      BY <1>2, <1>5, <2>2
    <3> QED BY <1>6, <1>7, <2>0, <3>1
  <2>3. CASE i > p + q
    <3>1. i - (p + q) \in 1..r /\ i = (p + q) + (i - (p + q))
      BY <1>2, <1>5, <2>3
    <3> QED BY <1>6, <1>7, <2>0, <3>1
  <2> QED BY <1>2, <1>5, <2>1, <2>2, <2>3
<1>12. Len(all) \in Nat
  BY <1>4
<1>13. Offsets(off, all, ss)
  BY <1>5, <1>6, <1>9, <1>10, <1>11, <1>12 DEF Offsets
<1> QED BY <1>4, <1>13 DEF all

\* The lines of the fields of a job, and the units of them.
JobLines(job) == [k \in 1..3 |-> job[Fields[k]]]
FieldUnits(f, texts) == [i \in 1..Len(texts) |-> [field |-> f, ordinal |-> i, text |-> texts[i]]]
JobUnits == [field : Range(Fields), ordinal : Nat, text : Seq(Nat)]
Texts(units) == [i \in 1..Len(units) |-> units[i].text]

\* The fields have different names.
LEMMA FieldsAre ==
  /\ \A k \in 1..3 : Fields[k] \in Range(Fields)
  /\ \A k, l \in 1..3 : Fields[k] = Fields[l] => k = l
<1>1. DOMAIN Fields = 1..3
  BY DEF Fields
<1>2. Fields[1] = "responsibilities" /\ Fields[2] = "requirements" /\ Fields[3] = "preferred"
  BY DEF Fields
<1>3. \A k \in 1..3 : k = 1 \/ k = 2 \/ k = 3
  OBVIOUS
<1>4. \A k \in 1..3 : Fields[k] \in Range(Fields)
  BY <1>1 DEF Range
<1> QED BY <1>2, <1>3, <1>4

\* The lines of a job, by field.
LEMMA JobLinesAre ==
  ASSUME NEW job, IsText(job)
  PROVE  /\ JobLines(job) \in Seq(Seq(Lines)) /\ Len(JobLines(job)) = 3
         /\ \A k \in 1..3 : JobLines(job)[k] = job[Fields[k]] /\ job[Fields[k]] \in Seq(Lines)
<1> DEFINE A == Seq(Lines)
<1>1. job \in [Range(Fields) -> A]
  BY DEF IsText
<1> HIDE DEF A
<1>2. \A k \in 1..3 : job[Fields[k]] \in A
  BY <1>1, FieldsAre
<1> DEFINE L == [k \in 1..3 |-> job[Fields[k]]]
<1>3. L \in Seq(A) /\ Len(L) = 3 /\ \A k \in 1..3 : L[k] = job[Fields[k]]
  BY <1>2
<1>4. L = JobLines(job)
  BY DEF JobLines
<1> QED BY <1>2, <1>3, <1>4 DEF A

\* The units of a field.
LEMMA FieldUnitsAre ==
  ASSUME NEW f \in Range(Fields), NEW texts \in Seq(Seq(Nat))
  PROVE  /\ FieldUnits(f, texts) \in Seq(JobUnits) /\ Len(FieldUnits(f, texts)) = Len(texts) /\ Len(texts) \in Nat
         /\ Texts(FieldUnits(f, texts)) = texts
         /\ \A i \in 1..Len(texts) : FieldUnits(f, texts)[i] = [field |-> f, ordinal |-> i, text |-> texts[i]]
<1> DEFINE A == Seq(Nat)
           n == Len(texts)
           u == FieldUnits(f, texts)
<1>1. texts \in Seq(A)
  OBVIOUS
<1> HIDE DEF A
<1>2. n \in Nat /\ (\A i \in 1..n : texts[i] \in A) /\ DOMAIN texts = 1..n
  BY <1>1
<1>3. u = [i \in 1..n |-> [field |-> f, ordinal |-> i, text |-> texts[i]]]
  BY DEF FieldUnits
<1> HIDE DEF n, u
<1>4. \A i \in 1..n : [field |-> f, ordinal |-> i, text |-> texts[i]] \in JobUnits
  BY <1>2 DEF JobUnits, A
<1>5. u \in Seq(JobUnits) /\ Len(u) = n /\ \A i \in 1..n : u[i] = [field |-> f, ordinal |-> i, text |-> texts[i]]
  BY <1>2, <1>3, <1>4
<1>6. Texts(u) = texts
  <2>1. Texts(u) = [i \in 1..n |-> u[i].text]
    BY <1>5 DEF Texts
  <2>2. \A i \in 1..n : u[i].text = texts[i]
    BY <1>5
  <2>3. texts = [i \in 1..n |-> texts[i]]
    BY <1>1, <1>2
  <2> QED BY <2>1, <2>2, <2>3
<1> QED BY <1>2, <1>5, <1>6 DEF n, u

\* The texts of units.
LEMMA TextsTyped ==
  ASSUME NEW a \in Seq(JobUnits)
  PROVE  /\ Texts(a) \in Seq(Seq(Nat)) /\ Len(Texts(a)) = Len(a) /\ Len(a) \in Nat
         /\ \A i \in 1..Len(a) : Texts(a)[i] = a[i].text
<1> DEFINE A == Seq(Nat)
           n == Len(a)
           t == [i \in 1..n |-> a[i].text]
<1>1. n \in Nat /\ \A i \in 1..n : a[i].text \in A
  <2>1. n \in Nat /\ \A i \in 1..n : a[i] \in JobUnits
    OBVIOUS
  <2> QED BY <2>1 DEF JobUnits
<1>2. t \in Seq(A) /\ Len(t) = n /\ \A i \in 1..n : t[i] = a[i].text
  <2> HIDE DEF n, A
  <2> QED BY <1>1
<1> QED BY <1>1, <1>2 DEF Texts

\* The texts of units behind units.
LEMMA TextsBehind ==
  ASSUME NEW a \in Seq(JobUnits), NEW b \in Seq(JobUnits)
  PROVE  a \o b \in Seq(JobUnits) /\ Texts(a \o b) = Texts(a) \o Texts(b)
<1> DEFINE c == a \o b
           s == Texts(a)
           t == Texts(b)
           u == Texts(c)
           A == Seq(Nat)
<1>1. c \in Seq(JobUnits) /\ IsJoint(c, a, b)
  BY Joined
<1>2. /\ s \in Seq(A) /\ Len(s) = Len(a) /\ Len(a) \in Nat /\ \A i \in 1..Len(a) : s[i] = a[i].text
      /\ t \in Seq(A) /\ Len(t) = Len(b) /\ Len(b) \in Nat /\ \A i \in 1..Len(b) : t[i] = b[i].text
  BY TextsTyped
<1> HIDE DEF c
<1>3. u \in Seq(A) /\ Len(u) = Len(c) /\ Len(c) \in Nat /\ \A i \in 1..Len(c) : u[i] = c[i].text
  BY <1>1, TextsTyped
<1> HIDE DEF s, t, u, A
<1> DEFINE v == s \o t
<1>5. v \in Seq(A) /\ IsJoint(v, s, t)
  BY <1>2, Joined
<1> HIDE DEF v
<1>6. u = v
  <2>1. Len(u) = Len(v) /\ Len(v) = Len(a) + Len(b)
    BY <1>1, <1>2, <1>3, <1>5 DEF IsJoint
  <2>2. ASSUME NEW i \in 1..Len(v) PROVE u[i] = v[i]
    <3>1. CASE i \in 1..Len(a)
      <4>1. v[i] = s[i] /\ c[i] = a[i]
        BY <1>1, <1>2, <1>5, <3>1 DEF IsJoint
      <4> QED BY <1>2, <1>3, <2>1, <3>1, <4>1
    <3>2. CASE i \notin 1..Len(a)
      <4>1. PICK j \in 1..Len(b) : i = Len(a) + j
        <5>1. i - Len(a) \in 1..Len(b) /\ i = Len(a) + (i - Len(a))
          BY <1>2, <2>1, <3>2
        <5> QED BY <5>1
      <4>2. v[i] = t[j] /\ c[i] = b[j]
        BY <1>1, <1>2, <1>5, <4>1 DEF IsJoint
      <4> QED BY <1>2, <1>3, <2>1, <4>1, <4>2
    <3> QED BY <3>1, <3>2
  <2> QED BY <1>3, <1>5, <2>1, <2>2, SeqEqual
<1> QED BY <1>1, <1>6 DEF u, v, c, s, t

\* The units of a job are those of its three fields, and hold its text.
LEMMA JobUnitsAre ==
  ASSUME NEW job, IsText(job)
  PROVE  LET units == SourceUnits(job).units
             lines == FlattenSeq(JobLines(job))
         IN /\ units \in Seq(JobUnits) /\ lines \in Seq(Lines)
            /\ FlattenSeq(Texts(units)) = Words(lines)
            /\ \E uu : /\ \A k \in 1..3 : uu[k] = FieldUnits(Fields[k], Fragments(job[Fields[k]]))
                       /\ \E off : Offsets(off, units, uu)
            /\ \E off : Offsets(off, lines, JobLines(job))
<1> DEFINE T(k) == Fragments(job[Fields[k]])
           U(k) == FieldUnits(Fields[k], T(k))
           uu == [k \in 1..3 |-> U(k)]
           ll == JobLines(job)
           units == SourceUnits(job).units
           lines == FlattenSeq(ll)
           A == Seq(JobUnits)
<1>0. \A k \in 1..3 : k = 1 \/ k = 2 \/ k = 3
  OBVIOUS
<1>1. ll \in Seq(Seq(Lines)) /\ Len(ll) = 3 /\ \A k \in 1..3 : ll[k] = job[Fields[k]] /\ job[Fields[k]] \in Seq(Lines)
  BY JobLinesAre
<1>2. \A k \in 1..3 : T(k) \in Seq(Seq(Nat)) /\ FlattenSeq(T(k)) = Words(ll[k])
  BY <1>1, FragmentsAre
<1>3. units = FlattenSeq(uu)
  BY DEF SourceUnits, FieldUnits
<1> HIDE DEF units, ll, lines, T
<1>4. \A k \in 1..3 : U(k) \in Seq(JobUnits) /\ Texts(U(k)) = T(k)
  BY <1>2, FieldsAre, FieldUnitsAre
<1> HIDE DEF U
<1>5. uu \in Seq(Seq(JobUnits)) /\ Len(uu) = 3 /\ \A k \in 1..3 : uu[k] = U(k)
  <2>1. \A k \in 1..3 : U(k) \in A
    BY <1>4
  <2> HIDE DEF A
  <2>2. uu \in Seq(A) /\ Len(uu) = 3 /\ \A k \in 1..3 : uu[k] = U(k)
    BY <2>1
  <2> QED BY <2>2 DEF A
<1> HIDE DEF uu, A
<1>6. /\ lines \in Seq(Lines) /\ (\E off : Offsets(off, lines, ll))
      /\ ll[1] \in Seq(Lines) /\ ll[2] \in Seq(Lines) /\ ll[3] \in Seq(Lines)
      /\ lines = (ll[1] \o ll[2]) \o ll[3]
  BY <1>1, InThree, FlatThree DEF lines
<1>7. /\ units \in Seq(JobUnits) /\ (\E off : Offsets(off, units, uu))
      /\ uu[1] \in Seq(JobUnits) /\ uu[2] \in Seq(JobUnits) /\ uu[3] \in Seq(JobUnits)
      /\ units = (uu[1] \o uu[2]) \o uu[3]
  BY <1>3, <1>5, InThree, FlatThree
<1>8. FlattenSeq(Texts(units)) = Words(lines)
  <2> DEFINE a == uu[1]
             b == uu[2]
             c == uu[3]
             x == ll[1]
             y == ll[2]
             z == ll[3]
  <2>1. Texts(a) = T(1) /\ Texts(b) = T(2) /\ Texts(c) = T(3)
    BY <1>4, <1>5
  <2>2. /\ T(1) \in Seq(Seq(Nat)) /\ T(2) \in Seq(Seq(Nat)) /\ T(3) \in Seq(Seq(Nat))
        /\ FlattenSeq(T(1)) = Words(x) /\ FlattenSeq(T(2)) = Words(y) /\ FlattenSeq(T(3)) = Words(z)
    BY <1>2
  <2> HIDE DEF a, b, c, x, y, z
  <2>3. a \in Seq(JobUnits) /\ b \in Seq(JobUnits) /\ c \in Seq(JobUnits) /\ units = (a \o b) \o c
    BY <1>7 DEF a, b, c
  <2>4. x \in Seq(Lines) /\ y \in Seq(Lines) /\ z \in Seq(Lines) /\ lines = (x \o y) \o z
    BY <1>6 DEF x, y, z
  <2>5. Texts(units) = (T(1) \o T(2)) \o T(3)
    <3>1. a \o b \in Seq(JobUnits) /\ Texts(a \o b) = Texts(a) \o Texts(b)
      BY <2>3, TextsBehind
    <3> DEFINE ab == a \o b
    <3>2. ab \in Seq(JobUnits) /\ Texts(ab) = T(1) \o T(2) /\ units = ab \o c
      BY <2>1, <2>3, <3>1
    <3> HIDE DEF ab
    <3>3. Texts(ab \o c) = Texts(ab) \o Texts(c)
      BY <2>3, <3>2, TextsBehind
    <3> QED BY <2>1, <3>2, <3>3
  <2>6. Words(lines) = (Words(x) \o Words(y)) \o Words(z)
    <3>1. x \o y \in Seq(Lines) /\ Words(x \o y) = Words(x) \o Words(y)
      BY <2>4, WordsBehind
    <3> DEFINE xy == x \o y
    <3>2. xy \in Seq(Lines) /\ Words(xy) = Words(x) \o Words(y) /\ lines = xy \o z
      BY <2>4, <3>1
    <3> HIDE DEF xy
    <3>3. Words(xy \o z) = Words(xy) \o Words(z)
      BY <2>4, <3>2, WordsBehind
    <3> QED BY <3>2, <3>3
  <2>7. FlattenSeq((T(1) \o T(2)) \o T(3)) = (Words(x) \o Words(y)) \o Words(z)
    <3> DEFINE t == T(1)
               v == T(2)
               w == T(3)
               B == Seq(Nat)
    <3>1. t \in Seq(Seq(Nat)) /\ v \in Seq(Seq(Nat)) /\ w \in Seq(Seq(Nat))
      BY <2>2
    <3>0. FlattenSeq(t) = Words(x) /\ FlattenSeq(v) = Words(y) /\ FlattenSeq(w) = Words(z)
      BY <2>2
    <3>4. t \in Seq(B) /\ v \in Seq(B)
      BY <3>1
    <3> HIDE DEF t, v, w, B
    <3> DEFINE tv == t \o v
    <3>5. tv \in Seq(B)
      BY <3>4
    <3> HIDE DEF tv
    <3>6. tv \in Seq(Seq(Nat))
      BY <3>5 DEF B
    <3>2. FlattenSeq(tv) = FlattenSeq(t) \o FlattenSeq(v)
      BY <3>1, FlatBehind DEF tv
    <3>3. FlattenSeq(tv \o w) = FlattenSeq(tv) \o FlattenSeq(w)
      BY <3>1, <3>6, FlatBehind
    <3> QED BY <3>0, <3>2, <3>3 DEF tv, t, v, w
  <2> QED BY <2>5, <2>6, <2>7
<1>9. \A k \in 1..3 : uu[k] = FieldUnits(Fields[k], Fragments(job[Fields[k]]))
  BY <1>5 DEF U, T
<1> QED BY <1>6, <1>7, <1>8, <1>9 DEF units, lines, ll

\* A sentence is in one line only.
LEMMA LinesApart ==
  ASSUME NEW job, IsText(job), NEW i \in 1..Len(FlattenSeq(JobLines(job))), NEW j \in 1..Len(FlattenSeq(JobLines(job))),
         NEW s, s \in Range(FlattenSeq(JobLines(job))[i].sentences), s \in Range(FlattenSeq(JobLines(job))[j].sentences)
  PROVE  i = j
<1> DEFINE lines == FlattenSeq(JobLines(job))
<1>1. \A p, q \in 1..Len(lines) : Range(lines[p].sentences) \cap Range(lines[q].sentences) # {} => p = q
  BY DEF IsText, JobLines
<1> HIDE DEF lines
<1>2. i \in 1..Len(lines) /\ j \in 1..Len(lines)
  BY DEF lines
<1>3. s \in Range(lines[i].sentences) \cap Range(lines[j].sentences)
  BY DEF lines
<1> QED BY <1>1, <1>2, <1>3

\* The units of a job hold its text, once and in order, and join nothing that is apart.
LEMMA SplitAfterAll ==
  ASSUME NEW job, IsText(job)
  PROVE  SplitKeepsText(job)
<1> DEFINE T(k) == Fragments(job[Fields[k]])
           L(k) == job[Fields[k]]
           units == SourceUnits(job).units
           lines == FlattenSeq(JobLines(job))
           LineOf(s) == CHOOSE i \in 1..Len(lines) : s \in Range(lines[i].sentences)
<1>1. /\ units \in Seq(JobUnits) /\ lines \in Seq(Lines) /\ FlattenSeq(Texts(units)) = Words(lines)
      /\ (\E uu : /\ \A k \in 1..3 : uu[k] = FieldUnits(Fields[k], T(k))
                  /\ \E off : Offsets(off, units, uu))
      /\ \E off : Offsets(off, lines, JobLines(job))
  BY JobUnitsAre
<1>2. PICK uu : /\ \A k \in 1..3 : uu[k] = FieldUnits(Fields[k], T(k))
                /\ \E off : Offsets(off, units, uu)
  BY <1>1
<1>3. PICK uoff : Offsets(uoff, units, uu)
  BY <1>2
<1>4. PICK off : Offsets(off, lines, JobLines(job))
  BY <1>1
<1>5. \A k \in 1..3 : L(k) \in Seq(Lines) /\ JobLines(job)[k] = L(k) /\ Len(L(k)) \in Nat /\ DOMAIN L(k) = 1..Len(L(k))
  <2>1. \A k \in 1..3 : L(k) \in Seq(Lines) /\ JobLines(job)[k] = L(k)
    BY JobLinesAre
  <2> HIDE DEF L
  <2> QED BY <2>1
<1>6. \A k \in 1..3 : T(k) \in Seq(Seq(Nat)) /\ \A u \in Range(T(k)) : FromLines(u, L(k), Len(L(k)))
  BY <1>5, FragmentsAre
<1> HIDE DEF units, lines, T, LineOf
<1>7. \A k \in 1..3 : /\ Len(uu[k]) = Len(T(k)) /\ Len(T(k)) \in Nat
                      /\ \A j \in 1..Len(T(k)) : uu[k][j] = [field |-> Fields[k], ordinal |-> j, text |-> T(k)[j]]
  <2> SUFFICES ASSUME NEW k \in 1..3
               PROVE  /\ Len(uu[k]) = Len(T(k)) /\ Len(T(k)) \in Nat
                      /\ \A j \in 1..Len(T(k)) : uu[k][j] = [field |-> Fields[k], ordinal |-> j, text |-> T(k)[j]]
    OBVIOUS
  <2> DEFINE f == Fields[k]
             texts == T(k)
  <2>1. f \in Range(Fields) /\ texts \in Seq(Seq(Nat)) /\ uu[k] = FieldUnits(f, texts)
    BY <1>2, <1>6, FieldsAre
  <2> HIDE DEF f, texts
  <2>2. /\ Len(FieldUnits(f, texts)) = Len(texts) /\ Len(texts) \in Nat
        /\ \A i \in 1..Len(texts) : FieldUnits(f, texts)[i] = [field |-> f, ordinal |-> i, text |-> texts[i]]
    BY <2>1, FieldUnitsAre
  <2> QED BY <2>1, <2>2 DEF f, texts
<1>8. /\ uoff \in [1..3 -> Nat] /\ Len(units) \in Nat /\ DOMAIN units = 1..Len(units)
      /\ \A k \in 1..3 : \A j \in 1..Len(T(k)) : units[uoff[k] + j] = uu[k][j]
      /\ \A i \in 1..Len(units) : \E k \in 1..3 : \E j \in 1..Len(T(k)) : i = uoff[k] + j
  BY <1>3, <1>7, ZenonT(60) DEF Offsets
<1>9. \A i \in 1..Len(units) : \E k \in 1..3 : \E j \in 1..Len(T(k)) :
         i = uoff[k] + j /\ units[i] = [field |-> Fields[k], ordinal |-> j, text |-> T(k)[j]]
  <2> SUFFICES ASSUME NEW i \in 1..Len(units)
               PROVE \E k \in 1..3 : \E j \in 1..Len(T(k)) :
                       i = uoff[k] + j /\ units[i] = [field |-> Fields[k], ordinal |-> j, text |-> T(k)[j]]
    OBVIOUS
  <2>1. PICK k \in 1..3 : \E j \in 1..Len(T(k)) : i = uoff[k] + j
    BY <1>8
  <2>2. PICK j \in 1..Len(T(k)) : i = uoff[k] + j
    BY <2>1
  <2>3. units[i] = uu[k][j]
    BY <1>8, <2>2
  <2> QED BY <1>7, <2>2, <2>3
<1>10. FlattenSeq([i \in 1..Len(units) |-> units[i].text]) = FlattenSeq([i \in 1..Len(lines) |-> lines[i].sentences])
  BY <1>1 DEF Texts, Words, SentencesOf
<1>11. IsInjective([i \in 1..Len(units) |-> <<units[i].field, units[i].ordinal>>])
  <2> SUFFICES ASSUME NEW a \in 1..Len(units), NEW b \in 1..Len(units),
                      <<units[a].field, units[a].ordinal>> = <<units[b].field, units[b].ordinal>>
               PROVE  a = b
    BY DEF IsInjective
  <2>11. PICK k \in 1..3 : \E j \in 1..Len(T(k)) :
          a = uoff[k] + j /\ units[a] = [field |-> Fields[k], ordinal |-> j, text |-> T(k)[j]]
    BY <1>9
  <2>1. PICK j \in 1..Len(T(k)) :
          a = uoff[k] + j /\ units[a] = [field |-> Fields[k], ordinal |-> j, text |-> T(k)[j]]
    BY <2>11
  <2>12. PICK l \in 1..3 : \E i \in 1..Len(T(l)) :
          b = uoff[l] + i /\ units[b] = [field |-> Fields[l], ordinal |-> i, text |-> T(l)[i]]
    BY <1>9
  <2>2. PICK i \in 1..Len(T(l)) :
          b = uoff[l] + i /\ units[b] = [field |-> Fields[l], ordinal |-> i, text |-> T(l)[i]]
    BY <2>12
  <2>3. units[a].field = units[b].field /\ units[a].ordinal = units[b].ordinal
    OBVIOUS
  <2>4. Fields[k] = Fields[l] /\ i = j
    BY <2>1, <2>2, <2>3
  <2>5. k = l
    BY <2>4, FieldsAre
  <2> QED BY <2>1, <2>2, <2>4, <2>5
<1>12. ASSUME NEW u \in Range(units)
       PROVE  /\ u.text # <<>>
              /\ \A s \in Range(u.text) : \E l \in Range(job[u.field]) : s \in Range(l.sentences)
              /\ \A p \in LineOf(u.text[1]) + 1..LineOf(u.text[Len(u.text)]) :
                   ~Blank(lines[p]) /\ ~(lines[p].list /\ ~lines[p].indented)
  <2>1. PICK x \in 1..Len(units) : u = units[x]
    BY <1>8 DEF Range
  <2>21. PICK k \in 1..3 : \E j \in 1..Len(T(k)) :
          x = uoff[k] + j /\ units[x] = [field |-> Fields[k], ordinal |-> j, text |-> T(k)[j]]
    BY <1>9
  <2>2. PICK j \in 1..Len(T(k)) :
          x = uoff[k] + j /\ units[x] = [field |-> Fields[k], ordinal |-> j, text |-> T(k)[j]]
    BY <2>21
  <2> DEFINE t == u.text
             m == Len(L(k))
  <2>3. u.field = Fields[k] /\ t = T(k)[j]
    BY <2>1, <2>2
  <2> HIDE DEF t
  <2>4. t \in Range(T(k))
    <3>1. DOMAIN T(k) = 1..Len(T(k))
      <4> DEFINE A == Seq(Nat)
      <4>1. T(k) \in Seq(A)
        BY <1>6
      <4> HIDE DEF A
      <4> QED BY <4>1
    <3> QED BY <2>2, <2>3, <3>1 DEF Range
  <2>5. FromLines(t, L(k), m)
    BY <1>6, <2>4
  <2>6. t # <<>> /\ (\A s \in Range(t) : Said(s, L(k), m)) /\ Spans(t, L(k), m)
    BY <2>5 DEF FromLines
  <2>7. \A s \in Range(t) : \E l \in Range(job[u.field]) : s \in Range(l.sentences)
    <3> SUFFICES ASSUME NEW s \in Range(t) PROVE \E l \in Range(L(k)) : s \in Range(l.sentences)
      BY <2>3
    <3>1. PICK i \in 1..m : s \in Range(L(k)[i].sentences)
      BY <2>6 DEF Said
    <3>2. L(k)[i] \in Range(L(k))
      BY <1>5, <3>1 DEF Range
    <3> QED BY <3>1, <3>2
  <2>8. PICK lo \in 1..m, hi \in 1..m :
          t[1] \in Range(L(k)[lo].sentences) /\ t[Len(t)] \in Range(L(k)[hi].sentences) /\ Undivided(L(k), lo, hi)
    BY <2>6 DEF Spans
  <2> DEFINE o == off[k]
  <2>9. /\ o \in Nat /\ m \in Nat /\ o + m <= Len(lines) /\ Len(lines) \in Nat
        /\ \A i \in 1..m : lines[o + i] = L(k)[i]
    <3> DEFINE ll == JobLines(job)
    <3>1. Len(ll[k]) = m /\ ll[k] = L(k) /\ m \in Nat
      BY <1>5
    <3> HIDE DEF ll, L, m
    <3>2. Offsets(off, lines, ll)
      BY <1>4 DEF ll
    <3>3. off[k] \in Nat /\ off[k] + Len(ll[k]) <= Len(lines) /\ Len(lines) \in Nat
      BY <3>2 DEF Offsets
    <3>4. \A i \in 1..Len(ll[k]) : lines[off[k] + i] = ll[k][i]
      BY <3>2 DEF Offsets
    <3> QED BY <3>1, <3>3, <3>4
  <2> HIDE DEF o, m, L
  <2>10. \A i \in 1..m : o + i \in 1..Len(lines)
    BY <2>9
  <2>11. ASSUME NEW s, NEW i \in 1..m, s \in Range(L(k)[i].sentences) PROVE LineOf(s) = o + i
    <3>1. o + i \in 1..Len(lines) /\ s \in Range(lines[o + i].sentences)
      BY <2>9, <2>10, <2>11
    <3>2. LineOf(s) \in 1..Len(lines) /\ s \in Range(lines[LineOf(s)].sentences)
      BY <3>1 DEF LineOf
    <3> DEFINE e == LineOf(s)
               f == o + i
    <3> HIDE DEF e, f
    <3>3. /\ e \in 1..Len(FlattenSeq(JobLines(job))) /\ f \in 1..Len(FlattenSeq(JobLines(job)))
          /\ s \in Range(FlattenSeq(JobLines(job))[e].sentences) /\ s \in Range(FlattenSeq(JobLines(job))[f].sentences)
      BY <3>1, <3>2 DEF lines, e, f
    <3>4. e = f
      BY <3>3, LinesApart
    <3> QED BY <3>4 DEF e, f
  <2>12. LineOf(t[1]) = o + lo /\ LineOf(t[Len(t)]) = o + hi
    BY <2>8, <2>11
  <2>13. \A p \in o + lo + 1..o + hi : ~Blank(lines[p]) /\ ~(lines[p].list /\ ~lines[p].indented)
    <3> SUFFICES ASSUME NEW p \in o + lo + 1..o + hi PROVE ~Blank(lines[p]) /\ ~(lines[p].list /\ ~lines[p].indented)
      OBVIOUS
    <3> DEFINE q == p - o
    <3>1. q \in lo + 1..hi /\ q \in 1..m /\ p = o + q
      BY <2>8, <2>9
    <3> HIDE DEF q
    <3>2. lines[p] = L(k)[q]
      BY <2>9, <3>1
    <3>3. ~Blank(L(k)[q]) /\ ~Starts(L(k)[q])
      BY <2>8, <3>1 DEF Undivided
    <3> QED BY <3>2, <3>3 DEF Starts
  <2> QED BY <2>6, <2>7, <2>12, <2>13 DEF t
<1>13. SplitKeepsText(job)
  <2> USE DEF units, lines, LineOf, JobLines
  <2> QED BY <1>10, <1>11, <1>12 DEF SplitKeepsText
<1> QED BY <1>13

-----------------------------------------------------------------------------
(* Plans *)

\* The input of a step that is about a plan is one of the constants'.
PlansTaken ==
  /\ input.kind = "job" => input.value \in JobTexts
  /\ input.kind = "plan" => input.value \in PlanAnswers \X JobPhrases
  /\ input.kind = "draft" => input.value \in Drafts \X JobPhrases
  /\ input.kind = "edits" => input.value \in EditedLists

\* What becomes of every job's text (build_five_section_source_units), of every answer that
\* _parse_v5_plan_response reads and of every draft and edit of HR's: the units hold the text,
\* the plan does not depend on the answer's order, its unreviewed criteria agree with what they
\* quote, a screening takes it and HR can save it, and edits keep the identifiers of others.
THEOREM PlansAlwaysSound == AnswersSpec => []PlansSound
<1>1. Init => PlansTaken
  BY DEF Init, PlansTaken
<1>2. PlansTaken /\ [Next]_<<input, made>> => PlansTaken'
  <2>1. SUFFICES ASSUME PlansTaken, Next PROVE PlansTaken'
    BY DEF PlansTaken
  <2>2. CASE CutJob \/ MakePlan \/ SaveDraft \/ EditList
    BY <2>2 DEF CutJob, MakePlan, SaveDraft, EditList, Chosen, PlansTaken
  <2>3. CASE input'.kind \notin {"job", "plan", "draft", "edits"}
    BY <2>3 DEF PlansTaken
  <2>4. CASE UNCHANGED input
    BY <2>1, <2>4 DEF PlansTaken
  <2> QED
    BY <2>1, <2>2, <2>3, <2>4
    DEF Next, ReadDates, ReadResume, CheckReport, Evaluate, ListTags, Request,
        GenerateFacts, Chosen, Asks, AskExtraction, AskCoverage, AskRepair, AskGrouping
<1>3. PlansTaken => PlansSound
  <2>1. SUFFICES ASSUME PlansTaken PROVE PlansSound
    OBVIOUS
  <2>2. \A job \in JobTexts : SplitKeepsText(job)
    BY PlansAssumption, SplitAfterAll
  <2>3. ASSUME NEW answer \in PlanAnswers, NEW jd \in JobPhrases
        PROVE  /\ PlanIgnoresOrder(answer, jd) /\ UnreviewedAgrees(answer, jd)
               /\ PlanUsable(answer, jd) /\ PlanEditable(answer, jd)
    <3>1. IsJob(jd) /\ answer \in Seq(Criteria) /\ Comparable(Range(answer))
      BY PlansAssumption
    <3> QED BY <3>1, OrderIgnored, UnreviewedAfterAll, UsableAfterAll, EditableAfterAll
  <2>4. ASSUME NEW d \in Drafts, NEW jd \in JobPhrases
        PROVE  DraftUsable(d.draft, d.current, d.used, jd)
    <3> DEFINE draft == d.draft
               current == d.current
               used == d.used
    <3>1. IsJob(jd) /\ draft \in Seq(Items) /\ used \subseteq 1..MaxNumber /\ ItemIds(current) \subseteq used
      BY PlansAssumption
    <3>3. IsFiniteSet(used) /\ used \in SUBSET Nat
      <4> HIDE DEF used
      <4>1. IsFiniteSet(1..MaxNumber)
        BY LimitsAssumption, FS_Interval
      <4>2. used \in SUBSET (1..MaxNumber)
        BY <3>1
      <4>3. used \in SUBSET Nat
        BY <4>2
      <4> QED BY <4>1, <4>2, <4>3, FS_Subset
    <3> HIDE DEF draft, current, used
    <3>2. DraftUsable(draft, current, used, jd)
      BY <3>1, <3>3, DraftAfterAll
    <3> QED BY <3>2 DEF draft, current, used
  <2>5. ASSUME NEW e \in EditedLists PROVE EditsKeepIds(e.items, e.first, e.second)
    <3> DEFINE items == e.items
               first == e.first
               second == e.second
    <3>1. items \in Seq(Items) /\ Cardinality(ItemIds(items)) = Cardinality(Old(items)) /\ first \in Items /\ second \in Items
      BY PlansAssumption
    <3> HIDE DEF items, first, second
    <3>2. EditsKeepIds(items, first, second)
      BY <3>1, EditsAfterAll
    <3> QED BY <3>2 DEF items, first, second
  <2>6. Each("job", SplitKeepsText)
    BY <2>1, <2>2 DEF Each, PlansTaken
  <2>7. Each("plan", LAMBDA a : PlanIgnoresOrder(a[1], a[2]) /\ UnreviewedAgrees(a[1], a[2])
                                  /\ PlanUsable(a[1], a[2]) /\ PlanEditable(a[1], a[2]))
    BY <2>1, <2>3 DEF Each, PlansTaken
  <2>8. Each("draft", LAMBDA a : DraftUsable(a[1].draft, a[1].current, a[1].used, a[2]))
    BY <2>1, <2>4 DEF Each, PlansTaken
  <2>9. Each("edits", LAMBDA e : EditsKeepIds(e.items, e.first, e.second))
    BY <2>1, <2>5 DEF Each, PlansTaken
  <2> QED BY <2>6, <2>7, <2>8, <2>9 DEF PlansSound
<1> QED BY <1>1, <1>2, <1>3, PTL DEF AnswersSpec

-----------------------------------------------------------------------------
(* Requests *)

\* A reply that lets the request be made again did not come from the model.
LEMMA AnsweredNotRetryable ==
  ASSUME NEW first \in Replies, Retryable(ErrorOf(first))
  PROVE  ~ModelAnswered(first) /\ first # "not sent"
BY DEF Replies, Retryable, ErrorOf, ModelAnswered

\* The input of a step that is about replies is a pair of them.
RepliesPaired == input.kind = "replies" => input.value \in Replies \X Replies

\* For every pair of replies: a request that the model has answered, or that was never sent,
\* is not made a second time (build_v5_plan_content).
THEOREM NeverAskedTwice == AnswersSpec => []NotAskedTwice
<1>1. Init => RepliesPaired
  BY DEF Init, RepliesPaired
<1>2. RepliesPaired /\ [Next]_<<input, made>> => RepliesPaired'
  <2>1. SUFFICES ASSUME RepliesPaired, Next PROVE RepliesPaired'
    BY DEF RepliesPaired
  <2>2. CASE Request
    BY <2>2 DEF Request, Chosen, RepliesPaired
  <2>3. CASE input'.kind # "replies"
    BY <2>3 DEF RepliesPaired
  <2>4. CASE UNCHANGED input
    BY <2>1, <2>4 DEF RepliesPaired
  <2> QED
    BY <2>1, <2>2, <2>3, <2>4
    DEF Next, ReadDates, ReadResume, CheckReport, Evaluate, CutJob, MakePlan, SaveDraft, EditList,
        ListTags, GenerateFacts, Chosen, Asks, AskExtraction, AskCoverage, AskRepair, AskGrouping
<1>3. RepliesPaired => NotAskedTwice
  <2>1. \A first, second \in Replies : RepeatedUnanswered(first, second)
    <3>1. SUFFICES ASSUME NEW first \in Replies, NEW second \in Replies, Requested(first, second).requests = 2
                   PROVE  ~ModelAnswered(first) /\ first # "not sent"
      BY DEF RepeatedUnanswered
    <3>2. Retryable(ErrorOf(first))
      BY <3>1 DEF Requested
    <3> QED BY <3>1, <3>2, AnsweredNotRetryable
  <2>2. RepliesPaired => Each("replies", LAMBDA r : RepeatedUnanswered(r[1], r[2]))
    BY <2>1 DEF RepliesPaired, Each
  <2> QED BY <2>2 DEF NotAskedTwice
<1> QED BY <1>1, <1>2, <1>3, PTL DEF AnswersSpec

-----------------------------------------------------------------------------
\* The record of a generation is right at each of its calls.
RecordKept == input.kind = "facts" => CallsRecorded(made, input.value)

RecordFits == IF input.kind = "facts" THEN Fits(made, input.value) ELSE made = Start

\* A generation starts without a call.
LEMMA RecordStarts ==
  ASSUME NEW run
  PROVE  Fits(Start, run)
<1>1. Start.calls = <<>> /\ {"error", "calls"} \subseteq DOMAIN Start
  BY DEF Start
<1>2. Len(RolesOf(run)) \in Nat
  BY DEF RolesOf
<1> QED BY <1>1, <1>2 DEF Fits, Shaped, CallsFit

\* AskExtraction, AskCoverage, AskRepair and AskGrouping
LEMMA AskingFits ==
  ASSUME RecordFits, AskExtraction \/ AskCoverage \/ AskRepair \/ AskGrouping
  PROVE  RecordFits'
<1> DEFINE run == input.value
<1>1. input.kind = "facts" /\ made.error = "none" /\ input' = input
  BY DEF AskExtraction, AskCoverage, AskRepair, AskGrouping, Asks
<1>2. Fits(made, run) /\ Goes(made, run)
  BY <1>1 DEF RecordFits, Fits, Goes
<1>3. SUFFICES Fits(made', run)
  BY <1>1 DEF RecordFits
<1>4. CASE AskExtraction
  <2>1. Len(made.calls) = 0
    BY <1>2, <1>4, LastRole DEF AskExtraction, Asks
  <2> QED BY <1>2, <1>4, <2>1, ExtractedFits DEF AskExtraction
<1>5. CASE AskCoverage
  <2>1. Len(made.calls) = 1
    BY <1>2, <1>5, LastRole DEF AskCoverage, Asks
  <2> QED BY <1>2, <1>5, <2>1, ReviewedFits DEF AskCoverage
<1>6. CASE AskRepair
  <2>1. Len(made.calls) = 2
    BY <1>2, <1>6, LastRole DEF AskRepair, Asks
  <2> QED BY <1>2, <1>6, <2>1, RepairedFits DEF AskRepair
<1>7. CASE AskGrouping
  <2>1. Len(made.calls) = IF run.coverage.findings = <<>> THEN 2 ELSE 3
    BY <1>2, <1>7, LastRole DEF AskGrouping, Asks
  <2>2. PICK criteria \in Groupings(Len(made.facts)) : made' = Grouped(made, run, criteria)
    BY <1>7 DEF AskGrouping
  <2> QED BY <1>2, <2>1, <2>2, GroupedFits
<1> QED BY <1>4, <1>5, <1>6, <1>7

\* Whatever the model and the job do during the four calls of a 4.0 generation, the audit
\* names the roles asked, in order, and blames the call that failed and no other
\* (build_v4_plan_content, _invoke_v4_role).
THEOREM RecordAlwaysKept == AnswersSpec => []RecordKept
<1>1. Init => RecordFits
  BY DEF Init, RecordFits
<1>2. RecordFits /\ [Next]_<<input, made>> => RecordFits'
  <2>1. SUFFICES ASSUME RecordFits, Next PROVE RecordFits'
    BY DEF RecordFits
  <2>2. CASE AskExtraction \/ AskCoverage \/ AskRepair \/ AskGrouping
    BY <2>1, <2>2, AskingFits
  <2>3. CASE Waits /\ UNCHANGED made
    <3>1. made' = Start
      BY <2>1, <2>3 DEF Waits, RecordFits
    <3> QED BY <3>1, RecordStarts DEF RecordFits
  <2> QED
    BY <2>1, <2>2, <2>3
    DEF Next, ReadDates, ReadResume, CheckReport, Evaluate, CutJob, MakePlan, SaveDraft, EditList,
        ListTags, Request, GenerateFacts, Chosen
<1>3. RecordFits => RecordKept
  BY FitsIsRecorded DEF RecordFits, RecordKept
<1> QED BY <1>1, <1>2, <1>3, PTL DEF AnswersSpec

\* The plan a generation has made so far is sound as well, and the run is one that may be.
GenerationSound ==
  IF input.kind = "facts" THEN input.value \in FactRuns /\ Sound(made, input.value) ELSE made = Start

\* A generation starts without facts.
LEMMA SoundStart ==
  ASSUME NEW run
  PROVE  Sound(Start, run)
<1>1. Asked(Start) = "none" /\ Start.error = "none" /\ Complete(Start)
  BY DEF Start, Asked, Complete
<1> QED BY <1>1 DEF Sound, Stage

LEMMA AskingSound ==
  ASSUME RecordFits, GenerationSound, AskExtraction \/ AskCoverage \/ AskRepair \/ AskGrouping
  PROVE  GenerationSound'
<1> DEFINE run == input.value
<1>1. input.kind = "facts" /\ made.error = "none" /\ input' = input
  BY DEF AskExtraction, AskCoverage, AskRepair, AskGrouping, Asks
<1>2. run \in FactRuns /\ IsRun(run) /\ Sound(made, run)
  BY <1>1, RunsAssumption DEF GenerationSound
<1>3. made.calls \in Seq(CallType)
  BY <1>1 DEF RecordFits, Fits, CallsFit
<1>4. SUFFICES Sound(made', run)
  BY <1>1, <1>2 DEF GenerationSound
<1>5. CASE AskExtraction
  BY <1>1, <1>2, <1>3, <1>5, ExtractedSound DEF AskExtraction
<1>6. CASE AskCoverage
  <2>1. Asked(made) = "fact_extraction" /\ made' = Reviewed(made, run)
    BY <1>6 DEF AskCoverage, Asks
  <2> QED BY <1>1, <1>2, <1>3, <2>1, ReviewedSound
<1>7. CASE AskRepair
  <2>1. Asked(made) = "coverage_review" /\ made' = Repaired4(made, run)
    BY <1>7 DEF AskRepair, Asks
  <2> QED BY <1>1, <1>2, <1>3, <2>1, RepairedSound
<1>8. CASE AskGrouping
  <2>1. Asked(made) = IF run.coverage.findings = <<>> THEN "coverage_review" ELSE "local_repair"
    BY <1>8 DEF AskGrouping, Asks
  <2>2. PICK criteria \in Groupings(Len(made.facts)) : made' = Grouped(made, run, criteria)
    BY <1>8 DEF AskGrouping
  <2>3. criteria \in Seq(Seq(Nat))
    <3>1. Len(made.facts) \in 0..MaxFacts
      BY <1>1, <1>2, <2>1, SoundBounded
    <3> QED BY <2>2, <3>1, RunsAssumption
  <2> QED BY <1>1, <1>2, <1>3, <2>1, <2>2, <2>3, GroupedSound
<1> QED BY <1>5, <1>6, <1>7, <1>8

\* For any source units and whatever the model answers to the four calls: a 4.0 plan that is
\* made satisfies its own validator and a 4.0 screening, its repair replaced what is said of
\* the failed units and nothing else, no unit lost its last fact, its warnings are true, and
\* the audit blames the call that failed (build_v4_plan_content, _build_v4_extracted_facts,
\* repair_v4_source_units, _build_v4_criteria, _build_v4_warnings).
THEOREM FactsAlwaysSound == AnswersSpec => []FactsSound
<1> DEFINE Inv == RecordFits /\ GenerationSound
<1>1. Init => Inv
  BY DEF Init, RecordFits, GenerationSound
<1>2. Inv /\ [Next]_<<input, made>> => Inv'
  <2>1. SUFFICES ASSUME Inv, [Next]_<<input, made>> PROVE Inv'
    OBVIOUS
  <2>2. CASE UNCHANGED <<input, made>>
    BY <2>1, <2>2 DEF RecordFits, GenerationSound
  <2>3. CASE AskExtraction \/ AskCoverage \/ AskRepair \/ AskGrouping
    BY <2>1, <2>3, AskingFits, AskingSound
  <2>4. CASE GenerateFacts
    <3>1. made' = Start
      BY <2>1, <2>4 DEF GenerateFacts, Chosen, Waits, RecordFits
    <3>2. input'.value \in FactRuns
      BY <2>4 DEF GenerateFacts, Chosen
    <3> QED BY <3>1, <3>2, RecordStarts, SoundStart DEF RecordFits, GenerationSound
  <2>5. CASE Waits /\ UNCHANGED made /\ input'.kind # "facts"
    <3>1. made' = Start
      BY <2>1, <2>5 DEF Waits, RecordFits
    <3> QED BY <2>5, <3>1 DEF RecordFits, GenerationSound
  <2> HIDE DEF Inv
  <2> QED
    BY <2>1, <2>2, <2>3, <2>4, <2>5
    DEF Next, ReadDates, ReadResume, CheckReport, Evaluate, CutJob, MakePlan, SaveDraft, EditList,
        ListTags, Request, Chosen
<1>3. Inv => FactsSound
  <2>1. SUFFICES ASSUME Inv, input.kind = "facts"
                 PROVE  /\ FactPlanUsable(made) /\ RepairLocal(made, input.value) /\ ReviewKept(made)
                        /\ WarningsTrue(made) /\ CallsRecorded(made, input.value)
    BY DEF FactsSound, Each
  <2> DEFINE run == input.value
  <2>2. IsRun(run) /\ Sound(made, run) /\ Fits(made, run)
    BY <2>1, RunsAssumption DEF GenerationSound, RecordFits
  <2>3. ReviewKept(made)
    BY <2>2 DEF Sound, ReviewKept
  <2> HIDE DEF run
  <2>4. FactPlanUsable(made) /\ RepairLocal(made, run) /\ WarningsTrue(made) /\ CallsRecorded(made, run)
    BY <2>2, SoundUsable, SoundRepair, SoundWarnings, FitsIsRecorded
  <2> QED BY <2>3, <2>4 DEF run
<1> QED BY <1>1, <1>2, <1>3, PTL DEF AnswersSpec
=============================================================================
