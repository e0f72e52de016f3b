-------------------------- MODULE MCEvaluationPlan --------------------------
EXTENDS EvaluationPlan, TLC

Symmetric == Permutations(Sessions)

\* No handler tells one text from another, so every behaviour is, after a renaming of the
\* texts, one whose job starts with this text.
FirstText == Init /\ job.text = CHOOSE t \in Texts : TRUE

FairFromFirst == FirstText /\ [][Next]_vars /\ Fairness
=============================================================================
