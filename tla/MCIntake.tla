------------------------------- MODULE MCIntake -------------------------------
(* The page sends one person twice under two keys, another one with the same email, and   *)
(* the first key with other contents; HR takes the first person in twice and a third one *)
(* of the same name, all with one resume, and names the first of two candidates that it  *)
(* had entered, with the phone of the second.                                            *)
EXTENDS Intake

FromThePage(key, name, phone, email, job) ==
  [kind |-> "public", key |-> key, name |-> name, phone |-> phone, email |-> email,
   job |-> job, cand |-> None, resume |-> None]
FromHr(kind, name, phone, email, job, cand, resume) ==
  [kind |-> kind, key |-> None, name |-> name, phone |-> phone, email |-> email,
   job |-> job, cand |-> cand, resume |-> resume]

MCJobs == {"j1", "j2"}
MCResumes == {"r1"}
MCRequests ==
  { FromThePage("k1", "n1", "p1", "e1", "j1"),
    FromThePage("k1", "n1", "p2", "e2", "j2"),
    FromThePage("k2", "n1", "p1", "e1", "j1"),
    FromThePage("k3", "n1", "p2", "e1", "j1"),
    FromHr("direct", "n1", "p1", "e1", "j1", None, "r1"),
    FromHr("screening", "n1", "p2", "e2", "j2", None, "r1"),
    FromHr("screening", "n1", "p2", "e2", "j2", 1, "r1") }

ByHand(name, phone, email) == [name |-> name, phone |-> phone, email |-> email, edited |-> TRUE]
MCEntered == <<ByHand("n1", "p1", "e1"), ByHand("n1", "p2", "e1")>>

\* Three requests with one event around them, or two with two; among the candidates that
\* HR had entered, two with two.
FourLeft == Init /\ callsLeft + eventsLeft = 4 /\ (cands # <<>> => callsLeft = 2)

FairFromFour == FourLeft /\ [][Next]_vars /\ Fairness
=============================================================================
