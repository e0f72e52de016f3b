----------------------- MODULE MCApplicationProcessing -----------------------
(* Small instances of ApplicationProcessing: how submissions share jobs. *)
EXTENDS ApplicationProcessing, TLC

OneJob == [s \in Submissions |-> CHOOSE j \in Jobs : TRUE]
OwnJob == [s \in Submissions |-> s]
WorkersAlike == Permutations(Workers)
=============================================================================
