------------------------------ MODULE MCExamTake ------------------------------
(* Instances of ExamTake for TLC.                                            *)
EXTENDS ExamTake, TLC

MCSymmetry == Permutations(Questions)
=============================================================================
