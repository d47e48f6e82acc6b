------------------------------ MODULE MCMoney ------------------------------
(***************************************************************************)
(* Every text of up to five characters over an alphabet that has each      *)
(* character the parser looks at, and amounts around every power of ten    *)
(* and both ends of a Money of eighteen bits.                              *)
(***************************************************************************)
EXTENDS Money

MCTexts == BoundedSeq({"0", "1", "9", ".", "-", "+", "s", "x"}, 5)

MCComputed ==
    UNION {{-n, n} : n \in 0..1200 \cup 9900..10100} \cup (-Half)..(100 - Half)
        \cup (Half - 100)..(Half - 1)
=============================================================================
