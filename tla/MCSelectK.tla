------------------------------ MODULE MCSelectK ------------------------------
EXTENDS SelectK

MCRows == {<<5, 5, 5, 5, 5, 5>>, <<1, 16, 17, 18, 29, 12>>, <<30, 4, 28, 3, 7, 6>>,
           <<16, 17, 17, 19, 20, 17>>, <<9, 8, 8>>, <<7>>, <<>>}

(* Short rows never reach a launch of several blocks; of subwarps of one     *)
(* lane, whose tree merges interleave most, a block has no more than four.    *)
Instances == (n >= k \/ num_of_block = 1) /\ (k = 1 => nwarps <= 4)

MCInit == Init /\ Instances
MCSpec == MCInit /\ [][Next]_vars /\ WF_vars(Next)
=============================================================================
