--------------------------- MODULE MCBruteForceKnn ----------------------------
EXTENDS BruteForceKnn

(* One part, with three tiles; two parts, of three and two tiles; one part    *)
(* and three rows of tiles of queries, more than the device holds at once;   *)
(* two parts and two rows of tiles, of which each part fills the device; two  *)
(* parts of which the second has one element only.                           *)
MCInputs ==
  {<<<<<<4, 2, 7, 1, 5>>>>>>,
   <<<<<<5, 3, 3, 6, 2>>>>, <<<<3, 8, 2, 7>>>>>>,
   <<<<<<4, 2, 3, 5, 1>>, <<1, 1, 1, 1, 1>>, <<9, 3, 8, 7, 4>>>>>>,
   <<<<<<6, 1, 4>>, <<2, 2, 9>>>>, <<<<4, 1, 1>>, <<1, 5, 2>>>>>>,
   <<<<<<4, 2>>>>, <<<<3>>>>>>}

(* What the CTAs of one part do depends neither on the pool nor on the        *)
(* translation, and the policy matters to the tiled search only: the largest *)
(* input has one pool, the fused kernel one policy, and of the inputs with   *)
(* several parts the smallest alone is translated.                           *)
MCInit ==
  /\ Init
  /\ Len(dist[1]) = 3 => pool = 1 /\ ~Translated
  /\ Several /\ Translated => Size(1) = 1
  /\ metric # "tiled" => ~cached
MCSpec == MCInit /\ [][Next]_vars /\ WF_vars(Next)

(* Roots of distances.                                                       *)
RootInit == Init /\ metric = "fused_sqrt" /\ offset = NoOffset /\ ~cached
RootSpec == RootInit /\ [][Next]_vars
=============================================================================
