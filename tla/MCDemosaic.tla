----------------------------- MODULE MCDemosaic -----------------------------
(* Demosaicing for the model checker: a small area at every parity of its   *)
(* origin, neutral scenes, two uniform ones and a ramp.                     *)
EXTENDS Demosaic

SomeOrigins == {<<0, 0>>, <<1, 1>>, <<2, 1>>, <<1, 2>>}

SomeScenes ==
    {[shade |-> <<v, v, v>>, slope |-> 0] : v \in {0, 37, White}}
        \union {[shade |-> <<20, 40, 60>>, slope |-> 0], [shade |-> <<50, 20, 7>>, slope |-> 0],
                [shade |-> <<24, 4, 14>>, slope |-> 2]}
=============================================================================
