---------------------------- MODULE MCFraudGraph ----------------------------
(* FraudGraph with the scores around every boundary of the validator. *)
EXTENDS FraudGraph

BoundaryScores == {-2, -1, 0, FlagAt - 1, FlagAt, BlockAt - 1, BlockAt, 100,
                   101, 102}

=============================================================================
