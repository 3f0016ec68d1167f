-------------------------------- MODULE MCTally --------------------------------
(***************************************************************************)
(* Ballots for the run of Tally.  b1 and b3 bear the same id; b2 has one   *)
(* of the two contests in its style; foreign carries a contest more, which *)
(* this election does not have, and is valid for all that is asked of it;  *)
(* partial lacks a contest of its style; forged is of no use but in its    *)
(* contests: its proofs do not hold.                                       *)
(***************************************************************************)
EXTENDS Tally

CONSTANTS b1, b2, b3, b4, foreign, partial, forged, id1, id2, id3, id4, id5,
          president, council, extra

MCBallots == {b1, b2, b3, b4, foreign, partial, forged}
MCIds == {id1, id2, id3, id4, id5}
MCContests == {president, council}
MCIdOf == [b \in MCBallots |->
  CASE b \in {b1, b3} -> id1 [] b = b2 -> id2 [] b = b4 -> id5
    [] b = foreign -> id3 [] b \in {partial, forged} -> id4]
MCStyleOf == [b \in MCBallots |-> IF b = b2 THEN {council} ELSE MCContests]
MCContestsOf == [b \in MCBallots |->
  CASE b = b2 -> <<council>>
    [] b = foreign -> <<president, extra, council>>
    [] b = partial -> <<president>>
    [] b \in {b1, b3, b4, forged} -> <<president, council>>]
MCGenuine == [b \in MCBallots |-> b # forged]
=============================================================================
