---------------------------- MODULE MCBallotPipeline ----------------------------
EXTENDS BallotPipeline

CONSTANTS given, asked, foreign, abroad, id1, id2, id3, key, otherKey

MCBallots == {given, asked, foreign, abroad}
MCIds == {id1, id2, id3}
MCContests == {"contest-1"}
MCIdOf == [b \in MCBallots |-> CASE b = foreign -> id2 [] b = abroad -> id3 [] OTHER -> id1]
MCStyleOf == [b \in MCBallots |-> {"contest-1"}]
MCContestsOf == [b \in MCBallots |-> IF b = foreign THEN <<"foreign">> ELSE <<"contest-1">>]
MCGenuine == [b \in MCBallots |-> b = given]
MCKeyOf == [b \in MCBallots |-> IF b = abroad THEN otherKey ELSE key]

Names == <<"a", "b", "c">>

\* One seat by a number below it, two seats, and more seats than candidates.
MCElections ==
  {[parties |-> <<"p", "q", "r">>, candidates |-> Names, max_choices |-> n] : n \in {0, 2, 4}}

MCChosen ==
  [b \in MCBallots |-> IF b = asked THEN {<<>>, <<"a">>, <<"c", "a">>, <<"b", "b">>, <<"nobody">>}
                      ELSE {<<"a">>}]

Selection(id, vote, write_in) == [id |-> id, vote |-> vote, write_in |-> write_in]

Some(ids) == {Selection(id, vote, "none") : id \in ids, vote \in 0 .. 2}

\* Up to two selections, complete lists, a write-in, an id that is not there and one
\* selection too many.
MCPlaintexts ==
  {<<>>} \union {<<s>> : s \in Some({"a", "b"})}
  \union {<<s, t>> : s \in Some({"a"}), t \in Some({"a", "b"})}
  \union {[i \in 1 .. 3 |-> Selection(Names[i], votes[i], "none")] : votes \in [1 .. 3 -> 0 .. 1]}
  \union {<<Selection("a", 1, "none"), Selection("b", 0, "w"), Selection("c", 1, "none")>>,
          <<Selection("nobody", 1, "none")>>,
          <<Selection("a", 1, "none"), Selection("b", 0, "none"), Selection("c", 1, "none"),
            Selection("a", 1, "none")>>}

MCExpected == SUBSET {"a", "b", "c"}
=============================================================================
