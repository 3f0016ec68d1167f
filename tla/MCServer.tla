------------------------------- MODULE MCServer -------------------------------
EXTENDS Server

\* Two elections with the same names, one of them listed in two orders, and one
\* that has more candidates than parties.
MCAsked ==
  {[parties |-> <<"p", "q">>, candidates |-> <<"a", "b">>, max_choices |-> 1],
   [parties |-> <<"p", "q">>, candidates |-> <<"b", "a">>, max_choices |-> 1],
   [parties |-> <<"p", "q">>, candidates |-> <<"a", "b">>, max_choices |-> 2],
   [parties |-> <<"p">>, candidates |-> <<"a", "b">>, max_choices |-> 1]}

MCEncryptions == 1 .. MaxRequests

Symmetry == Permutations(Threads) \union Permutations(Workers)
=============================================================================
