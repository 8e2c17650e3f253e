-------------------------- MODULE MCLearnedKnowledge --------------------------
(* Two entities, two accounts, and stores that earlier corrections left.   *)
EXTENDS LearnedKnowledgeProps, TLC

MCTexts == [t1 |-> <<"pay", "a">>, t2 |-> <<"pay", "b">>, t3 |-> <<"fee", "a">>,
            u1 |-> <<"pay", "c">>, u2 |-> <<"pay", "d">>]
MCPayee == [t1 |-> "e1", t2 |-> "e1", t3 |-> "e1", u1 |-> "e2", u2 |-> "e2"]

Tentative(b) == Item(b, "tentative")
Certain(b) == Item(b, "certain")
Uncertain(b) == Item(b, "uncertain")
PayAny == <<"pay", AnyToken>>

\* Two corrections of e1 to account x, discovery and authorisation.
Authorised1 ==
    <<Certain(Treatment("e1", "x")), Tentative(Observation("e1", "t1", "x")),
      Tentative(Observation("e1", "t2", "x")),
      Tentative(Candidate("e1", "x", PayAny, {2, 3})),
      Certain(Pattern(Candidate("e1", "x", PayAny, {2, 3}), 4))>>

\* A third one to y: the treatment contradicts the pattern, and somebody has
\* resolved the conflict.
Settled ==
    <<Uncertain(Treatment("e1", "y")), Authorised1[2], Authorised1[3], Authorised1[4],
      Uncertain(Authorised1[5].body),
      Tentative(Observation("e1", "t3", "y")),
      Tentative(Conflict("e1", "exact", {5}, "y", {}, {1})), Certain(Resolution(7))>>

\* The same two corrections made to y: two candidates, none authorised.
TwoCandidates ==
    <<Certain(Treatment("e1", "y")), Authorised1[2], Authorised1[3],
      Tentative(Observation("e1", "t1", "y")), Tentative(Observation("e1", "t2", "y")),
      Tentative(Candidate("e1", "x", PayAny, {2, 3})),
      Tentative(Candidate("e1", "y", PayAny, {4, 5}))>>

\* Each entity with its treatment and its pattern.
TwoEntities ==
    Authorised1 \o
    <<Certain(Treatment("e2", "y")), Tentative(Observation("e2", "u1", "y")),
      Tentative(Observation("e2", "u2", "y")),
      Tentative(Candidate("e2", "y", PayAny, {7, 8})),
      Certain(Pattern(Candidate("e2", "y", PayAny, {7, 8}), 9))>>

\* One description corrected for e1, for e2 after its alias had been given to it,
\* and given back since.
OneDescription ==
    <<Certain(Treatment("e1", "x")), Tentative(Observation("e1", "t1", "x")),
      Certain(Treatment("e2", "x")), Tentative(Observation("e2", "t1", "x"))>>

MCStarts ==
    {[store |-> s, spent |-> 0] : s \in {<<>>, Authorised1, Settled, TwoCandidates}}
    \union {[store |-> s, spent |-> 1] : s \in {TwoEntities, OneDescription}}

MCSymmetry == Permutations(Calls)
===============================================================================
