-------------------------- MODULE StructuralPatterns --------------------------
(***************************************************************************)
(* The structural classifier: descriptions of one entity that agree token  *)
(* by token are generalised to a pattern, whose stable positions keep the  *)
(* token and whose variable positions accept any.  A description is the    *)
(* sequence of tokens of the normalised text.                              *)
(***************************************************************************)
EXTENDS Integers, Sequences, FiniteSets

CONSTANTS Tokens, AnyToken

ASSUME TokenAssumption == AnyToken \notin Tokens

Descriptions == Seq(Tokens)
Structures == Seq(Tokens \union {AnyToken})

\* What an authorised pattern is applicable to.
Matches(d, segs) ==
    /\ Len(d) = Len(segs)
    /\ \A i \in DOMAIN segs : segs[i] # AnyToken => d[i] = segs[i]

\* Two patterns that no position makes incompatible.
Overlap(a, b) ==
    /\ Len(a) = Len(b)
    /\ \A i \in DOMAIN a : AnyToken \in {a[i], b[i]} \/ a[i] = b[i]

SameLength(D) == \A d, e \in D : Len(d) = Len(e)

Generalised(D) ==
    LET d == CHOOSE x \in D : TRUE
    IN  [i \in DOMAIN d |-> IF \A e \in D : e[i] = d[i] THEN d[i] ELSE AnyToken]

HasStable(segs) == \E i \in DOMAIN segs : segs[i] # AnyToken
===============================================================================
