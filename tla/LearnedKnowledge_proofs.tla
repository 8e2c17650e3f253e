------------------------ MODULE LearnedKnowledge_proofs ------------------------
(***************************************************************************)
(* Proofs about the learned knowledge, for any number of calls, entities,  *)
(* accounts and descriptions.                                              *)
(***************************************************************************)
EXTENDS LearnedKnowledgeProps, TLAPS, FiniteSetTheorems, SequenceTheorems

(***************************************************************************)
(* What a call in progress knows.                                          *)
(***************************************************************************)

IsA(type, i) == i \in Ids /\ items[i].body.type = type
All(type) == {i \in Ids : items[i].body.type = type}

\* A correction that has recorded its observation.
Observing == {"patterns", "evidence", "exact", "known", "persist", "settle", "load", "degrade",
              "done"}

Correcting == {"read", "create", "update", "gate", "pending", "promote", "observe"}

\* Certainty is granted upon a reading of the first asOf items.
Granted(i, asOf) ==
    /\ asOf \in Nat /\ asOf <= Len(items)
    /\ \A k \in Active("conflict") : k <= asOf /\ i \in Implicated(items[k].body) => k \in Resolved

\* What a correction has read, before its observation and after.
Asked(m) ==
    /\ m.entity \in Entities /\ m.gl \in Accounts /\ m.tx \in Described
    /\ m.pc = "create" => m.saw = {}
    /\ m.pc = "update" => m.saw = {m.item}
    /\ m.pc \in {"update", "gate", "pending", "promote"} => IsA("treatment", m.item)
    /\ m.pc = "pending" => m.cleared \subseteq Resolved
    /\ m.pc = "promote" => Granted(m.item, m.asOf)

Opposed(m) ==
    /\ IsA("conflict", m.conflict) /\ items[m.conflict].active
    /\ items[m.conflict].body.pats \intersect m.pats # {}

Drawn(m) ==
    /\ m.body \in Conflicts
    /\ m.body.pats \subseteq m.pats /\ m.body.pats # {}
    /\ m.body.exact \subseteq All("treatment") /\ m.body.obs \subseteq All("observation")

Observant(m) ==
    /\ m.entity \in Entities
    /\ IsA("observation", m.item) /\ items[m.item].active
    /\ heir[m.entity] = m.entity => items[m.item].body.entity = m.entity
    /\ m.pc # "patterns" => m.pats \subseteq All("pattern")
    /\ m.pc = "exact" =>
          /\ m.evidence \subseteq All("observation")
          /\ heir[m.entity] = m.entity => m.item \in m.evidence
    /\ m.pc \in {"known", "persist"} => Drawn(m)
    /\ m.pc \in {"settle", "load", "degrade"} => Opposed(m)
    /\ m.pc = "degrade" => m.todo \subseteq Implicated(items[m.conflict].body)

\* A structure that was generalised from observations of its entity.
Grounded(b) ==
    /\ b.obs \subseteq All("observation") /\ Evidenced(items, b)
    /\ \A o \in b.obs : heir[items[o].body.entity] = heir[b.entity]

Founded(b) == b \in Candidates /\ Grounded(b)

Authoriser(m) ==
    /\ m.pc # "done" =>
          Founded(m.body) /\ m.entity = m.body.entity /\ IsA("candidate", m.item)
    /\ m.pc = "record" =>
          m.saw \subseteq All("pattern") /\ \A p \in m.saw : Gl(p) = m.body.gl

Rehabilitator(m) ==
    /\ m.pc # "done" =>
          /\ IsA("conflict", m.conflict)
          /\ IsA("pattern", m.item) \/ IsA("treatment", m.item)
    /\ m.pc = "pending" => m.cleared \subseteq Resolved
    /\ m.pc = "evolve" => Granted(m.item, m.asOf)

Fields == {"op", "pc", "tx", "gl", "entity", "into", "keep", "item", "conflict", "asOf", "conf",
           "saw", "cleared", "pats", "evidence", "todo", "groups", "body", "image"}

Knows(m) ==
    /\ DOMAIN m = Fields
    /\ m.op \in {"none", "learn", "discover", "authorise", "resolve", "rehabilitate", "merge", "alias"}
    /\ m.op = "none" => m.pc \in {"idle", "done"}
    /\ m.op = "learn" => m.pc \in Correcting \union Observing
    /\ m.op = "learn" /\ m.pc \in Correcting => Asked(m)
    /\ m.op = "learn" /\ m.pc \in Observing => Observant(m)
    /\ m.op = "discover" => m.pc \in {"groups", "record", "done"}
    /\ m.op = "discover" /\ m.pc # "done" => m.groups \subseteq Entities \X Accounts
    /\ m.op = "discover" /\ m.pc = "record" => Founded(m.body)
    /\ m.op = "authorise" => m.pc \in {"read", "record", "done"} /\ Authoriser(m)
    /\ m.op = "resolve" => m.pc \in {"record", "done"}
    /\ m.op = "resolve" /\ m.pc = "record" => IsA("conflict", m.conflict)
    /\ m.op = "rehabilitate" =>
          m.pc \in {"resolved", "pending", "evolve", "event", "done"} /\ Rehabilitator(m)
    /\ m.op = "merge" => m.pc \in {"commit", "done"}
    /\ m.op = "alias" => m.pc = "done"

CallsKnow == DOMAIN call = Calls /\ \A c \in Calls : Knows(call[c])

\* In what a merge has read, too, an heir holds the observations it did not get.
HeldIn(old) ==
    \A i \in DOMAIN old :
        LET b == old[i].body
        IN  old[i].active /\ b.type \in About /\ heir[b.entity] # b.entity /\ i \notin strays =>
               /\ b.type = "observation"
               /\ \E j \in DOMAIN old :
                     old[j].active /\ old[j].body = [b EXCEPT !.entity = heir[b.entity]]

\* A merge has read the store as it was: since then items have come, treatments
\* have changed, and what came for the source, or for one merged away, is on the
\* list of strays.
Imaged(m) ==
    LET s == m.entity
        t == m.into
        old == m.image
    IN  /\ s \in Entities /\ t \in Entities /\ s # t /\ heir[s] = s /\ heir[t] = t
        /\ old \in Stores /\ Len(old) <= Len(items)
        /\ \A i \in DOMAIN old :
              /\ items[i].active = old[i].active
              /\ items[i].body.type = old[i].body.type
              /\ old[i].body.type # "treatment" => items[i].body = old[i].body
        /\ \A i \in Ids :
              LET e == items[i].body.entity
              IN  /\ items[i].active /\ items[i].body.type \in About /\ (e = s \/ heir[e] # e)
                  => i \in strays \/ (i \in DOMAIN old /\ old[i].body.entity = e)
        /\ HeldIn(old)
        /\ ~ Ambiguous(old, s) /\ ~ Ambiguous(old, t)
        /\ PatternsCollide(old, s, t) <=> m.keep[2] # "none"
        /\ m.keep[2] \in {"none", "source", "target"}

MergesApart ==
    /\ \A c \in Calls : At(c, "merge", "commit") => Imaged(call[c])
    /\ \A c, d \in Calls : At(c, "merge", "commit") /\ At(d, "merge", "commit") => c = d

\* Nothing but treatments and patterns is ever forgotten.
Lasting == \A i \in Ids : items[i].active \/ items[i].body.type \in {"treatment", "pattern"}

IInv ==
    /\ StoreOK /\ Related(items, heir) /\ Lasting
    /\ CallsKnow /\ MergesApart
    /\ OneVoice /\ ContestedIsNotCertain /\ MergeLosesNothing /\ ContradictionsAreRecorded

(***************************************************************************)
(* Small sets, greatest elements, and generalisations.                     *)
(***************************************************************************)
\* Induction on a finite set: of its subsets outside U, one is least.
LEMMA LeastSubset ==
    ASSUME NEW S, IsFiniteSet(S), NEW U, NEW T \in SUBSET S, T \notin U
    PROVE  \E M \in SUBSET S : M \notin U /\ \A R \in SUBSET M : R # M => R \in U
<1> DEFINE W == (SUBSET S) \ U
<1>1. PICK M \in W : \A R \in W : ~ (<<R, M>> \in StrictSubsetOrdering(S))
  <2>1. W \subseteq SUBSET S /\ W # {}
    OBVIOUS
  <2> HIDE DEF W
  <2> QED  BY <2>1, FS_StrictSubsetOrderingWellFounded, FS_FiniteSubsetsOfFinite, WFMin
<1>2. ASSUME NEW R \in SUBSET M, R # M  PROVE R \in U
  <2>1. R \in SUBSET S /\ <<R, M>> \in StrictSubsetOrdering(S)
    BY <1>1, <1>2 DEF StrictSubsetOrdering
  <2> QED  BY <1>1, <2>1
<1> QED  BY <1>1, <1>2

\* A set has fewer than two elements if no two of them differ.
LEMMA FewerThanTwo ==
    ASSUME NEW S, IsFiniteSet(S) PROVE Cardinality(S) < 2 <=> \A x, y \in S : x = y
<1>1. CASE S = {}
  BY <1>1, FS_EmptySet
<1>2. CASE S # {}
  <2>1. PICK x \in S : TRUE
    BY <1>2
  <2>2. /\ IsFiniteSet(S \ {x}) /\ Cardinality(S \ {x}) = Cardinality(S) - 1
        /\ Cardinality(S) \in Nat /\ Cardinality(S \ {x}) \in Nat
    BY <2>1, FS_RemoveElement, FS_CardinalityType
  <2>3. Cardinality(S) < 2 <=> S \ {x} = {}
    BY <2>2, FS_EmptySet
  <2> QED  BY <2>1, <2>3
<1> QED  BY <1>1, <1>2

\* Of a set of numbers up to n, one is greatest, and one is least.
LEMMA Greatest ==
    ASSUME NEW n \in Nat, NEW S \in SUBSET (1..n), S # {}
    PROVE  Max(S) \in S /\ \A x \in S : Max(S) >= x
<1> DEFINE U == {T \in SUBSET S : T = {} \/ \E x \in T : \A y \in T : x >= y}
<1>1. IsFiniteSet(S)
  <2>1. IsFiniteSet(1..n)
    BY FS_Interval, 1 \in Int, n \in Int
  <2> QED  BY <2>1, FS_Subset
<1>2. S \in U
  <2>1. SUFFICES ASSUME S \notin U PROVE FALSE
    OBVIOUS
  <2>2. PICK M \in SUBSET S : M \notin U /\ \A R \in SUBSET M : R # M => R \in U
    <3> HIDE DEF U
    <3> QED  BY <1>1, <2>1, LeastSubset
  <2>3. PICK x \in M : TRUE
    BY <2>2
  <2>4. M \ {x} \in U
    BY <2>2, <2>3
  <2>5. CASE M \ {x} = {}
    BY <2>2, <2>3, <2>5
  <2>6. CASE M \ {x} # {}
    <3>1. PICK m \in M \ {x} : \A y \in M \ {x} : m >= y
      BY <2>4, <2>6
    <3> QED  BY <2>2, <2>3, <3>1
  <2> QED  BY <2>5, <2>6
<1>3. \E x \in S : \A y \in S : x >= y
  BY <1>2
<1> QED  BY <1>3 DEF Max

LEMMA Least ==
    ASSUME NEW n \in Nat, NEW S \in SUBSET (1..n), S # {}
    PROVE  Min(S) \in S
<1> DEFINE R == {n + 1 - x : x \in S}
<1>1. Max(R) \in R /\ \A x \in R : Max(R) >= x
  <2>1. R # {} /\ \A x \in S : n + 1 - x \in 1..n
    OBVIOUS
  <2>2. R \in SUBSET (1..n)
    BY <2>1
  <2> HIDE DEF R
  <2> QED  BY <2>1, <2>2, Greatest
<1>2. PICK m \in S : Max(R) = n + 1 - m
  BY <1>1
<1>3. \A x \in S : m <= x
  <2> TAKE x \in S
  <2>1. n + 1 - x \in R
    OBVIOUS
  <2> HIDE DEF R
  <2> QED  BY <2>1, <1>1, <1>2
<1> QED  BY <1>2, <1>3 DEF Min

\* A generalisation applies to every description it was made from.
LEMMA GeneralisedMatches ==
    ASSUME NEW D \in SUBSET Descriptions, D # {}, SameLength(D)
    PROVE  Generalised(D) \in Structures /\ \A d \in D : Matches(d, Generalised(D))
<1> DEFINE d == CHOOSE x \in D : TRUE
           n == Len(d)
           g == Generalised(D)
           G(i) == IF \A e \in D : e[i] = d[i] THEN d[i] ELSE AnyToken
<1>1. d \in D /\ d \in Seq(Tokens)
  BY DEF Descriptions
<1>2. n \in Nat /\ DOMAIN d = 1..n /\ \A i \in 1..n : d[i] \in Tokens
  <2> HIDE DEF d
  <2> QED  BY <1>1
<1>3. g = [i \in 1..n |-> G(i)]
  BY <1>2 DEF Generalised
<1>4. \A i \in 1..n : G(i) \in Tokens \union {AnyToken}
  BY <1>2
<1>5. g \in Structures /\ Len(g) = n /\ DOMAIN g = 1..n
  <2> HIDE DEF G, d, g
  <2> QED  BY <1>2, <1>3, <1>4 DEF Structures
<1>6. ASSUME NEW e \in D PROVE Matches(e, g)
  <2>1. Len(e) = n
    BY <1>1 DEF SameLength
  <2>2. \A i \in 1..n : g[i] = G(i)
    <3> HIDE DEF G, g
    <3> QED  BY <1>3
  <2>3. \A i \in 1..n : G(i) # AnyToken => e[i] = G(i)
    OBVIOUS
  <2> HIDE DEF G, g, d
  <2> QED  BY <2>1, <2>2, <2>3, <1>5 DEF Matches
<1> QED  BY <1>5, <1>6

(***************************************************************************)
(* Stores, and what of them lasts.                                         *)
(***************************************************************************)
LEMMA BodyType ==
    ASSUME NEW b \in Bodies
    PROVE  /\ b.type \in About \union {"conflict", "resolution", "rehabilitation"}
           /\ b.type = "treatment" => b \in Treatments
           /\ b.type = "observation" => b \in Observations
           /\ b.type = "candidate" => b \in Candidates
           /\ b.type = "pattern" => b \in Patterns
           /\ b.type = "conflict" => b \in Conflicts
           /\ b.type = "resolution" => b \in Resolutions
           /\ b.type \in About => b.entity \in Entities /\ b.gl \in Accounts
  BY DEF Bodies, Treatments, Observations, Candidates, Patterns, Conflicts, Resolutions,
     Rehabilitations, About

LEMMA StoreType ==
    ASSUME NEW store \in Stores
    PROVE  /\ Len(store) \in Nat /\ DOMAIN store = 1..Len(store)
           /\ \A i \in DOMAIN store :
                 /\ store[i] = [body |-> store[i].body, conf |-> store[i].conf,
                                active |-> store[i].active, late |-> store[i].late]
                 /\ store[i].body \in Bodies /\ store[i].conf \in Levels
                 /\ store[i].active \in BOOLEAN /\ store[i].late \in SUBSET Nat
<1> DEFINE R == [body : Bodies, conf : Levels, active : BOOLEAN, late : SUBSET Nat]
<1>1. /\ Len(store) \in Nat /\ DOMAIN store = 1..Len(store)
      /\ \A i \in DOMAIN store : store[i] \in R
  <2>1. store \in Seq(R)
    BY DEF Stores
  <2> HIDE DEF R
  <2> QED  BY <2>1
<1>2. ASSUME NEW x \in R
      PROVE  /\ x = [body |-> x.body, conf |-> x.conf, active |-> x.active, late |-> x.late]
             /\ x.body \in Bodies /\ x.conf \in Levels
             /\ x.active \in BOOLEAN /\ x.late \in SUBSET Nat
  OBVIOUS
<1> HIDE DEF R
<1> QED  BY <1>1, <1>2

\* What no step takes back: the types of items, what was observed and generalised,
\* whose observations they are, conflicts, and who has been merged away.
Lasts ==
    /\ Len(items) <= Len(items') /\ Len(items') \in Nat /\ Ids' = 1..Len(items')
    /\ \A i \in Ids :
          /\ items'[i].body.type = items[i].body.type
          /\ items[i].body.type \notin {"treatment", "pattern"} =>
                items'[i].active = items[i].active
          /\ items[i].body.type \notin About => items'[i].body = items[i].body
          /\ items[i].body.type \in {"observation", "candidate", "pattern"} =>
                /\ items'[i].body.gl = items[i].body.gl
                /\ heir'[items'[i].body.entity] = heir'[items[i].body.entity]
          /\ items[i].body.type = "observation" =>
                /\ items'[i].body.tx = items[i].body.tx
                /\ \A e \in Entities : heir'[e] = e /\ items[i].body.entity = e =>
                       items'[i].body.entity = e
          /\ items[i].body.type \in {"candidate", "pattern"} =>
                /\ items'[i].body.segs = items[i].body.segs
                /\ items'[i].body.obs = items[i].body.obs
          /\ items[i].body.type = "pattern" => items'[i].body.from = items[i].body.from
    /\ \A e \in Entities : heir'[e] = e => heir[e] = e
    /\ \A e, f \in Entities : heir[e] = heir[f] => heir'[e] = heir'[f]

LEMMA KindsLast ==
    ASSUME StoreOK, Lasts
    PROVE  /\ \A type, i : IsA(type, i) => IsA(type, i)'
           /\ \A type : All(type) \subseteq All(type)'
           /\ \A i \in Ids : items[i].body.type \notin About =>
                 items'[i].body = items[i].body /\ items'[i].active = items[i].active
           /\ Active("conflict") = Active("conflict")' \intersect Ids
           /\ Resolved \subseteq Resolved'
           /\ Ids = 1..Len(items) /\ Ids \subseteq Ids' /\ Len(items) \in Nat
<1>1. Ids = 1..Len(items) /\ Ids \subseteq Ids' /\ Len(items) \in Nat
  BY StoreType DEF StoreOK, Lasts, Ids
<1>2. \A i \in Ids : items[i].body.type \notin About =>
         items'[i].body = items[i].body /\ items'[i].active = items[i].active
  BY DEF Lasts, About
<1>3. \A type, i : IsA(type, i) => IsA(type, i)'
  BY <1>1 DEF Lasts, IsA
<1>4. \A type : All(type) \subseteq All(type)'
  BY <1>1 DEF Lasts, All
<1>5. Active("conflict") = Active("conflict")' \intersect Ids
  BY <1>1, <1>2 DEF Lasts, Active, ActiveIn, IsActive, About, Ids
<1>6. Resolved \subseteq Resolved'
  BY <1>1, <1>2 DEF Lasts, Resolved, ResolvedIn, ActiveIn, IsActive, About, Ids
<1> QED  BY <1>1, <1>2, <1>3, <1>4, <1>5, <1>6

\* So is the evidence of a structure.
LEMMA EvidenceLasts ==
    ASSUME StoreOK, Lasts, NEW b, b.obs \subseteq All("observation"), Evidenced(items, b)
    PROVE  Evidenced(items', b)
<1>1. \A o \in b.obs : items'[o].body.gl = items[o].body.gl /\ items'[o].body.tx = items[o].body.tx
  BY DEF Lasts, All
<1> QED  BY <1>1 DEF Evidenced

LEMMA FoundedLasts ==
    ASSUME StoreOK, Lasts, NEW b, Founded(b)
    PROVE  Founded(b)'
<1>1. b \in Candidates /\ b.obs \subseteq All("observation")'
  BY KindsLast DEF Founded, Grounded
<1>2. Evidenced(items', b)
  BY EvidenceLasts DEF Founded, Grounded
<1>3. \A o \in b.obs : heir'[items'[o].body.entity] = heir'[b.entity]
  <2> TAKE o \in b.obs
  <2>1. o \in Ids /\ items[o].body.type = "observation"
    BY DEF Founded, Grounded, All
  <2>2. items[o].body.entity \in Entities /\ b.entity \in Entities
    BY <2>1, StoreType, BodyType DEF StoreOK, Ids, About, Founded, Grounded, Candidates
  <2>3. heir[items[o].body.entity] = heir[b.entity]
    BY DEF Founded, Grounded
  <2> QED  BY <2>1, <2>2, <2>3 DEF Lasts
<1> QED  BY <1>1, <1>2, <1>3 DEF Founded, Grounded

LEMMA GrantLasts ==
    ASSUME StoreOK, Lasts, NEW i, NEW asOf, Granted(i, asOf)
    PROVE  Granted(i, asOf)'
<1>1. asOf \in Nat /\ asOf <= Len(items')
  BY KindsLast DEF Granted, Lasts
<1>2. ASSUME NEW k \in Active("conflict")', k <= asOf, i \in Implicated(items'[k].body)
      PROVE  k \in Resolved'
  <2>1. k \in 1..Len(items') /\ items'[k].body.type = "conflict"
    BY <1>2 DEF Active, ActiveIn, IsActive, Lasts, Ids
  <2>2. k \in Ids /\ k \in Active("conflict")
    BY <2>1, <1>1, <1>2, KindsLast DEF Granted
  <2>3. items'[k].body = items[k].body
    BY <2>1, <2>2 DEF Lasts, About
  <2> QED  BY <1>2, <2>2, <2>3, KindsLast DEF Granted
<1> QED  BY <1>1, <1>2 DEF Granted

\* What a call in progress knows remains true.
LEMMA KnowsLasts ==
    ASSUME StoreOK, Lasts, NEW m, Knows(m)
    PROVE  Knows(m)'
<1>1. ASSUME Asked(m) PROVE Asked(m)'
  <2>1. m.pc \in {"update", "gate", "pending", "promote"} => IsA("treatment", m.item)'
    BY <1>1, KindsLast DEF Asked
  <2>2. m.pc = "pending" => m.cleared \subseteq Resolved'
    BY <1>1, KindsLast DEF Asked
  <2>3. m.pc = "promote" => Granted(m.item, m.asOf)'
    BY <1>1, GrantLasts DEF Asked
  <2> QED  BY <1>1, <2>1, <2>2, <2>3 DEF Asked
<1>2. ASSUME Observant(m) PROVE Observant(m)'
  <2>1. IsA("observation", m.item)' /\ items'[m.item].active
    BY <1>2, KindsLast DEF Observant, IsA, Lasts
  <2>2. heir'[m.entity] = m.entity =>
            heir[m.entity] = m.entity /\ items'[m.item].body.entity = m.entity
    BY <1>2 DEF Observant, IsA, Lasts
  <2>3. /\ m.pc # "patterns" => m.pats \subseteq All("pattern")'
        /\ m.pc = "exact" => m.evidence \subseteq All("observation")'
    BY <1>2, KindsLast DEF Observant
  <2>4. m.pc \in {"known", "persist"} => Drawn(m)'
    BY <1>2, KindsLast DEF Observant, Drawn
  <2>5. ASSUME Opposed(m)
        PROVE  Opposed(m)' /\ items'[m.conflict].body = items[m.conflict].body
    BY <2>5, KindsLast DEF Opposed, IsA, About
  <2> QED  BY <1>2, <2>1, <2>2, <2>3, <2>4, <2>5 DEF Observant
<1>3. ASSUME Authoriser(m) PROVE Authoriser(m)'
  <2>1. m.pc # "done" => Founded(m.body)' /\ IsA("candidate", m.item)'
    BY <1>3, FoundedLasts, KindsLast DEF Authoriser
  <2>2. m.pc = "record" => /\ m.saw \subseteq All("pattern")'
                           /\ \A p \in m.saw : Gl(p)' = Gl(p)
    BY <1>3, KindsLast DEF Authoriser, Lasts, All, Gl
  <2> QED  BY <1>3, <2>1, <2>2 DEF Authoriser
<1>4. ASSUME Rehabilitator(m) PROVE Rehabilitator(m)'
  <2>1. m.pc = "evolve" => Granted(m.item, m.asOf)'
    BY <1>4, GrantLasts DEF Rehabilitator
  <2> QED  BY <1>4, <2>1, KindsLast DEF Rehabilitator
<1>5. Founded(m.body) => Founded(m.body)'
  BY FoundedLasts
<1>6. IsA("conflict", m.conflict) => IsA("conflict", m.conflict)'
  BY KindsLast
<1> QED  BY <1>1, <1>2, <1>3, <1>4, <1>5, <1>6 DEF Knows

(***************************************************************************)
(* Steps of one call, and what the other calls find of it.                 *)
(***************************************************************************)
Others(c) == DOMAIN call' = Calls /\ \A d \in Calls \ {c} : call'[d] = call[d]

\* ContradictionsAreRecorded, of one call.
Answered(m) ==
    /\ m.op = "learn" /\ m.pc = "done" /\ heir[m.entity] = m.entity
    /\ \E p \in m.pats : Contradicts(m.item, p)
    => \E k \in Active("conflict") : items[k].body.pats \intersect m.pats # {}

Answers(c) == Answered(call[c])

LEMMA CallsKeep ==
    ASSUME StoreOK, Lasts, CallsKnow, NEW c \in Calls, Others(c), Knows(call[c])'
    PROVE  CallsKnow'
<1>1. \A m : Knows(m) => Knows(m)'
  BY KnowsLasts
<1> QED  BY <1>1 DEF CallsKnow, Others

LEMMA AnswersLast ==
    ASSUME StoreOK, Lasts, NEW d \in Calls, call'[d] = call[d], Knows(call[d]), Answers(d)
    PROVE  Answers(d)'
<1> SUFFICES ASSUME At(d, "learn", "done"), heir'[call[d].entity] = call[d].entity,
                    NEW p \in call[d].pats, Contradicts(call[d].item, p)'
             PROVE  \E k \in Active("conflict")' : items'[k].body.pats \intersect call[d].pats # {}
  BY DEF Answers, Answered, At
<1>1. Observant(call[d])
  BY DEF Knows, At, Observing, Correcting
<1>2. /\ IsA("observation", call[d].item) /\ call[d].pats \subseteq All("pattern")
      /\ call[d].entity \in Entities
  BY <1>1 DEF Observant, At
<1>3. Contradicts(call[d].item, p)
  BY <1>2 DEF Lasts, Contradicts, Gl, Segs, IsA, All
<1>4. heir[call[d].entity] = call[d].entity
  BY <1>2 DEF Lasts
<1>5. PICK k \in Active("conflict") : items[k].body.pats \intersect call[d].pats # {}
  BY <1>3, <1>4 DEF Answers, Answered, At
<1>6. k \in Ids /\ items[k].body.type = "conflict"
  BY DEF Active, ActiveIn, IsActive, Ids
<1>7. k \in Active("conflict")' /\ items'[k].body = items[k].body
  BY <1>5, <1>6, KindsLast DEF About
<1> QED  BY <1>5, <1>7

LEMMA AnswersKeep ==
    ASSUME StoreOK, Lasts, CallsKnow, ContradictionsAreRecorded,
           NEW c \in Calls, Others(c), Answers(c)'
    PROVE  ContradictionsAreRecorded'
<1>1. \A d \in Calls : Answers(d) /\ Knows(call[d])
  BY DEF ContradictionsAreRecorded, Answers, Answered, At, CallsKnow
<1>2. \A d \in Calls : Answers(d)'
  BY <1>1, AnswersLast DEF Others
<1> QED  BY <1>2 DEF ContradictionsAreRecorded, Answers, Answered, At

\* What is still certain was so before, or is granted upon all that is pending;
\* nothing questions a new item, and who adds a conflict is about to degrade.
Trusts(c) ==
    /\ \A i \in Ids : items'[i].conf = "certain" =>
          \/ items[i].conf = "certain" /\ items'[i].late = items[i].late
          \/ Pending(i)' \subseteq items'[i].late
    /\ \A i \in Ids' \ Ids : Pending(i)' = {}
    /\ \A k \in Active("conflict")' \ Ids, i \in Ids :
          i \in Implicated(items'[k].body) => WillDegrade(c, k, i)'
    /\ \A i \in Ids, k \in Active("conflict") :
          /\ WillDegrade(c, k, i) /\ i \in Implicated(items[k].body)
          /\ items'[i].conf = "certain"
          => WillDegrade(c, k, i)' \/ k \in Resolved'

LEMMA ContestedKeeps ==
    ASSUME StoreOK, Lasts, ContestedIsNotCertain, NEW c \in Calls, Others(c), Trusts(c)
    PROVE  ContestedIsNotCertain'
<1> SUFFICES ASSUME NEW i \in Ids', items'[i].conf = "certain", NEW k \in Pending(i)',
                    k \notin items'[i].late
             PROVE  \E d \in Calls : WillDegrade(d, k, i)'
  BY DEF ContestedIsNotCertain
<1>1. i \in Ids /\ items[i].conf = "certain" /\ items'[i].late = items[i].late
  BY DEF Trusts
<1>2. k \in Active("conflict")' /\ k \notin Resolved' /\ i \in Implicated(items'[k].body)
  BY DEF Pending, Questioning, QuestioningIn, Active
<1>3. CASE k \notin Ids
  BY <1>1, <1>2, <1>3 DEF Trusts
<1>4. CASE k \in Ids
  <2>1. k \in Active("conflict") /\ items[k].body.type = "conflict"
    BY <1>2, <1>4, KindsLast DEF Active, ActiveIn, IsActive
  <2>2. items'[k].body = items[k].body /\ k \notin Resolved
    BY <2>1, <1>2, <1>4, KindsLast DEF About
  <2>3. k \in Pending(i)
    BY <1>2, <2>1, <2>2 DEF Pending, Questioning, QuestioningIn, Active
  <2>4. PICK d \in Calls : WillDegrade(d, k, i)
    BY <1>1, <2>3 DEF ContestedIsNotCertain
  <2>5. CASE d = c
    BY <1>1, <1>2, <2>1, <2>2, <2>4, <2>5 DEF Trusts
  <2>6. CASE d # c
    BY <2>4, <2>6 DEF Others, WillDegrade
  <2> QED  BY <2>5, <2>6
<1> QED  BY <1>3, <1>4

LEMMA Numbered ==
    ASSUME StoreOK
    PROVE  /\ Len(items) \in Nat /\ Ids = 1..Len(items) /\ IsFiniteSet(Ids)
           /\ \A type : All(type) \subseteq Ids
           /\ \A type, e : Owned(type, e) \subseteq All(type) /\ Active(type) \subseteq All(type)
<1>1. Len(items) \in Nat /\ Ids = 1..Len(items)
  BY StoreType DEF StoreOK, Ids
<1>2. IsFiniteSet(1..Len(items))
  BY <1>1, FS_Interval, 1 \in Int, Len(items) \in Int
<1> QED  BY <1>1, <1>2 DEF All, Owned, OwnedIn, Active, ActiveIn, IsActive, Ids

\* A step that merges nothing: it adds items, writes treatments or grades them, and
\* an item that it brings to an entity which is being merged is a stray.
Gentle ==
    /\ UNCHANGED heir
    /\ stale \subseteq stale' /\ strays \subseteq strays'
    /\ Len(items) <= Len(items') /\ Len(items') \in Nat /\ Ids' = 1..Len(items')
    /\ \A i \in Ids :
          /\ items'[i].body.type = items[i].body.type
          /\ items'[i].active = items[i].active
          /\ items[i].body.type # "treatment" => items'[i].body = items[i].body
    /\ \A i \in Ids' : items'[i].active /\ items'[i].body.type \in About =>
          \/ i \in Ids /\ items[i].body.entity = items'[i].body.entity
          \/ BeingMerged(items'[i].body.entity) => i \in strays'

LEMMA GentleLasts ==
    ASSUME StoreOK, Gentle
    PROVE  Lasts
  BY StoreType DEF Lasts, Gentle, About

LEMMA HeldLasts ==
    ASSUME NEW old, HeldIn(old), heir' = heir, strays \subseteq strays'
    PROVE  HeldIn(old)'
<1> SUFFICES ASSUME NEW i \in DOMAIN old, old[i].active, old[i].body.type \in About,
                    heir[old[i].body.entity] # old[i].body.entity, i \notin strays'
             PROVE  /\ old[i].body.type = "observation"
                    /\ \E j \in DOMAIN old : old[j].active
                          /\ old[j].body =
                                 [old[i].body EXCEPT !.entity = heir[old[i].body.entity]]
  BY DEF HeldIn
<1>1. i \notin strays
  OBVIOUS
<1> QED  BY <1>1 DEF HeldIn

LEMMA MergesKeep ==
    ASSUME StoreOK, Gentle, MergesApart, NEW c \in Calls, Others(c),
           ~ At(c, "merge", "commit")'
    PROVE  MergesApart'
<1>1. ASSUME NEW d \in Calls, At(d, "merge", "commit")'
      PROVE  At(d, "merge", "commit") /\ call'[d] = call[d]
  BY <1>1 DEF Others, At
<1>2. ASSUME NEW d \in Calls, At(d, "merge", "commit")'
      PROVE  Imaged(call[d])'
  <2> DEFINE old == call[d].image
             s == call[d].entity
  <2>1. Imaged(call[d]) /\ call'[d] = call[d] /\ At(d, "merge", "commit")
    BY <1>1, <1>2 DEF MergesApart
  <2>2. DOMAIN old \subseteq Ids /\ Len(old) <= Len(items')
    BY <2>1, StoreType DEF Imaged, Gentle, StoreOK, Ids
  <2>3. \A i \in DOMAIN old :
              /\ items'[i].active = old[i].active
              /\ items'[i].body.type = old[i].body.type
              /\ old[i].body.type # "treatment" => items'[i].body = old[i].body
    BY <2>1, <2>2 DEF Imaged, Gentle
  <2>4. ASSUME NEW i \in Ids', items'[i].active, items'[i].body.type \in About,
               NEW e, e = items'[i].body.entity, e = s \/ heir[e] # e
        PROVE  i \in strays' \/ (i \in DOMAIN old /\ old[i].body.entity = e)
    <3>1. CASE i \in Ids /\ items[i].body.entity = items'[i].body.entity
      BY <2>1, <2>4, <3>1 DEF Imaged, Gentle
    <3>2. CASE BeingMerged(items'[i].body.entity) => i \in strays'
      BY <2>1, <2>4, <3>2 DEF BeingMerged
    <3> QED  BY <2>4, <3>1, <3>2 DEF Gentle
  <2> HIDE DEF old, s
  <2>5. heir' = heir
    BY DEF Gentle
  <2>6. HeldIn(old)'
    <3>1. PICK v : v = call[d].image
      OBVIOUS
    <3>2. HeldIn(v)
      BY <2>1, <3>1 DEF Imaged
    <3>3. HeldIn(v)'
      BY <2>5, <3>2, HeldLasts DEF Gentle
    <3>4. old' = v
      BY <2>1, <3>1 DEF old
    <3> QED  BY <3>3, <3>4 DEF HeldIn
  <2> QED  BY <2>1, <2>2, <2>3, <2>4, <2>5, <2>6 DEF Imaged, old, s
<1>3. \A d, e \in Calls : At(d, "merge", "commit")' /\ At(e, "merge", "commit")' => d = e
  BY <1>1 DEF MergesApart
<1> QED  BY <1>2, <1>3 DEF MergesApart

\* What a step that merges nothing has to show of its items and its call.
Sound(c) ==
    /\ StoreOK' /\ OneVoice' /\ Knows(call[c])' /\ Answers(c)' /\ Trusts(c)
    /\ \A i \in Ids' \ Ids :
          LET b == items'[i].body
          IN  /\ items'[i].active
              /\ b.type \in {"candidate", "pattern"} => Grounded(b)

LEMMA GentleKeeps ==
    ASSUME IInv, NEW c \in Calls, Others(c), Gentle, Sound(c), ~ At(c, "merge", "commit")'
    PROVE  IInv'
<1>1. Lasts
  BY GentleLasts DEF IInv
<1>2. CallsKnow' /\ ContradictionsAreRecorded' /\ ContestedIsNotCertain'
  BY <1>1, CallsKeep, AnswersKeep, ContestedKeeps DEF IInv, Sound
<1>3. MergesApart'
  BY MergesKeep DEF IInv
<1>4. Lasting'
  BY DEF IInv, Lasting, Gentle, Sound
<1>5. MergeLosesNothing'
  <2> SUFFICES ASSUME NEW i \in Ids', items'[i].active, items'[i].body.type \in About,
                      i \notin strays', heir[items'[i].body.entity] # items'[i].body.entity
               PROVE  HeldByHeir(i)'
    BY DEF MergeLosesNothing, Gentle
  <2>1. i \in Ids /\ items[i].body.entity = items'[i].body.entity
    BY DEF Gentle, BeingMerged
  <2>2. /\ items[i].active /\ items[i].body.type = items'[i].body.type /\ i \notin strays
        /\ items[i].body.type # "treatment" => items'[i].body = items[i].body
    BY <2>1 DEF Gentle
  <2>3. HeldByHeir(i)
    BY <2>1, <2>2 DEF IInv, MergeLosesNothing
  <2>4. PICK j \in Active("observation") :
            items[j].body = [items[i].body EXCEPT !.entity = heir[items[i].body.entity]]
    BY <2>3 DEF HeldByHeir
  <2>5. j \in Ids /\ items[j].active /\ items[j].body.type = "observation"
    BY DEF Active, ActiveIn, IsActive, Ids
  <2>6. items'[j].body = items[j].body /\ items'[j].active /\ j \in Ids'
    BY <2>5, Numbered DEF Gentle, IInv
  <2>7. j \in Active("observation")'
    BY <2>5, <2>6 DEF Active, ActiveIn, IsActive, Ids
  <2>8. items[i].body.type = "observation" /\ items'[i].body = items[i].body
    BY <2>2, <2>3 DEF HeldByHeir
  <2> QED  BY <2>2, <2>4, <2>6, <2>7, <2>8 DEF HeldByHeir, Gentle
<1>6. Related(items, heir)'
  <2> SUFFICES ASSUME NEW i \in Ids'
               PROVE  LET b == items'[i].body
                      IN  b.type \in {"candidate", "pattern"} =>
                              \A o \in b.obs : heir[items'[o].body.entity] = heir[b.entity]
    BY DEF Related, Gentle, Ids
  <2>1. CASE i \notin Ids
    <3>1. ASSUME Grounded(items'[i].body), NEW o \in items'[i].body.obs
          PROVE  heir[items'[o].body.entity] = heir[items'[i].body.entity]
      BY <3>1 DEF Grounded, All, Gentle
    <3> QED  BY <2>1, <3>1 DEF Sound
  <2>2. CASE i \in Ids
    <3>1. ASSUME items[i].body.type \in {"candidate", "pattern"}, NEW o \in items[i].body.obs
          PROVE  items'[o].body = items[o].body
      <4>1. o \in Ids /\ items[o].body.type = "observation"
        BY <2>2, <3>1, StoreType DEF IInv, StoreOK, Refers, Earlier, Ids
      <4> QED  BY <4>1 DEF Gentle
    <3>2. LET b == items[i].body
          IN  b.type \in {"candidate", "pattern"} =>
                  \A o \in b.obs : heir[items[o].body.entity] = heir[b.entity]
      BY <2>2 DEF IInv, Related, Ids
    <3>3. /\ items'[i].body.type = items[i].body.type
          /\ items[i].body.type # "treatment" => items'[i].body = items[i].body
      BY <2>2 DEF Gentle
    <3> QED  BY <3>1, <3>2, <3>3
  <2> QED  BY <2>1, <2>2
<1> QED  BY <1>2, <1>3, <1>4, <1>5, <1>6 DEF IInv, Sound

(***************************************************************************)
(* Steps that read.                                                        *)
(***************************************************************************)
LEMMA Going ==
    ASSUME CallsKnow, NEW c \in Calls, NEW n, Goes(c, n)
    PROVE  call'[c] = n /\ Others(c)
  BY DEF CallsKnow, Goes, Others

\* A call that reads keeps the invariant if it knows what it has read, and has not
\* left what it was to degrade.
LEMMA ReadingKeeps ==
    ASSUME IInv, NEW c \in Calls, NEW n, Goes(c, n), UNCHANGED <<items, heir, stale, strays>>,
           Knows(n), Answered(n), ~ (n.op = "merge" /\ n.pc = "commit"),
           \A i \in Ids, k \in Active("conflict") :
               /\ WillDegrade(c, k, i) /\ i \in Implicated(items[k].body)
               /\ items[i].conf = "certain"
               => WillDegrade(c, k, i)' \/ k \in Resolved
    PROVE  IInv'
<1>1. call'[c] = n /\ Others(c)
  BY Going DEF IInv
<1>2. Gentle
  BY StoreType DEF IInv, Gentle, StoreOK, Ids
<1>3. StoreOK' /\ OneVoice'
  BY DEF IInv, StoreOK, OneVoice, Ids
<1>4. Knows(call[c])'
  BY <1>1, <1>2, GentleLasts, KnowsLasts DEF IInv
<1>5. Answers(c)'
  BY <1>1 DEF Answers, Answered, Contradicts, Gl, Segs, Active
<1>6. Trusts(c)
  BY DEF Trusts, Active, ActiveIn, Ids, Resolved, IInv, StoreOK
<1>7. Sound(c) /\ ~ At(c, "merge", "commit")'
  BY <1>1, <1>3, <1>4, <1>5, <1>6 DEF Sound, At, Ids
<1> QED  BY <1>1, <1>2, <1>7, GentleKeeps

\* The one element of a set of items.
LEMMA OneItem ==
    ASSUME StoreOK, NEW S \in SUBSET Ids
    PROVE  /\ S = {} \/ Cardinality(S) >= 1
           /\ Cardinality(S) \in Nat
           /\ Cardinality(S) = 1 => S = {Max(S)}
           /\ S # {} => Max(S) \in S /\ Min(S) \in S
<1>1. IsFiniteSet(S)
  BY Numbered, FS_Subset
<1>2. Cardinality(S) \in Nat /\ (Cardinality(S) = 0 <=> S = {})
  BY <1>1, FS_EmptySet, FS_CardinalityType
<1>3. S # {} => Max(S) \in S /\ Min(S) \in S
  BY Numbered, Greatest, Least
<1>4. Cardinality(S) = 1 => \E x : S = {x}
  BY <1>1, FS_Singleton
<1>5. Cardinality(S) = 1 => S = {Max(S)}
  <2> SUFFICES ASSUME Cardinality(S) = 1 PROVE S = {Max(S)}
    OBVIOUS
  <2>1. PICK x : S = {x}
    BY <1>4
  <2>2. Max(S) \in S
    BY <1>3, <2>1
  <2> QED  BY <2>1, <2>2
<1> QED  BY <1>2, <1>3, <1>5

LEMMA StartLearnKeeps ==
    ASSUME IInv, Named, NEW c \in Calls, NEW t \in Txs, NEW g \in Accounts, StartLearn(c, t, g)
    PROVE  IInv'
<1> DEFINE n == [Idle EXCEPT !.op = "learn", !.pc = "read", !.tx = t, !.gl = g,
                             !.entity = payee[t]]
<1>1. /\ DOMAIN n = Fields /\ n.op = "learn" /\ n.pc = "read" /\ n.tx = t /\ n.gl = g
      /\ n.entity = payee[t]
  BY DEF Idle, Fields
<1>2. t \in Described
  BY KnowledgeAssumption
<1>3. payee[t] \in Entities
  BY <1>2 DEF Named, StartLearn
<1>4. Goes(c, n) /\ call[c].pc = "idle" /\ UNCHANGED <<items, heir, stale, strays>>
  BY DEF StartLearn, NoMark
<1> HIDE DEF n
<1>5. Asked(n)
  BY <1>1, <1>2, <1>3 DEF Asked
<1>6. Knows(n) /\ Answered(n) /\ ~ (n.op = "merge" /\ n.pc = "commit")
  BY <1>1, <1>5 DEF Knows, Answered, Correcting, Observing
<1>7. \A i, k : ~ WillDegrade(c, k, i)
  BY <1>4 DEF WillDegrade
<1> QED  BY <1>4, <1>6, <1>7, ReadingKeeps

LEMMA ReadTreatmentKeeps ==
    ASSUME IInv, NEW c \in Calls, ReadTreatment(c)
    PROVE  IInv'
<1> DEFINE m == call[c]
           saw == Owned("treatment", m.entity)
           n == [m EXCEPT !.pc = Decision(saw, m.gl), !.saw = saw,
                          !.item = IF Cardinality(saw) = 1 THEN Max(saw) ELSE 0]
<1>1. /\ DOMAIN m = Fields /\ m.op = "learn" /\ m.pc = "read" /\ Asked(m)
  BY DEF ReadTreatment, At, IInv, CallsKnow, Knows, Correcting
<1>2. /\ DOMAIN n = Fields /\ n.op = "learn" /\ n.pc = Decision(saw, m.gl) /\ n.tx = m.tx
      /\ n.gl = m.gl /\ n.entity = m.entity /\ n.saw = saw
      /\ n.item = IF Cardinality(saw) = 1 THEN Max(saw) ELSE 0
  BY <1>1 DEF Fields
<1>3. Goes(c, n) /\ UNCHANGED <<items, heir, stale, strays>>
  BY DEF ReadTreatment, NoMark
<1>4. \A i, k : ~ WillDegrade(c, k, i)
  BY <1>1 DEF WillDegrade
<1>5. /\ saw \subseteq Ids /\ saw \subseteq All("treatment")
      /\ Cardinality(saw) = 1 => saw = {Max(saw)}
      /\ saw # {} => Cardinality(saw) >= 1 /\ Cardinality(saw) \in Nat
  BY Numbered, OneItem DEF IInv
<1> HIDE DEF n, saw, m
<1>6. /\ n.pc \in {"create", "observe", "gate", "update"} /\ (n.pc = "create" => saw = {})
      /\ n.pc \in {"gate", "update"} => saw = {n.item}
  BY <1>2, <1>5 DEF Decision
<1>7. Asked(n)
  BY <1>1, <1>2, <1>5, <1>6 DEF Asked, IsA, All
<1>8. Knows(n) /\ Answered(n) /\ ~ (n.op = "merge" /\ n.pc = "commit")
  BY <1>2, <1>6, <1>7 DEF Knows, Answered, Correcting, Observing
<1> QED  BY <1>3, <1>4, <1>8, ReadingKeeps

LEMMA ReadResolutionsKeeps ==
    ASSUME IInv, NEW c \in Calls, ReadResolutions(c)
    PROVE  IInv'
<1> DEFINE m == call[c]
           n == [m EXCEPT !.pc = "pending", !.cleared = Resolved]
<1>1. DOMAIN m = Fields /\ m.op = "learn" /\ m.pc = "gate" /\ Asked(m)
  BY DEF ReadResolutions, At, IInv, CallsKnow, Knows, Correcting
<1>2. /\ DOMAIN n = Fields /\ n.op = "learn" /\ n.pc = "pending" /\ n.tx = m.tx /\ n.gl = m.gl
      /\ n.entity = m.entity /\ n.item = m.item /\ n.cleared = Resolved
  BY <1>1 DEF Fields
<1>3. Goes(c, n) /\ UNCHANGED <<items, heir, stale, strays>>
  BY DEF ReadResolutions, NoMark
<1>4. \A i, k : ~ WillDegrade(c, k, i)
  BY <1>1 DEF WillDegrade
<1> HIDE DEF n, m
<1>5. Asked(n)
  BY <1>1, <1>2 DEF Asked
<1>6. Knows(n) /\ Answered(n) /\ ~ (n.op = "merge" /\ n.pc = "commit")
  BY <1>2, <1>5 DEF Knows, Answered, Correcting, Observing
<1> QED  BY <1>3, <1>4, <1>6, ReadingKeeps

\* Nothing up to the last item questions i, unless it has been resolved.
LEMMA GrantedNow ==
    ASSUME StoreOK, NEW i, NEW cleared, cleared \subseteq Resolved, Unquestioned(i, cleared)
    PROVE  Granted(i, Len(items))
  BY Numbered DEF Granted, Unquestioned, Questioning, QuestioningIn, Active

LEMMA ReadPendingKeeps ==
    ASSUME IInv, NEW c \in Calls, ReadPending(c)
    PROVE  IInv'
<1> DEFINE m == call[c]
           n == [m EXCEPT !.saw = {}, !.cleared = {}, !.asOf = Len(items),
                   !.pc = IF Unquestioned(m.item, m.cleared) THEN "promote" ELSE "observe"]
<1>1. DOMAIN m = Fields /\ m.op = "learn" /\ m.pc = "pending" /\ Asked(m)
  BY DEF ReadPending, At, IInv, CallsKnow, Knows, Correcting
<1>2. /\ DOMAIN n = Fields /\ n.op = "learn" /\ n.tx = m.tx /\ n.gl = m.gl
      /\ n.entity = m.entity /\ n.item = m.item /\ n.asOf = Len(items)
      /\ n.pc = IF Unquestioned(m.item, m.cleared) THEN "promote" ELSE "observe"
  BY <1>1 DEF Fields
<1>3. Goes(c, n) /\ UNCHANGED <<items, heir, stale, strays>>
  BY DEF ReadPending, NoMark
<1>4. \A i, k : ~ WillDegrade(c, k, i)
  BY <1>1 DEF WillDegrade
<1> HIDE DEF n, m
<1>5. n.pc = "promote" => Granted(n.item, n.asOf)
  BY <1>1, <1>2, GrantedNow DEF Asked, IInv
<1>6. Asked(n)
  BY <1>1, <1>2, <1>5 DEF Asked
<1>7. Knows(n) /\ Answered(n) /\ ~ (n.op = "merge" /\ n.pc = "commit")
  BY <1>2, <1>6 DEF Knows, Answered, Correcting, Observing
<1> QED  BY <1>3, <1>4, <1>7, ReadingKeeps

\* A call that has ended keeps its operation, its entity, its item and its patterns.
LEMMA GoneTo ==
    ASSUME NEW m, DOMAIN m = Fields, NEW pc
    PROVE  LET n == Goto(m, pc)
           IN  /\ DOMAIN n = Fields /\ n.op = m.op /\ n.pc = pc /\ n.entity = m.entity
               /\ n.item = m.item /\ n.pats = m.pats
               /\ pc # "done" =>
                     /\ n.conflict = m.conflict /\ n.asOf = m.asOf /\ n.saw = m.saw
                     /\ n.cleared = m.cleared /\ n.evidence = m.evidence /\ n.todo = m.todo
                     /\ n.groups = m.groups /\ n.body = m.body
                     /\ n.tx = m.tx /\ n.gl = m.gl /\ n.conf = m.conf
  BY DEF Goto, Ended, Idle, Fields

LEMMA ReadPatternsKeeps ==
    ASSUME IInv, NEW c \in Calls, ReadPatterns(c)
    PROVE  IInv'
<1> DEFINE m == call[c]
           pats == Owned("pattern", m.entity)
           q == [m EXCEPT !.pats = pats]
           n == Goto(q, IF pats = {} THEN "done" ELSE "evidence")
<1>1. DOMAIN m = Fields /\ m.op = "learn" /\ m.pc = "patterns" /\ Observant(m)
  BY DEF ReadPatterns, At, IInv, CallsKnow, Knows, Correcting, Observing
<1>2. DOMAIN q = Fields /\ q.op = "learn" /\ q.entity = m.entity /\ q.item = m.item /\ q.pats = pats
  BY <1>1 DEF Fields
<1>3. Goes(c, n) /\ UNCHANGED <<items, heir, stale, strays>>
  BY DEF ReadPatterns, NoMark
<1>4. \A i, k : ~ WillDegrade(c, k, i)
  BY <1>1 DEF WillDegrade
<1>5. pats \subseteq All("pattern")
  BY Numbered DEF IInv
<1> HIDE DEF q, m, pats
<1>6. /\ DOMAIN n = Fields /\ n.op = "learn" /\ n.entity = m.entity /\ n.item = m.item
      /\ n.pats = pats /\ n.pc = IF pats = {} THEN "done" ELSE "evidence"
  BY <1>2, GoneTo
<1> HIDE DEF n
<1>7. Observant(n)
  BY <1>1, <1>5, <1>6 DEF Observant
<1>8. Knows(n) /\ Answered(n) /\ ~ (n.op = "merge" /\ n.pc = "commit")
  BY <1>6, <1>7 DEF Knows, Answered, Correcting, Observing
<1> QED  BY <1>3, <1>4, <1>8, ReadingKeeps

LEMMA ReadEvidenceKeeps ==
    ASSUME IInv, NEW c \in Calls, ReadEvidence(c)
    PROVE  IInv'
<1> DEFINE m == call[c]
           seen == Owned("observation", m.entity)
           n == [m EXCEPT !.pc = "exact", !.evidence = seen]
<1>1. DOMAIN m = Fields /\ m.op = "learn" /\ m.pc = "evidence" /\ Observant(m)
  BY DEF ReadEvidence, At, IInv, CallsKnow, Knows, Correcting, Observing
<1>2. /\ DOMAIN n = Fields /\ n.op = "learn" /\ n.pc = "exact" /\ n.entity = m.entity
      /\ n.item = m.item /\ n.pats = m.pats /\ n.evidence = seen
  BY <1>1 DEF Fields
<1>3. Goes(c, n) /\ UNCHANGED <<items, heir, stale, strays>>
  BY DEF ReadEvidence, NoMark
<1>4. \A i, k : ~ WillDegrade(c, k, i)
  BY <1>1 DEF WillDegrade
<1>5. /\ seen \subseteq All("observation")
      /\ heir[m.entity] = m.entity => m.item \in seen
  BY <1>1, Numbered DEF IInv, Observant, IsA, Owned, OwnedIn, ActiveIn, IsActive, Ids
<1> HIDE DEF n, m, seen
<1>6. Observant(n)
  BY <1>1, <1>2, <1>5 DEF Observant
<1>7. Knows(n) /\ Answered(n) /\ ~ (n.op = "merge" /\ n.pc = "commit")
  BY <1>2, <1>6 DEF Knows, Answered, Correcting, Observing
<1> QED  BY <1>3, <1>4, <1>7, ReadingKeeps

LEMMA ConflictIs ==
    ASSUME NEW e \in Entities, NEW kind \in {"authorised", "observed", "exact"},
           NEW P \in SUBSET Nat, NEW g \in Accounts, NEW O \in SUBSET Nat, NEW X \in SUBSET Nat
    PROVE  LET f == Conflict(e, kind, P, g, O, X)
           IN  f \in Conflicts /\ f.pats = P /\ f.obs = O /\ f.exact = X
  BY DEF Conflict, Conflicts

\* A conflict that is found questions some of the patterns, and one is found if an
\* observation contradicts a pattern.
LEMMA FoundDrawn ==
    ASSUME StoreOK, NEW e \in Entities, NEW pats \in SUBSET All("pattern"),
           NEW evidence \in SUBSET All("observation"), NEW exact \in SUBSET All("treatment")
    PROVE  LET f == Found(e, pats, evidence, exact)
           IN  /\ f = None \/ /\ f \in Conflicts /\ f.pats \subseteq pats /\ f.pats # {}
                              /\ f.exact \subseteq All("treatment")
                              /\ f.obs \subseteq All("observation")
               /\ (\E p \in pats, o \in evidence : Contradicts(o, p)) => f # None
<1> DEFINE Fine(f) == /\ f \in Conflicts /\ f.pats \subseteq pats /\ f.pats # {}
                      /\ f.exact \subseteq All("treatment") /\ f.obs \subseteq All("observation")
           i == Max({q[1] : q \in Overlaps(pats)})
           j == Max({q[2] : q \in {x \in Overlaps(pats) : x[1] = i}})
           p == Max({x \in pats : Against(x, evidence) # {}})
           o == Max(Against(p, evidence))
           t == Max(exact)
           x == Max({y \in pats : Gl(y) # Gl(t)})
<1>1. /\ Ids \subseteq Nat
      /\ \A type : All(type) \subseteq Ids
      /\ \A S \in SUBSET Ids : S # {} => Max(S) \in S
      /\ \A S \in SUBSET Ids : Cardinality(S) = 1 => S # {}
  <2>1. Ids \subseteq Nat /\ \A type : All(type) \subseteq Ids
    BY Numbered
  <2>2. Cardinality({}) = 0
    BY FS_EmptySet
  <2> QED  BY <2>1, <2>2, OneItem
<1>2. \A y \in pats \union evidence \union exact : Gl(y) \in Accounts
  <2> TAKE y \in pats \union evidence \union exact
  <2>1. y \in Ids /\ items[y].body.type \in {"pattern", "observation", "treatment"}
    BY DEF All
  <2> QED  BY <2>1, StoreType, BodyType DEF StoreOK, Ids, About, Gl
<1>3. ASSUME Overlaps(pats) # {} PROVE Fine(Authorised(e, pats))
  <2>1. Overlaps(pats) \subseteq pats \X pats
    BY DEF Overlaps
  <2>2. i \in {q[1] : q \in Overlaps(pats)}
    <3>1. {q[1] : q \in Overlaps(pats)} \in SUBSET Ids /\ {q[1] : q \in Overlaps(pats)} # {}
      BY <1>1, <1>3, <2>1
    <3> QED  BY <3>1, <1>1
  <2>3. j \in {q[2] : q \in {y \in Overlaps(pats) : y[1] = i}}
    <3> DEFINE S == {q[2] : q \in {y \in Overlaps(pats) : y[1] = i}}
    <3> HIDE DEF i
    <3>1. S \in SUBSET Ids /\ S # {}
      BY <1>1, <2>1, <2>2
    <3> HIDE DEF S
    <3>2. Max(S) \in S
      BY <3>1, <1>1
    <3> QED  BY <3>2 DEF S
  <2>4. i \in pats /\ j \in pats
    <3> HIDE DEF i, j
    <3> QED  BY <2>1, <2>2, <2>3
  <2>5. Authorised(e, pats) = Conflict(e, "authorised", {i, j}, Gl(j), {}, {})
    BY DEF Authorised
  <2> HIDE DEF i, j
  <2> QED  BY <1>1, <1>2, <2>4, <2>5, ConflictIs
<1>4. ASSUME \E y \in pats : Against(y, evidence) # {} PROVE Fine(Observed(e, pats, evidence))
  <2>1. p \in pats /\ Against(p, evidence) # {}
    <3> DEFINE S == {y \in pats : Against(y, evidence) # {}}
    <3>1. S \in SUBSET Ids /\ S # {}
      BY <1>1, <1>4
    <3> HIDE DEF S
    <3>2. Max(S) \in S
      BY <3>1, <1>1
    <3> QED  BY <3>2 DEF S
  <2> HIDE DEF p
  <2>2. Against(p, evidence) \subseteq evidence
    BY DEF Against
  <2>3. o \in Against(p, evidence)
    BY <1>1, <2>1, <2>2
  <2>4. Observed(e, pats, evidence) =
            Conflict(e, "observed", {p}, Gl(o), Against(p, evidence), {})
    BY DEF Observed, p
  <2> HIDE DEF o
  <2> QED  BY <1>1, <1>2, <2>1, <2>2, <2>3, <2>4, ConflictIs
<1>5. ASSUME Cardinality(exact) = 1, \E y \in pats, u \in exact : Gl(y) # Gl(u)
      PROVE  Fine(Exact(e, pats, t))
  <2>1. exact = {t}
    BY <1>1, <1>5, OneItem
  <2>2. x \in pats
    <3> DEFINE S == {y \in pats : Gl(y) # Gl(t)}
    <3> HIDE DEF t
    <3>1. S \in SUBSET Ids /\ S # {}
      BY <1>1, <1>5, <2>1
    <3> HIDE DEF S
    <3>2. Max(S) \in S
      BY <3>1, <1>1
    <3> QED  BY <3>2 DEF S
  <2>3. Exact(e, pats, t) = Conflict(e, "exact", {x}, Gl(t), {}, {t})
    BY DEF Exact
  <2> HIDE DEF x, t
  <2>4. /\ t \in All("treatment") /\ Gl(t) \in Accounts
        /\ {x} \in SUBSET Nat /\ {t} \in SUBSET Nat /\ {} \in SUBSET Nat
    BY <1>1, <1>2, <2>1, <2>2
  <2>5. LET f == Conflict(e, "exact", {x}, Gl(t), {}, {t})
        IN  f \in Conflicts /\ f.pats = {x} /\ f.obs = {} /\ f.exact = {t}
    BY <2>4, ConflictIs
  <2> QED  BY <2>2, <2>3, <2>4, <2>5
<1>6. \A f : Fine(f) => f # None
  BY DEF None, Conflicts
<1>7. (\E y \in pats, u \in evidence : Contradicts(u, y)) => \E y \in pats : Against(y, evidence) # {}
  BY DEF Against
<1> HIDE DEF Fine, i, j, p, o, t, x
<1>8. LET f == Found(e, pats, evidence, exact)
      IN  /\ f = None \/ Fine(f)
          /\ (\E y \in pats, u \in evidence : Contradicts(u, y)) => f # None
  BY <1>3, <1>4, <1>5, <1>6, <1>7 DEF Found, t
<1> QED  BY <1>8 DEF Fine

LEMMA DetectKeeps ==
    ASSUME IInv, NEW c \in Calls, Detect(c)
    PROVE  IInv'
<1> DEFINE m == call[c]
           found == Found(m.entity, m.pats, m.evidence, Owned("treatment", m.entity))
           q == [m EXCEPT !.evidence = {}, !.body = found]
           n == Goto(q, IF found = None THEN "done" ELSE "known")
<1>1. DOMAIN m = Fields /\ m.op = "learn" /\ m.pc = "exact" /\ Observant(m)
  BY DEF Detect, At, IInv, CallsKnow, Knows, Correcting, Observing
<1>2. /\ DOMAIN q = Fields /\ q.op = "learn" /\ q.entity = m.entity /\ q.item = m.item
      /\ q.pats = m.pats /\ q.body = found
  BY <1>1 DEF Fields
<1>3. Goes(c, n) /\ UNCHANGED <<items, heir, stale, strays>>
  BY DEF Detect, NoMark
<1>4. \A i, k : ~ WillDegrade(c, k, i)
  BY <1>1 DEF WillDegrade
<1>5. /\ found = None \/ /\ found \in Conflicts /\ found.pats \subseteq m.pats
                         /\ found.pats # {} /\ found.exact \subseteq All("treatment")
                         /\ found.obs \subseteq All("observation")
      /\ (\E p \in m.pats, o \in m.evidence : Contradicts(o, p)) => found # None
  <2>1. Owned("treatment", m.entity) \subseteq All("treatment")
    BY Numbered DEF IInv
  <2>2. /\ m.entity \in Entities /\ m.pats \in SUBSET All("pattern")
        /\ m.evidence \in SUBSET All("observation")
    BY <1>1 DEF Observant
  <2> QED  BY <2>1, <2>2, FoundDrawn DEF IInv
<1> HIDE DEF q, m, found
<1>6. /\ DOMAIN n = Fields /\ n.op = "learn" /\ n.entity = m.entity /\ n.item = m.item
      /\ n.pats = m.pats /\ n.pc = IF found = None THEN "done" ELSE "known"
      /\ found # None => n.body = found
  BY <1>2, GoneTo
<1> HIDE DEF n
<1>7. Observant(n)
  BY <1>1, <1>5, <1>6 DEF Observant, Drawn
<1>8. Answered(n)
  <2>1. heir[m.entity] = m.entity => m.item \in m.evidence
    BY <1>1 DEF Observant
  <2> QED  BY <1>5, <1>6, <2>1 DEF Answered
<1>9. Knows(n) /\ ~ (n.op = "merge" /\ n.pc = "commit")
  BY <1>6, <1>7 DEF Knows, Correcting, Observing
<1> QED  BY <1>3, <1>4, <1>8, <1>9, ReadingKeeps

LEMMA ReadConflictsKeeps ==
    ASSUME IInv, NEW c \in Calls, ReadConflicts(c)
    PROVE  IInv'
<1> DEFINE m == call[c]
           same == Known(m.body)
           n == IF same = {} THEN [m EXCEPT !.pc = "persist"]
                ELSE [m EXCEPT !.pc = "settle", !.conflict = Max(same), !.body = None]
<1>1. DOMAIN m = Fields /\ m.op = "learn" /\ m.pc = "known" /\ Observant(m)
  BY DEF ReadConflicts, At, IInv, CallsKnow, Knows, Correcting, Observing
<1>2. /\ DOMAIN n = Fields /\ n.op = "learn" /\ n.entity = m.entity /\ n.item = m.item
      /\ n.pats = m.pats /\ n.pc = IF same = {} THEN "persist" ELSE "settle"
      /\ same = {} => n.body = m.body
      /\ same # {} => n.conflict = Max(same)
  BY <1>1 DEF Fields
<1>3. Goes(c, n) /\ UNCHANGED <<items, heir, stale, strays>>
  BY DEF ReadConflicts, NoMark
<1>4. \A i, k : ~ WillDegrade(c, k, i)
  BY <1>1 DEF WillDegrade
<1>5. same # {} => Max(same) \in same
  <2>1. same \in SUBSET Ids
    BY Numbered DEF IInv, Known
  <2> HIDE DEF same
  <2> QED  BY <2>1, OneItem DEF IInv
<1>6. \A k \in same : IsA("conflict", k) /\ items[k].active /\ items[k].body.pats = m.body.pats
  BY DEF Known, Identity, Active, ActiveIn, IsActive, IsA, Ids
<1>7. Drawn(m)
  BY <1>1 DEF Observant
<1> HIDE DEF n, m, same
<1>8. Observant(n)
  <2>1. same = {} => Drawn(n)
    BY <1>2, <1>7 DEF Drawn
  <2>2. same # {} => Opposed(n)
    BY <1>2, <1>5, <1>6, <1>7 DEF Drawn, Opposed
  <2> QED  BY <1>1, <1>2, <2>1, <2>2 DEF Observant
<1>9. Knows(n) /\ Answered(n) /\ ~ (n.op = "merge" /\ n.pc = "commit")
  BY <1>2, <1>8 DEF Knows, Answered, Correcting, Observing
<1> QED  BY <1>3, <1>4, <1>9, ReadingKeeps

\* A conflict that a correction has found is on record for its answer.
LEMMA OpposedAnswers ==
    ASSUME NEW m, Opposed(m), NEW n, n.pats = m.pats
    PROVE  Answered(n)
<1>1. m.conflict \in Active("conflict")
  BY DEF Opposed, IsA, Active, ActiveIn, IsActive, Ids
<1> QED  BY <1>1 DEF Answered, Opposed

LEMMA SettleKeeps ==
    ASSUME IInv, NEW c \in Calls, Settle(c)
    PROVE  IInv'
<1> DEFINE m == call[c]
           n == Goto(m, IF m.conflict \in Resolved THEN "done" ELSE "load")
<1>1. DOMAIN m = Fields /\ m.op = "learn" /\ m.pc = "settle" /\ Observant(m)
  BY DEF Settle, At, IInv, CallsKnow, Knows, Correcting, Observing
<1>2. Goes(c, n) /\ UNCHANGED <<items, heir, stale, strays>>
  BY DEF Settle, To, NoMark
<1>3. Opposed(m)
  BY <1>1 DEF Observant
<1> HIDE DEF m
<1>4. /\ DOMAIN n = Fields /\ n.op = "learn" /\ n.entity = m.entity /\ n.item = m.item
      /\ n.pats = m.pats /\ n.pc = IF m.conflict \in Resolved THEN "done" ELSE "load"
      /\ m.conflict \notin Resolved => n.conflict = m.conflict
  BY <1>1, GoneTo
<1>5. call'[c] = n
  BY <1>2, Going DEF IInv
<1>6. \A i, k : WillDegrade(c, k, i) => WillDegrade(c, k, i)' \/ k \in Resolved
  BY <1>4, <1>5 DEF WillDegrade, m
<1> HIDE DEF n
<1>7. Observant(n)
  BY <1>1, <1>3, <1>4 DEF Observant, Opposed
<1>8. Knows(n) /\ ~ (n.op = "merge" /\ n.pc = "commit")
  BY <1>4, <1>7 DEF Knows, Correcting, Observing
<1> QED  BY <1>2, <1>3, <1>4, <1>6, <1>8, OpposedAnswers, ReadingKeeps

LEMMA LoadTargetsKeeps ==
    ASSUME IInv, NEW c \in Calls, LoadTargets(c)
    PROVE  IInv'
<1> DEFINE m == call[c]
           todo == {i \in Targets(items[m.conflict].body) : items[i].conf # "uncertain"}
           q == [m EXCEPT !.todo = todo]
           n == Goto(q, IF todo = {} THEN "done" ELSE "degrade")
<1>1. DOMAIN m = Fields /\ m.op = "learn" /\ m.pc = "load" /\ Observant(m)
  BY DEF LoadTargets, At, IInv, CallsKnow, Knows, Correcting, Observing
<1>2. Goes(c, n) /\ UNCHANGED <<items, heir, stale, strays>>
  BY DEF LoadTargets, NoMark
<1>3. Opposed(m)
  BY <1>1 DEF Observant
<1>4. /\ DOMAIN q = Fields /\ q.op = "learn" /\ q.entity = m.entity /\ q.item = m.item
      /\ q.pats = m.pats /\ q.conflict = m.conflict /\ q.todo = todo
  BY <1>1 DEF Fields
<1> HIDE DEF q, m
<1>5. /\ DOMAIN n = Fields /\ n.op = "learn" /\ n.entity = m.entity /\ n.item = m.item
      /\ n.pats = m.pats /\ n.pc = IF todo = {} THEN "done" ELSE "degrade"
      /\ todo # {} => n.conflict = m.conflict /\ n.todo = todo
  <2> HIDE DEF todo
  <2> QED  BY <1>4, GoneTo
<1>6. call'[c] = n
  BY <1>2, Going DEF IInv
<1>7. ASSUME NEW k \in Active("conflict"), k \notin Resolved, NEW i \in Ids,
             items[i].conf = "certain", i \in Implicated(items[k].body), WillDegrade(c, k, i)
      PROVE  WillDegrade(c, k, i)'
  <2>1. k = m.conflict
    BY <1>7 DEF WillDegrade, m
  <2>2. i \in todo
    BY <1>7, <2>1 DEF Targets
  <2> QED  BY <1>5, <1>6, <2>1, <2>2 DEF WillDegrade
<1> HIDE DEF n
<1>8. Observant(n)
  BY <1>1, <1>3, <1>5 DEF Observant, Opposed, Targets
<1>9. Knows(n) /\ ~ (n.op = "merge" /\ n.pc = "commit")
  <2> HIDE DEF todo
  <2> QED  BY <1>5, <1>8 DEF Knows, Correcting, Observing
<1> QED  BY <1>2, <1>3, <1>5, <1>7, <1>9, OpposedAnswers, ReadingKeeps

LEMMA StartDiscoveryKeeps ==
    ASSUME IInv, NEW c \in Calls, StartDiscovery(c)
    PROVE  IInv'
<1> DEFINE groups == GroupsOf(Active("observation"))
           n == [Idle EXCEPT !.op = "discover", !.pc = "groups", !.groups = groups]
<1>1. DOMAIN n = Fields /\ n.op = "discover" /\ n.pc = "groups" /\ n.groups = groups
  BY DEF Idle, Fields
<1>2. Goes(c, n) /\ call[c].pc = "idle" /\ UNCHANGED <<items, heir, stale, strays>>
  BY DEF StartDiscovery, NoMark
<1>3. groups \subseteq Entities \X Accounts
  <2> SUFFICES ASSUME NEW o \in Active("observation")
               PROVE  <<items[o].body.entity, Gl(o)>> \in Entities \X Accounts
    BY DEF GroupsOf
  <2>1. o \in Ids /\ items[o].body.type = "observation"
    BY DEF Active, ActiveIn, IsActive, Ids
  <2> QED  BY <2>1, StoreType, BodyType DEF IInv, StoreOK, Ids, About, Gl
<1> HIDE DEF n
<1>4. Knows(n) /\ Answered(n) /\ ~ (n.op = "merge" /\ n.pc = "commit")
  BY <1>1, <1>3 DEF Knows, Answered
<1>5. \A i, k : ~ WillDegrade(c, k, i)
  BY <1>2 DEF WillDegrade
<1> QED  BY <1>2, <1>4, <1>5, ReadingKeeps

\* What is generalised from the observations of a group is founded on them.
LEMMA GroupFounds ==
    ASSUME StoreOK, NEW e \in Entities, NEW g \in Accounts, IsCandidate(Group(e, g))
    PROVE  Founded(Candidate(e, g, Generalised(TextsOf(Group(e, g))), Group(e, g)))
<1> DEFINE obs == Group(e, g)
           D == TextsOf(obs)
           b == Candidate(e, g, Generalised(D), obs)
<1>1. /\ obs \subseteq All("observation") /\ obs \subseteq Ids /\ Ids \subseteq Nat
      /\ \A o \in obs : items[o].body.entity = e /\ items[o].body.gl = g
  <2>1. obs \subseteq Owned("observation", e) /\ \A o \in obs : items[o].body.gl = g
    BY DEF Group, Gl
  <2>2. \A o \in Owned("observation", e) : items[o].body.entity = e
    BY DEF Owned, OwnedIn
  <2> HIDE DEF obs
  <2> QED  BY <2>1, <2>2, Numbered
<1>2. \A o \in obs : items[o].body.tx \in Described
  <2> TAKE o \in obs
  <2>1. o \in Ids /\ items[o].body.type = "observation"
    BY <1>1 DEF All
  <2> HIDE DEF obs
  <2> QED  BY <2>1, StoreType, BodyType DEF StoreOK, Ids, Observations
<1>3. D \in SUBSET Descriptions
  BY <1>2, KnowledgeAssumption DEF TextsOf
<1>4. Cardinality(obs) > 1 /\ obs # {} /\ SameLength(D)
  <2>1. Cardinality({}) = 0
    BY FS_EmptySet
  <2> QED  BY <2>1 DEF IsCandidate
<1>5. D # {}
  BY <1>4 DEF TextsOf
<1>6. Generalised(D) \in Structures /\ \A d \in D : Matches(d, Generalised(D))
  <2> HIDE DEF D
  <2> QED  BY <1>3, <1>4, <1>5, GeneralisedMatches
<1>7. \A o \in obs : Matches(Text[items[o].body.tx], Generalised(D))
  BY <1>6 DEF TextsOf
<1> HIDE DEF D, obs
<1>8. /\ b.obs = obs /\ b.gl = g /\ b.segs = Generalised(D) /\ b.entity = e
      /\ b \in Candidates
  BY <1>1, <1>6 DEF Candidate, Candidates
<1> HIDE DEF b
<1>9. Evidenced(items, b)
  BY <1>1, <1>4, <1>7, <1>8 DEF Evidenced
<1>10. Founded(b)
  BY <1>1, <1>8, <1>9 DEF Founded, Grounded
<1> QED  BY <1>10 DEF b, D, obs

LEMMA DiscoverGroupKeeps ==
    ASSUME IInv, NEW c \in Calls, NEW g \in Entities \X Accounts, DiscoverGroup(c, g)
    PROVE  IInv'
<1> DEFINE m == call[c]
           obs == Group(g[1], g[2])
           rest == m.groups \ {g}
           body == Candidate(g[1], g[2], Generalised(TextsOf(obs)), obs)
           n == IF IsCandidate(obs)
                THEN [m EXCEPT !.pc = "record", !.groups = rest, !.body = body]
                ELSE [m EXCEPT !.groups = rest]
<1>1. /\ DOMAIN m = Fields /\ m.op = "discover" /\ m.pc = "groups"
      /\ m.groups \subseteq Entities \X Accounts
  BY DEF DiscoverGroup, At, IInv, CallsKnow, Knows
<1>2. Goes(c, n) /\ UNCHANGED <<items, heir, stale, strays>>
  BY DEF DiscoverGroup, NoMark
<1>3. IsCandidate(obs) => Founded(body)
  BY GroupFounds DEF IInv
<1>4. \A i, k : ~ WillDegrade(c, k, i)
  BY <1>1 DEF WillDegrade
<1>5. rest \subseteq Entities \X Accounts
  BY <1>1
<1> HIDE DEF obs, body, m, rest
<1>6. /\ DOMAIN n = Fields /\ n.op = "discover" /\ n.groups = rest
      /\ n.pc = (IF IsCandidate(obs) THEN "record" ELSE "groups")
      /\ IsCandidate(obs) => n.body = body
  BY <1>1 DEF Fields
<1> HIDE DEF n
<1>7. Knows(n) /\ Answered(n) /\ ~ (n.op = "merge" /\ n.pc = "commit")
  BY <1>3, <1>5, <1>6 DEF Knows, Answered
<1> QED  BY <1>2, <1>4, <1>7, ReadingKeeps

LEMMA EndDiscoveryKeeps ==
    ASSUME IInv, NEW c \in Calls, EndDiscovery(c)
    PROVE  IInv'
<1> DEFINE n == Goto(call[c], "done")
<1>1. DOMAIN call[c] = Fields /\ call[c].op = "discover" /\ call[c].pc = "groups"
  BY DEF EndDiscovery, At, IInv, CallsKnow, Knows
<1>2. Goes(c, n) /\ UNCHANGED <<items, heir, stale, strays>>
  BY DEF EndDiscovery, Ends, To, NoMark
<1>3. DOMAIN n = Fields /\ n.op = "discover" /\ n.pc = "done"
  BY <1>1, GoneTo
<1>4. \A i, k : ~ WillDegrade(c, k, i)
  BY <1>1 DEF WillDegrade
<1> HIDE DEF n
<1>5. Knows(n) /\ Answered(n) /\ ~ (n.op = "merge" /\ n.pc = "commit")
  BY <1>3 DEF Knows, Answered
<1> QED  BY <1>2, <1>4, <1>5, ReadingKeeps

LEMMA StartAuthoriseKeeps ==
    ASSUME IInv, NEW c \in Calls, NEW k \in Ids, StartAuthorise(c, k)
    PROVE  IInv'
<1> DEFINE n == [Idle EXCEPT !.op = "authorise", !.pc = "read", !.item = k,
                             !.entity = items[k].body.entity, !.body = items[k].body]
<1>1. /\ DOMAIN n = Fields /\ n.op = "authorise" /\ n.pc = "read" /\ n.item = k
      /\ n.entity = items[k].body.entity /\ n.body = items[k].body
  BY DEF Idle, Fields
<1>2. /\ Goes(c, n) /\ call[c].pc = "idle" /\ UNCHANGED <<items, heir, stale, strays>>
      /\ items[k].body.type = "candidate"
  BY DEF StartAuthorise, NoMark
<1>3. Founded(items[k].body)
  <2>1. items[k].body \in Candidates
    BY <1>2, StoreType, BodyType DEF IInv, StoreOK, Ids
  <2>2. items[k].body.obs \subseteq Earlier(items, "observation", k) /\ Evidenced(items, items[k].body)
    BY <1>2 DEF IInv, StoreOK, Refers
  <2>3. items[k].body.obs \subseteq All("observation")
    BY <2>2, Numbered DEF IInv, Earlier, All
  <2>4. \A o \in items[k].body.obs : heir[items[o].body.entity] = heir[items[k].body.entity]
    BY <1>2 DEF IInv, Related, Ids
  <2> QED  BY <2>1, <2>2, <2>3, <2>4 DEF Founded, Grounded
<1> HIDE DEF n
<1>4. Authoriser(n)
  BY <1>1, <1>2, <1>3 DEF Authoriser, IsA
<1>5. Knows(n) /\ Answered(n) /\ ~ (n.op = "merge" /\ n.pc = "commit")
  BY <1>1, <1>4 DEF Knows, Answered
<1>6. \A i, j : ~ WillDegrade(c, j, i)
  BY <1>2 DEF WillDegrade
<1> QED  BY <1>2, <1>5, <1>6, ReadingKeeps

LEMMA ReadAuthorisedKeeps ==
    ASSUME IInv, NEW c \in Calls, ReadAuthorised(c)
    PROVE  IInv'
<1> DEFINE m == call[c]
           saw == Owned("pattern", m.entity)
           q == [m EXCEPT !.saw = saw]
           n == Goto(q, IF MayAuthorise(m.body, m.item) THEN "record" ELSE "done")
<1>1. DOMAIN m = Fields /\ m.op = "authorise" /\ m.pc = "read" /\ Authoriser(m)
  BY DEF ReadAuthorised, At, IInv, CallsKnow, Knows
<1>2. /\ DOMAIN q = Fields /\ q.op = "authorise" /\ q.entity = m.entity /\ q.item = m.item
      /\ q.body = m.body /\ q.saw = saw
  BY <1>1 DEF Fields
<1>3. Goes(c, n) /\ UNCHANGED <<items, heir, stale, strays>>
  BY DEF ReadAuthorised, NoMark
<1>4. \A i, k : ~ WillDegrade(c, k, i)
  BY <1>1 DEF WillDegrade
<1>5. /\ saw \subseteq All("pattern")
      /\ MayAuthorise(m.body, m.item) => \A p \in saw : Gl(p) = m.body.gl
  BY <1>1, Numbered DEF IInv, Authoriser, MayAuthorise
<1> HIDE DEF q, m, saw
<1>6. /\ DOMAIN n = Fields /\ n.op = "authorise"
      /\ n.pc = IF MayAuthorise(m.body, m.item) THEN "record" ELSE "done"
      /\ MayAuthorise(m.body, m.item) =>
            n.entity = m.entity /\ n.item = m.item /\ n.body = m.body /\ n.saw = saw
  BY <1>2, GoneTo
<1> HIDE DEF n
<1>7. Authoriser(n)
  BY <1>1, <1>5, <1>6 DEF Authoriser
<1>8. Knows(n) /\ Answered(n) /\ ~ (n.op = "merge" /\ n.pc = "commit")
  BY <1>6, <1>7 DEF Knows, Answered
<1> QED  BY <1>3, <1>4, <1>8, ReadingKeeps

LEMMA StartResolveKeeps ==
    ASSUME IInv, NEW c \in Calls, NEW k \in Ids, StartResolve(c, k)
    PROVE  IInv'
<1> DEFINE q == [Idle EXCEPT !.op = "resolve", !.conflict = k]
           n == Goto(q, IF k \in Resolved THEN "done" ELSE "record")
<1>1. DOMAIN q = Fields /\ q.op = "resolve" /\ q.conflict = k
  BY DEF Idle, Fields
<1>2. /\ Goes(c, n) /\ call[c].pc = "idle" /\ UNCHANGED <<items, heir, stale, strays>>
      /\ items[k].body.type = "conflict"
  BY DEF StartResolve, NoMark
<1>3. \A i, j : ~ WillDegrade(c, j, i)
  BY <1>2 DEF WillDegrade
<1> HIDE DEF q
<1>4. /\ DOMAIN n = Fields /\ n.op = "resolve" /\ n.pc \in {"record", "done"}
      /\ n.pc = "record" => n.conflict = k
  BY <1>1, GoneTo
<1> HIDE DEF n
<1>5. Knows(n) /\ Answered(n) /\ ~ (n.op = "merge" /\ n.pc = "commit")
  BY <1>2, <1>4 DEF Knows, Answered, IsA
<1> QED  BY <1>2, <1>3, <1>5, ReadingKeeps

LEMMA StartRehabilitateKeeps ==
    ASSUME IInv, NEW c \in Calls, NEW k \in Ids, NEW i \in Ids, StartRehabilitate(c, k, i)
    PROVE  IInv'
<1> DEFINE n == [Idle EXCEPT !.op = "rehabilitate", !.pc = "resolved", !.conflict = k,
                             !.item = i, !.conf = items[i].conf]
<1>1. /\ DOMAIN n = Fields /\ n.op = "rehabilitate" /\ n.pc = "resolved" /\ n.conflict = k
      /\ n.item = i
  BY DEF Idle, Fields
<1>2. /\ Goes(c, n) /\ call[c].pc = "idle" /\ UNCHANGED <<items, heir, stale, strays>>
      /\ items[k].body.type = "conflict" /\ items[i].body.type \in {"pattern", "treatment"}
  BY DEF StartRehabilitate, NoMark
<1>3. \A j, l : ~ WillDegrade(c, l, j)
  BY <1>2 DEF WillDegrade
<1> HIDE DEF n
<1>4. Rehabilitator(n)
  BY <1>1, <1>2 DEF Rehabilitator, IsA
<1>5. Knows(n) /\ Answered(n) /\ ~ (n.op = "merge" /\ n.pc = "commit")
  BY <1>1, <1>4 DEF Knows, Answered
<1> QED  BY <1>2, <1>3, <1>5, ReadingKeeps

LEMMA CheckResolvedKeeps ==
    ASSUME IInv, NEW c \in Calls, CheckResolved(c)
    PROVE  IInv'
<1> DEFINE m == call[c]
           may == /\ m.conflict \in Resolved
                  /\ m.item \in Implicated(items[m.conflict].body)
                  /\ m.conf = "uncertain"
           q == [m EXCEPT !.cleared = Resolved]
           n == Goto(q, IF may THEN "pending" ELSE "done")
<1>1. DOMAIN m = Fields /\ m.op = "rehabilitate" /\ m.pc = "resolved" /\ Rehabilitator(m)
  BY DEF CheckResolved, At, IInv, CallsKnow, Knows
<1>2. /\ DOMAIN q = Fields /\ q.op = "rehabilitate" /\ q.item = m.item
      /\ q.conflict = m.conflict /\ q.cleared = Resolved
  BY <1>1 DEF Fields
<1>3. Goes(c, n) /\ UNCHANGED <<items, heir, stale, strays>>
  BY DEF CheckResolved, NoMark
<1>4. \A i, k : ~ WillDegrade(c, k, i)
  BY <1>1 DEF WillDegrade
<1> HIDE DEF q, m, may
<1>5. /\ DOMAIN n = Fields /\ n.op = "rehabilitate" /\ n.pc \in {"pending", "done"}
      /\ n.pc = "pending" =>
            n.item = m.item /\ n.conflict = m.conflict /\ n.cleared = Resolved
  BY <1>2, GoneTo
<1> HIDE DEF n
<1>6. Rehabilitator(n)
  BY <1>1, <1>5 DEF Rehabilitator
<1>7. Knows(n) /\ Answered(n) /\ ~ (n.op = "merge" /\ n.pc = "commit")
  BY <1>5, <1>6 DEF Knows, Answered
<1> QED  BY <1>3, <1>4, <1>7, ReadingKeeps

LEMMA CheckPendingKeeps ==
    ASSUME IInv, NEW c \in Calls, CheckPending(c)
    PROVE  IInv'
<1> DEFINE m == call[c]
           q == [m EXCEPT !.asOf = Len(items)]
           n == Goto(q, IF Unquestioned(m.item, m.cleared) THEN "evolve" ELSE "done")
<1>1. DOMAIN m = Fields /\ m.op = "rehabilitate" /\ m.pc = "pending" /\ Rehabilitator(m)
  BY DEF CheckPending, At, IInv, CallsKnow, Knows
<1>2. /\ DOMAIN q = Fields /\ q.op = "rehabilitate" /\ q.item = m.item
      /\ q.conflict = m.conflict /\ q.asOf = Len(items)
  BY <1>1 DEF Fields
<1>3. Goes(c, n) /\ UNCHANGED <<items, heir, stale, strays>>
  BY DEF CheckPending, NoMark
<1>4. \A i, k : ~ WillDegrade(c, k, i)
  BY <1>1 DEF WillDegrade
<1> HIDE DEF q, m
<1>5. /\ DOMAIN n = Fields /\ n.op = "rehabilitate"
      /\ n.pc = IF Unquestioned(m.item, m.cleared) THEN "evolve" ELSE "done"
      /\ n.pc = "evolve" =>
            n.item = m.item /\ n.conflict = m.conflict /\ n.asOf = Len(items)
  BY <1>2, GoneTo
<1> HIDE DEF n
<1>6. n.pc = "evolve" => Granted(n.item, n.asOf)
  BY <1>1, <1>5, GrantedNow DEF Rehabilitator, IInv
<1>7. Rehabilitator(n)
  BY <1>1, <1>5, <1>6 DEF Rehabilitator
<1>8. Knows(n) /\ Answered(n) /\ ~ (n.op = "merge" /\ n.pc = "commit")
  BY <1>5, <1>7 DEF Knows, Answered
<1> QED  BY <1>3, <1>4, <1>8, ReadingKeeps

(***************************************************************************)
(* Steps that add an item.                                                 *)
(***************************************************************************)
LEMMA AddedStore ==
    ASSUME StoreOK, NEW b \in Bodies, NEW conf \in Levels, Recorded(b, conf)
    PROVE  /\ items' \in Stores /\ Len(items') = Len(items) + 1 /\ Ids' = 1..Len(items')
           /\ NextId = Len(items) + 1 /\ NextId \notin Ids /\ Ids' = Ids \union {NextId}
           /\ \A i \in Ids : items'[i] = items[i]
           /\ items'[NextId] = Item(b, conf)
           /\ items'[NextId].body = b /\ items'[NextId].conf = conf
           /\ items'[NextId].active = TRUE /\ items'[NextId].late = {}
<1> DEFINE R == [body : Bodies, conf : Levels, active : BOOLEAN, late : SUBSET Nat]
           x == Item(b, conf)
<1>1. /\ x \in R /\ x.body = b /\ x.conf = conf /\ x.active = TRUE /\ x.late = {}
  BY DEF Item
<1>2. items \in Seq(R) /\ items' = Append(items, x)
  BY DEF StoreOK, Stores, Recorded
<1> HIDE DEF R, x
<1>3. /\ items' \in Seq(R) /\ Len(items') = Len(items) + 1 /\ Len(items) \in Nat
      /\ DOMAIN items' = 1..Len(items') /\ DOMAIN items = 1..Len(items)
      /\ \A i \in 1..Len(items) : items'[i] = items[i]
      /\ items'[Len(items) + 1] = x
  BY <1>1, <1>2
<1>4. /\ Len(items) + 1 \notin 1..Len(items)
      /\ 1..(Len(items) + 1) = 1..Len(items) \union {Len(items) + 1}
  BY <1>3
<1> QED  BY <1>1, <1>3, <1>4 DEF Ids, NextId, Stores, R, x

\* What a new item refers to.
Supported(b) ==
    /\ b.type \in {"candidate", "pattern"} => Grounded(b)
    /\ b.type = "pattern" => IsA("candidate", b.from)
    /\ b.type = "conflict" =>
          /\ b.pats \subseteq All("pattern") /\ b.exact \subseteq All("treatment")
          /\ b.obs \subseteq All("observation")
    /\ b.type = "resolution" => IsA("conflict", b.conflict)

\* References that were to earlier items are still.
LEMMA RefersLasts ==
    ASSUME StoreOK, Lasts, NEW i \in Ids
    PROVE  Refers(items', i)
<1> DEFINE b == items[i].body
           d == items'[i].body
<1>1. \A type : Earlier(items, type, i) \subseteq Earlier(items', type, i)
  <2> TAKE type
  <2>1. 1..(i - 1) \subseteq Ids
    BY Numbered
  <2> QED  BY <2>1 DEF Earlier, Lasts
<1>2. Earlier(items, "observation", i) \subseteq All("observation")
  BY Numbered DEF Earlier, All
<1>3. Refers(items, i)
  BY DEF StoreOK
<1>4. b.type \in {"candidate", "pattern"} => Evidenced(items', b)
  BY <1>2, <1>3, EvidenceLasts DEF Refers
<1>5. /\ d.type = b.type /\ (b.type \notin About => d = b)
      /\ b.type \in {"candidate", "pattern"} =>
            d.obs = b.obs /\ d.gl = b.gl /\ d.segs = b.segs
      /\ b.type = "pattern" => d.from = b.from
  BY DEF Lasts
<1>6. b.type \in {"candidate", "pattern"} => Evidenced(items', d)
  BY <1>4, <1>5 DEF Evidenced
<1>7. b.type \in {"conflict", "resolution"} => b.type \notin About
  BY DEF About
<1>8. /\ b.type \in {"candidate", "pattern"} => b.obs \subseteq Earlier(items, "observation", i)
      /\ b.type = "pattern" => b.from \in Earlier(items, "candidate", i)
      /\ b.type = "conflict" =>
            /\ b.pats \subseteq Earlier(items, "pattern", i)
            /\ b.exact \subseteq Earlier(items, "treatment", i)
            /\ b.obs \subseteq Earlier(items, "observation", i)
      /\ b.type = "resolution" => b.conflict \in Earlier(items, "conflict", i)
  BY <1>3 DEF Refers
<1> HIDE DEF b
<1>9. /\ d.type \in {"candidate", "pattern"} =>
            d.obs \subseteq Earlier(items', "observation", i) /\ Evidenced(items', d)
      /\ d.type = "pattern" => d.from \in Earlier(items', "candidate", i)
      /\ d.type = "conflict" =>
            /\ d.pats \subseteq Earlier(items', "pattern", i)
            /\ d.exact \subseteq Earlier(items', "treatment", i)
            /\ d.obs \subseteq Earlier(items', "observation", i)
      /\ d.type = "resolution" => d.conflict \in Earlier(items', "conflict", i)
  BY <1>1, <1>5, <1>6, <1>7, <1>8
<1> QED  BY <1>9 DEF Refers

LEMMA AddingTypes ==
    ASSUME StoreOK, NEW b \in Bodies, NEW conf \in Levels, Recorded(b, conf), UNCHANGED heir,
           stale' \subseteq Entities, strays' \subseteq strays \union {NextId}, Supported(b), Lasts
    PROVE  StoreOK'
<1>1. /\ Ids' = Ids \union {NextId} /\ NextId = Len(items) + 1 /\ items' \in Stores
      /\ \A i \in Ids : items'[i] = items[i]
      /\ items'[NextId].body = b /\ items'[NextId].late = {}
  BY AddedStore
<1>2. ASSUME NEW i \in Ids PROVE items'[i].late \subseteq Ids' /\ Refers(items', i)
  BY <1>1, RefersLasts DEF StoreOK
<1>3. Refers(items', NextId)
  <2>1. \A type : All(type) \subseteq Earlier(items', type, NextId)
    BY <1>1, Numbered DEF All, Earlier
  <2>2. \A type, i : IsA(type, i) => i \in Earlier(items', type, NextId)
    BY <2>1 DEF IsA, All
  <2>3. b.type \in {"candidate", "pattern"} => Evidenced(items', b)
    BY EvidenceLasts DEF Supported, Grounded
  <2> QED  BY <1>1, <2>1, <2>2, <2>3 DEF Refers, Supported, Grounded
<1> QED  BY <1>1, <1>2, <1>3 DEF StoreOK

LEMMA AddingKeeps ==
    ASSUME IInv, NEW c \in Calls, NEW b \in Bodies, NEW conf \in Levels,
           Recorded(b, conf), Others(c), UNCHANGED heir,
           stale \subseteq stale', stale' \subseteq Entities,
           strays \subseteq strays', strays' \subseteq strays \union {NextId},
           b.type \in About /\ BeingMerged(b.entity) => NextId \in strays',
           Supported(b), OneVoice', Knows(call[c])', Answers(c)',
           ~ At(c, "merge", "commit")', \A i, k : ~ WillDegrade(c, k, i),
           NEW next, next = NextId,
           b.type = "conflict" => \A i \in Implicated(b) : WillDegrade(c, next, i)'
    PROVE  IInv'
<1>2. /\ Ids' = Ids \union {NextId} /\ NextId = Len(items) + 1 /\ Ids' = 1..Len(items')
      /\ Len(items') = Len(items) + 1 /\ NextId \notin Ids
      /\ \A i \in Ids : items'[i] = items[i]
      /\ items'[NextId].body = b /\ items'[NextId].conf = conf
      /\ items'[NextId].active = TRUE /\ items'[NextId].late = {}
  BY AddedStore DEF IInv
<1>3. Len(items) \in Nat
  BY Numbered DEF IInv
<1>4. Gentle
  BY <1>2, <1>3 DEF Gentle
<1>5. Lasts
  BY <1>4, GentleLasts DEF IInv
<1>6. StoreOK'
  BY <1>5, AddingTypes DEF IInv
<1>7. Trusts(c)
  <2>1. ASSUME NEW i \in Ids, items'[i].conf = "certain"
        PROVE  items[i].conf = "certain" /\ items'[i].late = items[i].late
    BY <1>2, <2>1
  <2>2. ASSUME NEW k \in Active("conflict")' PROVE NextId \notin Implicated(items'[k].body)
    <3>1. k \in Ids' /\ items'[k].body.type = "conflict" /\ Refers(items', k)
      BY <1>6 DEF Active, ActiveIn, IsActive, Ids, StoreOK
    <3>2. \A type : NextId \notin Earlier(items', type, k)
      BY <3>1, <1>2, <1>3 DEF Earlier
    <3> QED  BY <3>1, <3>2 DEF Refers, Implicated
  <2>3. \A i \in Ids' \ Ids : Pending(i)' = {}
    BY <1>2, <2>2 DEF Pending, Questioning, QuestioningIn, Active
  <2>4. ASSUME NEW k \in Active("conflict")' \ Ids, NEW i \in Implicated(items'[k].body)
        PROVE  WillDegrade(c, k, i)'
    <3>1. k = next /\ items'[k].body.type = "conflict"
      BY <1>2 DEF Active, ActiveIn, IsActive, Ids
    <3> QED  BY <3>1, <2>4, <1>2
  <2> QED  BY <2>1, <2>3, <2>4 DEF Trusts
<1>8. Sound(c)
  BY <1>2, <1>6, <1>7 DEF Sound, Supported
<1> QED  BY <1>4, <1>8, GentleKeeps

\* What it is to agree, without counting.
LEMMA AgreeIs ==
    ASSUME NEW store \in Stores, NEW e
    PROVE  Agree(store, e) <=>
               /\ \A i, j \in OwnedIn(store, "treatment", e) : i = j
               /\ \A i, j \in OwnedIn(store, "pattern", e) : store[i].body.gl = store[j].body.gl
<1> DEFINE T == OwnedIn(store, "treatment", e)
           P == OwnedIn(store, "pattern", e)
           A == AccountsOf(store, P)
<1>1. IsFiniteSet(DOMAIN store)
  <2>1. Len(store) \in Nat /\ DOMAIN store = 1..Len(store)
    BY StoreType
  <2> QED  BY <2>1, FS_Interval, 1 \in Int, Len(store) \in Int
<1>2. IsFiniteSet(T) /\ IsFiniteSet(P)
  BY <1>1, FS_Subset DEF OwnedIn, ActiveIn
<1>3. IsFiniteSet(A)
  <2> DEFINE f == [p \in P |-> store[p].body.gl]
  <2>1. f \in Surjection(P, A)
    BY DEF Surjection, AccountsOf
  <2> QED  BY <1>2, <2>1, FS_Surjection
<1>4. (\A x, y \in A : x = y) <=> \A i, j \in P : store[i].body.gl = store[j].body.gl
  BY DEF AccountsOf
<1>5. /\ Cardinality(T) < 2 <=> \A x, y \in T : x = y
      /\ Cardinality(A) < 2 <=> \A x, y \in A : x = y
  <2> HIDE DEF T, A
  <2> QED  BY <1>2, <1>3, FewerThanTwo
<1> QED  BY <1>4, <1>5 DEF Agree

LEMMA AddingAgrees ==
    ASSUME StoreOK, OneVoice, NEW b \in Bodies, NEW conf \in Levels, Recorded(b, conf),
           stale \subseteq stale',
           b.type = "treatment" /\ b.entity \notin stale' => Owned("treatment", b.entity) = {},
           b.type = "pattern" /\ b.entity \notin stale' =>
               \A p \in Owned("pattern", b.entity) : Gl(p) = b.gl
    PROVE  OneVoice'
<1> SUFFICES ASSUME NEW e \in Entities \ stale' PROVE Agree(items', e)
  BY DEF OneVoice
<1>1. /\ items' \in Stores /\ Ids' = Ids \union {NextId} /\ NextId \notin Ids
      /\ \A i \in Ids : items'[i] = items[i]
      /\ items'[NextId].body = b
  BY AddedStore
<1>2. /\ \A i, j \in OwnedIn(items, "treatment", e) : i = j
      /\ \A i, j \in OwnedIn(items, "pattern", e) : items[i].body.gl = items[j].body.gl
  BY AgreeIs DEF StoreOK, OneVoice
<1>3. ASSUME NEW type, NEW i \in OwnedIn(items', type, e)
      PROVE  \/ i \in OwnedIn(items, type, e) /\ items'[i] = items[i]
             \/ i = NextId /\ b.type = type /\ b.entity = e
  BY <1>1 DEF OwnedIn, ActiveIn, IsActive, Ids
<1>4. \A i, j \in OwnedIn(items', "treatment", e) : i = j
  <2>1. b.type = "treatment" /\ b.entity = e => OwnedIn(items, "treatment", e) = {}
    BY DEF Owned
  <2> QED  BY <1>2, <1>3, <2>1
<1>5. \A i, j \in OwnedIn(items', "pattern", e) : items'[i].body.gl = items'[j].body.gl
  <2>1. b.type = "pattern" /\ b.entity = e =>
            \A p \in OwnedIn(items, "pattern", e) : items[p].body.gl = b.gl
    BY DEF Owned, Gl
  <2> QED  BY <1>1, <1>2, <1>3, <2>1
<1> QED  BY <1>1, <1>4, <1>5, AgreeIs

LEMMA CreateTreatmentKeeps ==
    ASSUME IInv, NEW c \in Calls, CreateTreatment(c)
    PROVE  IInv'
<1> DEFINE m == call[c]
           b == Treatment(m.entity, m.gl)
           n == [m EXCEPT !.pc = "gate", !.item = NextId]
<1>1. DOMAIN m = Fields /\ m.op = "learn" /\ m.pc = "create" /\ Asked(m)
  BY DEF CreateTreatment, At, IInv, CallsKnow, Knows, Correcting
<1>2. /\ Recorded(b, "tentative") /\ Goes(c, n) /\ UNCHANGED heir
      /\ MarkStale("treatment", m.entity, m.saw) /\ MarkStray(NextId, m.entity)
  BY DEF CreateTreatment
<1>3. \A i, k : ~ WillDegrade(c, k, i)
  BY <1>1 DEF WillDegrade
<1> HIDE DEF m
<1>4. b \in Bodies /\ b.type = "treatment" /\ b.entity = m.entity
  BY <1>1 DEF Asked, Bodies, Treatments, Treatment
<1>5. /\ DOMAIN n = Fields /\ n.op = "learn" /\ n.pc = "gate" /\ n.tx = m.tx /\ n.gl = m.gl
      /\ n.entity = m.entity /\ n.item = NextId
  BY <1>1 DEF Fields
<1> HIDE DEF b, n
<1>0. call'[c] = n /\ Others(c)
  BY <1>2, Going DEF IInv
<1>6. "tentative" \in Levels
  BY DEF Levels
<1>7. Supported(b)
  BY <1>4 DEF Supported
<1>8. /\ stale \subseteq stale' /\ stale' \subseteq Entities
      /\ m.entity \notin stale' => Owned("treatment", m.entity) = {}
  BY <1>1, <1>2 DEF MarkStale, Asked, IInv, StoreOK
<1>9. /\ strays \subseteq strays' /\ strays' \subseteq strays \union {NextId}
      /\ BeingMerged(m.entity) => NextId \in strays'
  BY <1>2 DEF MarkStray
<1>10. OneVoice'
  BY <1>2, <1>4, <1>6, <1>8, AddingAgrees DEF IInv
<1>11. IsA("treatment", call[c].item)'
  BY <1>2, <1>4, <1>5, <1>6, <1>0, AddedStore DEF IsA, IInv
<1>12. Asked(call[c])'
  BY <1>1, <1>2, <1>5, <1>0, <1>11 DEF Asked
<1>13. Knows(call[c])' /\ Answers(c)' /\ ~ At(c, "merge", "commit")'
  BY <1>5, <1>0, <1>12 DEF Knows, Answers, Answered, At, Correcting, Observing
<1> QED
  BY <1>2, <1>3, <1>4, <1>6, <1>7, <1>8, <1>9, <1>10, <1>13, <1>0, AddingKeeps DEF About

LEMMA ObserveKeeps ==
    ASSUME IInv, NEW c \in Calls, Observe(c)
    PROVE  IInv'
<1> DEFINE m == call[c]
           o == Observation(m.entity, m.tx, m.gl)
           same == {i \in Active("observation") : items[i].body = o}
           seen == [m EXCEPT !.pc = "patterns", !.asOf = 0, !.saw = {}, !.tx = "none",
                             !.gl = "none"]
           n(i) == [seen EXCEPT !.item = i]
<1>1. DOMAIN m = Fields /\ m.op = "learn" /\ m.pc = "observe" /\ Asked(m)
  BY DEF Observe, At, IInv, CallsKnow, Knows, Correcting
<1>2. /\ UNCHANGED <<heir, stale>>
      /\ \/ same # {} /\ Goes(c, n(Min(same))) /\ UNCHANGED <<items, strays>>
         \/ Recorded(o, "tentative") /\ Goes(c, n(NextId)) /\ MarkStray(NextId, m.entity)
  BY DEF Observe
<1>3. \A i, k : ~ WillDegrade(c, k, i)
  BY <1>1 DEF WillDegrade
<1>4. /\ o \in Observations /\ o.type = "observation" /\ o.entity = m.entity /\ o.tx = m.tx
  BY <1>1 DEF Asked, Observation, Observations
<1>5. \A i : /\ DOMAIN n(i) = Fields /\ n(i).op = "learn" /\ n(i).pc = "patterns"
             /\ n(i).entity = m.entity /\ n(i).item = i
  BY <1>1 DEF Fields
<1> HIDE DEF n, seen, m, o
<1>6. ASSUME same # {}, Goes(c, n(Min(same))), UNCHANGED <<items, strays>>
      PROVE  IInv'
  <2>1. Min(same) \in same
    <3>1. same \in SUBSET Ids
      BY Numbered DEF IInv
    <3> HIDE DEF same
    <3> QED  BY <1>6, <3>1, OneItem DEF IInv
  <2>2. /\ IsA("observation", Min(same)) /\ items[Min(same)].active
        /\ items[Min(same)].body.entity = m.entity
    BY <2>1, <1>4 DEF Active, ActiveIn, IsActive, IsA, Ids
  <2> HIDE DEF same
  <2>3. Observant(n(Min(same)))
    BY <1>1, <1>5, <2>2 DEF Observant, Asked
  <2>4. /\ Knows(n(Min(same))) /\ Answered(n(Min(same)))
        /\ ~ (n(Min(same)).op = "merge" /\ n(Min(same)).pc = "commit")
    BY <1>5, <2>3 DEF Knows, Answered, Correcting, Observing
  <2> QED  BY <1>2, <1>3, <1>6, <2>4, ReadingKeeps
<1>7. ASSUME Recorded(o, "tentative"), Goes(c, n(NextId)), MarkStray(NextId, m.entity)
      PROVE  IInv'
  <2>1. o \in Bodies /\ "tentative" \in Levels
    BY <1>4 DEF Bodies, Levels
  <2>2. call'[c] = n(NextId) /\ Others(c)
    BY <1>7, Going DEF IInv
  <2>3. Supported(o)
    BY <1>1, <1>4 DEF Supported, Asked
  <2>4. /\ strays \subseteq strays' /\ strays' \subseteq strays \union {NextId}
        /\ BeingMerged(m.entity) => NextId \in strays'
    BY <1>7 DEF MarkStray
  <2>5. OneVoice'
    BY <1>2, <1>4, <1>7, <2>1, AddingAgrees DEF IInv
  <2>6. /\ NextId \in Ids' /\ items'[NextId].body = o /\ items'[NextId].active
    BY <1>7, <2>1, AddedStore DEF IInv
  <2>7. Observant(call[c])'
    BY <1>1, <1>4, <1>5, <2>2, <2>6 DEF Observant, Asked, IsA
  <2>8. Knows(call[c])' /\ Answers(c)' /\ ~ At(c, "merge", "commit")'
    BY <1>5, <2>2, <2>7 DEF Knows, Answers, Answered, At, Correcting, Observing
  <2>9. stale' = stale /\ stale \subseteq Entities
    BY <1>2 DEF IInv, StoreOK
  <2> QED
    BY <1>2, <1>3, <1>4, <1>7, <2>1, <2>2, <2>3, <2>4, <2>5, <2>8, <2>9, AddingKeeps
<1> QED  BY <1>2, <1>6, <1>7

LEMMA RecordCandidateKeeps ==
    ASSUME IInv, NEW c \in Calls, RecordCandidate(c)
    PROVE  IInv'
<1> DEFINE m == call[c]
           n == [m EXCEPT !.pc = "groups", !.body = None]
<1>1. /\ DOMAIN m = Fields /\ m.op = "discover" /\ m.pc = "record" /\ Founded(m.body)
      /\ m.groups \subseteq Entities \X Accounts
  BY DEF RecordCandidate, At, IInv, CallsKnow, Knows
<1>2. /\ UNCHANGED <<heir, stale>> /\ Goes(c, n)
      /\ \/ UNCHANGED <<items, strays>>
         \/ Recorded(m.body, "tentative") /\ MarkStray(NextId, m.body.entity)
  BY DEF RecordCandidate
<1>3. \A i, k : ~ WillDegrade(c, k, i)
  BY <1>1 DEF WillDegrade
<1>4. /\ DOMAIN n = Fields /\ n.op = "discover" /\ n.pc = "groups" /\ n.groups = m.groups
  BY <1>1 DEF Fields
<1> HIDE DEF n, m
<1>5. CASE UNCHANGED <<items, strays>>
  <2>1. Knows(n) /\ Answered(n) /\ ~ (n.op = "merge" /\ n.pc = "commit")
    BY <1>1, <1>4 DEF Knows, Answered
  <2> QED  BY <1>2, <1>3, <1>5, <2>1, ReadingKeeps
<1>6. CASE Recorded(m.body, "tentative") /\ MarkStray(NextId, m.body.entity)
  <2>1. /\ m.body \in Bodies /\ "tentative" \in Levels /\ m.body.type = "candidate"
        /\ Grounded(m.body)
    BY <1>1 DEF Bodies, Levels, Founded, Candidates
  <2>2. call'[c] = n /\ Others(c)
    BY <1>2, Going DEF IInv
  <2>3. Supported(m.body)
    BY <2>1 DEF Supported
  <2>4. /\ strays \subseteq strays' /\ strays' \subseteq strays \union {NextId}
        /\ BeingMerged(m.body.entity) => NextId \in strays'
    BY <1>6 DEF MarkStray
  <2>5. OneVoice'
    BY <1>2, <1>6, <2>1, AddingAgrees DEF IInv
  <2>6. Knows(call[c])' /\ Answers(c)' /\ ~ At(c, "merge", "commit")'
    BY <1>1, <1>4, <2>2 DEF Knows, Answers, Answered, At
  <2>7. stale' = stale /\ stale \subseteq Entities
    BY <1>2 DEF IInv, StoreOK
  <2> QED
    BY <1>2, <1>3, <1>6, <2>1, <2>2, <2>3, <2>4, <2>5, <2>6, <2>7, AddingKeeps
<1> QED  BY <1>2, <1>5, <1>6

LEMMA RecordPatternKeeps ==
    ASSUME IInv, NEW c \in Calls, RecordPattern(c)
    PROVE  IInv'
<1> DEFINE m == call[c]
           b == Pattern(m.body, m.item)
           n == Goto(m, "done")
<1>1. DOMAIN m = Fields /\ m.op = "authorise" /\ m.pc = "record" /\ Authoriser(m)
  BY DEF RecordPattern, At, IInv, CallsKnow, Knows
<1>2. /\ Recorded(b, "certain") /\ Goes(c, n) /\ UNCHANGED heir
      /\ MarkStale("pattern", m.entity, m.saw) /\ MarkStray(NextId, m.entity)
  BY DEF RecordPattern, Ends, To
<1>3. \A i, k : ~ WillDegrade(c, k, i)
  BY <1>1 DEF WillDegrade
<1>4. DOMAIN n = Fields /\ n.op = "authorise" /\ n.pc = "done"
  BY <1>1, GoneTo
<1> HIDE DEF n, m
<1>5. /\ m.body \in Candidates /\ Grounded(m.body) /\ m.entity = m.body.entity
      /\ IsA("candidate", m.item) /\ \A p \in m.saw : Gl(p) = m.body.gl
      /\ m.item \in Nat
  BY <1>1, Numbered DEF Authoriser, Founded, IsA, IInv
<1>6. /\ b \in Patterns /\ b.type = "pattern" /\ b.entity = m.entity /\ b.gl = m.body.gl
      /\ b.obs = m.body.obs /\ b.segs = m.body.segs /\ b.from = m.item
  BY <1>5 DEF Candidates, Patterns, Pattern
<1> HIDE DEF b
<1>7. b \in Bodies /\ "certain" \in Levels
  BY <1>6 DEF Bodies, Levels
<1>8. Supported(b)
  BY <1>5, <1>6 DEF Supported, Grounded, Evidenced
<1>9. /\ stale \subseteq stale' /\ stale' \subseteq Entities
      /\ m.entity \notin stale' => Owned("pattern", m.entity) = m.saw
  BY <1>2, <1>5 DEF MarkStale, IInv, StoreOK, Candidates
<1>10. /\ strays \subseteq strays' /\ strays' \subseteq strays \union {NextId}
       /\ BeingMerged(m.entity) => NextId \in strays'
  BY <1>2 DEF MarkStray
<1>11. OneVoice'
  BY <1>2, <1>5, <1>6, <1>7, <1>9, AddingAgrees DEF IInv
<1>12. call'[c] = n /\ Others(c)
  BY <1>2, Going DEF IInv
<1>13. Knows(call[c])' /\ Answers(c)' /\ ~ At(c, "merge", "commit")'
  BY <1>4, <1>12 DEF Knows, Authoriser, Answers, Answered, At
<1> QED
  BY <1>2, <1>3, <1>6, <1>7, <1>8, <1>9, <1>10, <1>11, <1>12, <1>13, AddingKeeps

\* What is about no entity bears no mark and changes no treatment and no pattern.
LEMMA EventKeeps ==
    ASSUME IInv, NEW c \in Calls, NEW b \in Bodies, NEW conf \in Levels,
           Recorded(b, conf), Others(c), UNCHANGED <<heir, stale, strays>>,
           b.type \notin About, Supported(b), Knows(call[c])', Answers(c)',
           ~ At(c, "merge", "commit")', \A i, k : ~ WillDegrade(c, k, i),
           NEW next, next = NextId,
           b.type = "conflict" => \A i \in Implicated(b) : WillDegrade(c, next, i)'
    PROVE  IInv'
<1>1. OneVoice'
  BY AddingAgrees DEF IInv, About
<1>2. stale \subseteq Entities
  BY DEF IInv, StoreOK
<1> QED  BY <1>1, <1>2, AddingKeeps

LEMMA PersistConflictKeeps ==
    ASSUME IInv, NEW c \in Calls, PersistConflict(c)
    PROVE  IInv'
<1> DEFINE m == call[c]
           b == m.body
           n == [m EXCEPT !.pc = "settle", !.conflict = NextId, !.body = None]
<1>1. DOMAIN m = Fields /\ m.op = "learn" /\ m.pc = "persist" /\ Observant(m)
  BY DEF PersistConflict, At, IInv, CallsKnow, Knows, Correcting, Observing
<1>2. Recorded(b, "tentative") /\ Goes(c, n) /\ UNCHANGED <<heir, stale, strays>>
  BY DEF PersistConflict, NoMark
<1>3. \A i, k : ~ WillDegrade(c, k, i)
  BY <1>1 DEF WillDegrade
<1>4. /\ DOMAIN n = Fields /\ n.op = "learn" /\ n.pc = "settle" /\ n.entity = m.entity
      /\ n.item = m.item /\ n.pats = m.pats /\ n.conflict = NextId
  BY <1>1 DEF Fields
<1>5. Drawn(m)
  BY <1>1 DEF Observant
<1> HIDE DEF n, m
<1>6. b \in Bodies /\ "tentative" \in Levels /\ b.type = "conflict" /\ b.type \notin About
  BY <1>5 DEF Drawn, Bodies, Levels, Conflicts, About
<1>7. Supported(b)
  <2>1. b.pats \subseteq All("pattern")
    BY <1>1, <1>5 DEF Observant, Drawn
  <2> QED  BY <1>5, <1>6, <2>1 DEF Supported, Drawn
<1>8. call'[c] = n /\ Others(c)
  BY <1>2, Going DEF IInv
<1>9. /\ NextId \in Ids' /\ items'[NextId].body = b /\ items'[NextId].active
      /\ items' \in Stores /\ \A i \in Ids : i \in Ids' /\ items'[i] = items[i]
  BY <1>2, <1>6, AddedStore DEF IInv
<1>10. Observant(call[c])'
  <2>1. /\ m.item \in Ids' /\ items'[m.item] = items[m.item]
        /\ items[m.item].body.type = "observation"
    BY <1>1, <1>9 DEF Observant, IsA
  <2>2. \A p \in m.pats : p \in Ids' /\ items'[p].body.type = "pattern"
    BY <1>1, <1>9 DEF Observant, All
  <2>3. Opposed(call[c])'
    BY <1>4, <1>5, <1>6, <1>8, <1>9 DEF Opposed, Drawn, IsA
  <2> QED  BY <1>1, <1>2, <1>4, <1>8, <2>1, <2>2, <2>3 DEF Observant, IsA, All
<1>11. Knows(call[c])' /\ Answers(c)' /\ ~ At(c, "merge", "commit")'
  BY <1>4, <1>8, <1>10 DEF Knows, Answers, Answered, At, Correcting, Observing
<1>12. PICK next : next = NextId
  OBVIOUS
<1>13. \A i : WillDegrade(c, next, i)'
  BY <1>4, <1>8, <1>12 DEF WillDegrade
<1> HIDE DEF b
<1> QED  BY <1>2, <1>3, <1>6, <1>7, <1>8, <1>11, <1>12, <1>13, EventKeeps

LEMMA RecordResolutionKeeps ==
    ASSUME IInv, NEW c \in Calls, RecordResolution(c)
    PROVE  IInv'
<1> DEFINE m == call[c]
           b == Resolution(m.conflict)
           n == Goto(m, "done")
<1>1. DOMAIN m = Fields /\ m.op = "resolve" /\ m.pc = "record" /\ IsA("conflict", m.conflict)
  BY DEF RecordResolution, At, IInv, CallsKnow, Knows
<1>2. Recorded(b, "certain") /\ Goes(c, n) /\ UNCHANGED <<heir, stale, strays>>
  BY DEF RecordResolution, Ends, To, NoMark
<1>3. \A i, k : ~ WillDegrade(c, k, i)
  BY <1>1 DEF WillDegrade
<1>4. DOMAIN n = Fields /\ n.op = "resolve" /\ n.pc = "done"
  BY <1>1, GoneTo
<1> HIDE DEF n, m
<1>5. m.conflict \in Nat
  BY <1>1, Numbered DEF IsA, IInv
<1>6. /\ b \in Bodies /\ "certain" \in Levels /\ b.type = "resolution" /\ b.type \notin About
      /\ b.conflict = m.conflict
  BY <1>5 DEF Resolution, Resolutions, Bodies, Levels, About
<1> HIDE DEF b
<1>7. Supported(b)
  BY <1>1, <1>6 DEF Supported
<1>8. call'[c] = n /\ Others(c)
  BY <1>2, Going DEF IInv
<1>9. Knows(call[c])' /\ Answers(c)' /\ ~ At(c, "merge", "commit")'
  BY <1>4, <1>8 DEF Knows, Answers, Answered, At
<1> QED  BY <1>2, <1>3, <1>6, <1>7, <1>8, <1>9, EventKeeps

LEMMA RecordRehabilitationKeeps ==
    ASSUME IInv, NEW c \in Calls, RecordRehabilitation(c)
    PROVE  IInv'
<1> DEFINE m == call[c]
           b == Rehabilitation(m.item, m.conflict)
           n == Goto(m, "done")
<1>1. DOMAIN m = Fields /\ m.op = "rehabilitate" /\ m.pc = "event" /\ Rehabilitator(m)
  BY DEF RecordRehabilitation, At, IInv, CallsKnow, Knows
<1>2. Recorded(b, "certain") /\ Goes(c, n) /\ UNCHANGED <<heir, stale, strays>>
  BY DEF RecordRehabilitation, Ends, To, NoMark
<1>3. \A i, k : ~ WillDegrade(c, k, i)
  BY <1>1 DEF WillDegrade
<1>4. DOMAIN n = Fields /\ n.op = "rehabilitate" /\ n.pc = "done"
  BY <1>1, GoneTo
<1> HIDE DEF n, m
<1>5. m.conflict \in Nat /\ m.item \in Nat
  BY <1>1, Numbered DEF Rehabilitator, IsA, IInv
<1>6. /\ b \in Bodies /\ "certain" \in Levels /\ b.type = "rehabilitation"
      /\ b.type \notin About
  BY <1>5 DEF Rehabilitation, Rehabilitations, Bodies, Levels, About
<1> HIDE DEF b
<1>7. Supported(b)
  BY <1>6 DEF Supported
<1>8. call'[c] = n /\ Others(c)
  BY <1>2, Going DEF IInv
<1>9. Knows(call[c])' /\ Answers(c)' /\ ~ At(c, "merge", "commit")'
  BY <1>4, <1>8 DEF Knows, Rehabilitator, Answers, Answered, At
<1> QED  BY <1>2, <1>3, <1>6, <1>7, <1>8, <1>9, EventKeeps

(***************************************************************************)
(* Steps that write an item.                                               *)
(***************************************************************************)
LEMMA WrittenStore ==
    ASSUME StoreOK, NEW i \in Ids,
           NEW x \in [body : Bodies, conf : Levels, active : BOOLEAN, late : SUBSET Nat],
           items' = [items EXCEPT ![i] = x]
    PROVE  /\ items' \in Stores /\ Len(items') = Len(items) /\ Ids' = Ids
           /\ Ids' = 1..Len(items') /\ Len(items') \in Nat
           /\ \A j \in Ids \ {i} : items'[j] = items[j]
           /\ items'[i] = x
<1> DEFINE R == [body : Bodies, conf : Levels, active : BOOLEAN, late : SUBSET Nat]
<1>1. x \in R
  OBVIOUS
<1>2. items \in Seq(R)
  BY DEF StoreOK, Stores
<1> HIDE DEF R
<1>3. /\ items' \in Seq(R) /\ Len(items') = Len(items) /\ Len(items) \in Nat
      /\ DOMAIN items' = DOMAIN items /\ DOMAIN items = 1..Len(items)
      /\ \A j \in DOMAIN items \ {i} : items'[j] = items[j]
      /\ items'[i] = x
  BY <1>1, <1>2 DEF Ids
<1> QED  BY <1>3 DEF Ids, Stores, R

\* An item is written: its type, and whether it is active, stay.
Writes(i, x) ==
    /\ i \in Ids /\ items' = [items EXCEPT ![i] = x]
    /\ x \in [body : Bodies, conf : Levels, active : BOOLEAN, late : SUBSET Nat]
    /\ x.late \subseteq Ids /\ x.active = items[i].active
    /\ x.body.type = items[i].body.type
    /\ items[i].body.type # "treatment" => x.body = items[i].body

LEMMA Written ==
    ASSUME StoreOK, NEW i, NEW x, Writes(i, x)
    PROVE  /\ items' \in Stores /\ Len(items') = Len(items) /\ Ids' = Ids
           /\ Ids' = 1..Len(items') /\ Len(items') \in Nat
           /\ i \in Ids /\ items'[i] = x
           /\ \A j \in Ids \ {i} : items'[j] = items[j]
<1>1. /\ i \in Ids /\ items' = [items EXCEPT ![i] = x]
      /\ x \in [body : Bodies, conf : Levels, active : BOOLEAN, late : SUBSET Nat]
  BY DEF Writes
<1> QED  BY <1>1, WrittenStore

LEMMA WritingTypes ==
    ASSUME StoreOK, NEW i, NEW x, Writes(i, x), Lasts, UNCHANGED heir,
           stale' \subseteq Entities, strays' \subseteq Ids
    PROVE  StoreOK'
<1>1. /\ items' \in Stores /\ Ids' = Ids
      /\ \A j \in Ids \ {i} : items'[j] = items[j]
      /\ items'[i] = x
  BY Written DEF Writes
<1>2. ASSUME NEW j \in Ids PROVE items'[j].late \subseteq Ids' /\ Refers(items', j)
  BY <1>1, RefersLasts DEF Writes, StoreOK
<1> QED  BY <1>1, <1>2 DEF StoreOK

LEMMA WritingKeeps ==
    ASSUME IInv, NEW c \in Calls, NEW i, NEW x, Writes(i, x), Others(c), UNCHANGED heir,
           stale \subseteq stale', stale' \subseteq Entities,
           strays \subseteq strays', strays' \subseteq Ids,
           x.body.type \in About /\ x.body.entity # items[i].body.entity =>
               (BeingMerged(x.body.entity) => i \in strays'),
           OneVoice', Knows(call[c])', Answers(c)', ~ At(c, "merge", "commit")',
           x.conf = "certain" =>
               \/ items[i].conf = "certain" /\ x.late = items[i].late
               \/ Pending(i)' \subseteq x.late,
           \A j \in Ids, k \in Active("conflict") :
               WillDegrade(c, k, j) => WillDegrade(c, k, j)' \/ items'[j].conf # "certain"
    PROVE  IInv'
<1>1. /\ items' \in Stores /\ Ids' = Ids /\ Len(items') = Len(items) /\ Ids' = 1..Len(items')
      /\ Len(items') \in Nat
      /\ \A j \in Ids \ {i} : items'[j] = items[j]
      /\ items'[i] = x
  BY Written DEF IInv
<1>2. Gentle
  <2>1. \A j \in Ids :
          /\ items'[j].body.type = items[j].body.type
          /\ items'[j].active = items[j].active
          /\ items[j].body.type # "treatment" => items'[j].body = items[j].body
    BY <1>1 DEF Writes
  <2>2. ASSUME NEW j \in Ids', items'[j].body.type \in About
        PROVE  \/ j \in Ids /\ items[j].body.entity = items'[j].body.entity
               \/ BeingMerged(items'[j].body.entity) => j \in strays'
    <3>1. CASE j # i
      BY <1>1, <3>1
    <3>2. CASE j = i
      <4>1. items'[j] = x /\ j \in Ids
        BY <1>1, <3>2
      <4> QED  BY <2>2, <4>1, <3>2
    <3> QED  BY <3>1, <3>2
  <2> QED  BY <1>1, <2>1, <2>2 DEF Gentle
<1>3. Lasts
  BY <1>2, GentleLasts DEF IInv
<1>4. StoreOK'
  BY <1>3, WritingTypes DEF IInv
<1>5. Trusts(c)
  <2>1. \A j \in Ids : items'[j].conf = "certain" =>
          \/ items[j].conf = "certain" /\ items'[j].late = items[j].late
          \/ Pending(j)' \subseteq items'[j].late
    BY <1>1
  <2>2. Active("conflict")' \subseteq Ids
    BY <1>1 DEF Active, ActiveIn, Ids
  <2> QED  BY <1>1, <2>1, <2>2 DEF Trusts
<1>6. Sound(c)
  BY <1>1, <1>4, <1>5 DEF Sound
<1> QED  BY <1>2, <1>6, GentleKeeps

\* A grade changes no voice.
LEMMA GradingAgrees ==
    ASSUME StoreOK, OneVoice, NEW i, NEW x, Writes(i, x), x.body = items[i].body, stale' = stale
    PROVE  OneVoice'
<1>1. /\ items' \in Stores /\ Ids' = Ids
      /\ \A j \in Ids : items'[j].body = items[j].body /\ items'[j].active = items[j].active
  <2>1. x.active = items[i].active
    BY DEF Writes
  <2> QED  BY <2>1, Written
<1>2. \A type, e : OwnedIn(items', type, e) = OwnedIn(items, type, e)
  BY <1>1 DEF OwnedIn, ActiveIn, IsActive, Ids
<1>3. \A e, j : j \in OwnedIn(items, "pattern", e) => items'[j].body = items[j].body
  BY <1>1 DEF OwnedIn, ActiveIn, IsActive, Ids
<1> SUFFICES ASSUME NEW e \in Entities \ stale PROVE Agree(items', e)
  BY DEF OneVoice
<1>4. Agree(items, e)
  BY DEF OneVoice
<1> QED  BY <1>1, <1>2, <1>3, <1>4, AgreeIs DEF StoreOK

\* An entity that had one treatment still has.
LEMMA UpdatingAgrees ==
    ASSUME StoreOK, OneVoice, NEW i, NEW x, Writes(i, x), items[i].body.type = "treatment",
           stale \subseteq stale',
           x.body.entity \notin stale' => Owned("treatment", x.body.entity) = {i}
    PROVE  OneVoice'
<1> SUFFICES ASSUME NEW e \in Entities \ stale' PROVE Agree(items', e)
  BY DEF OneVoice
<1>1. /\ items' \in Stores /\ Ids' = Ids /\ items'[i] = x
      /\ \A j \in Ids \ {i} : items'[j] = items[j]
  BY Written DEF Writes
<1>2. /\ \A j, k \in OwnedIn(items, "treatment", e) : j = k
      /\ \A j, k \in OwnedIn(items, "pattern", e) : items[j].body.gl = items[k].body.gl
  BY AgreeIs DEF StoreOK, OneVoice
<1>3. x.body.type = "treatment"
  BY DEF Writes
<1>4. ASSUME NEW j \in OwnedIn(items', "treatment", e)
      PROVE  j \in OwnedIn(items, "treatment", e)
  <2>1. CASE j # i
    BY <1>1, <2>1 DEF OwnedIn, ActiveIn, IsActive, Ids
  <2>2. CASE j = i
    <3>1. x.body.entity = e
      BY <1>1, <2>2 DEF OwnedIn
    <3> QED  BY <2>2, <3>1 DEF Owned
  <2> QED  BY <2>1, <2>2
<1>5. ASSUME NEW j \in OwnedIn(items', "pattern", e)
      PROVE  j \in OwnedIn(items, "pattern", e) /\ items'[j] = items[j]
  <2>1. j # i
    BY <1>1, <1>3 DEF OwnedIn, ActiveIn, IsActive
  <2> QED  BY <1>1, <2>1 DEF OwnedIn, ActiveIn, IsActive, Ids
<1>6. \A j, k \in OwnedIn(items', "treatment", e) : j = k
  BY <1>2, <1>4
<1>7. \A j, k \in OwnedIn(items', "pattern", e) : items'[j].body.gl = items'[k].body.gl
  BY <1>2, <1>5
<1> QED  BY <1>1, <1>6, <1>7, AgreeIs

LEMMA UpdateTreatmentKeeps ==
    ASSUME IInv, NEW c \in Calls, UpdateTreatment(c)
    PROVE  IInv'
<1> DEFINE m == call[c]
           b == Treatment(m.entity, m.gl)
           n == Goto(m, "gate")
<1>1. DOMAIN m = Fields /\ m.op = "learn" /\ m.pc = "update" /\ Asked(m)
  BY DEF UpdateTreatment, At, IInv, CallsKnow, Knows, Correcting
<1>2. /\ items' = [items EXCEPT ![m.item].body = b] /\ Goes(c, n) /\ UNCHANGED heir
      /\ MarkStale("treatment", m.entity, m.saw) /\ MarkStray(m.item, m.entity)
  BY DEF UpdateTreatment, To
<1>3. \A i, k : ~ WillDegrade(c, k, i)
  BY <1>1 DEF WillDegrade
<1>4. /\ DOMAIN n = Fields /\ n.op = "learn" /\ n.pc = "gate" /\ n.entity = m.entity
      /\ n.item = m.item /\ n.tx = m.tx /\ n.gl = m.gl
  BY <1>1, GoneTo
<1>5. call'[c] = n /\ Others(c)
  BY <1>2, Going DEF IInv
<1> HIDE DEF n, m
<1>6. /\ m.item \in Ids /\ items[m.item].body.type = "treatment" /\ m.saw = {m.item}
      /\ m.entity \in Entities
  BY <1>1 DEF Asked, IsA
<1>7. b \in Bodies /\ b.type = "treatment" /\ b.entity = m.entity
  BY <1>1 DEF Asked, Bodies, Treatments, Treatment
<1> HIDE DEF b
<1> DEFINE y == items[m.item]
           x == [y EXCEPT !.body = b]
<1>8. /\ x \in [body : Bodies, conf : Levels, active : BOOLEAN, late : SUBSET Nat]
      /\ x.body = b /\ x.conf = y.conf /\ x.late = y.late /\ x.active = y.active
  <2>1. /\ y = [body |-> y.body, conf |-> y.conf, active |-> y.active, late |-> y.late]
        /\ y.conf \in Levels /\ y.active \in BOOLEAN /\ y.late \in SUBSET Nat
    BY <1>6, StoreType DEF IInv, StoreOK, Ids
  <2> HIDE DEF y
  <2> QED  BY <1>7, <2>1
<1>9. items' = [items EXCEPT ![m.item] = x]
  BY <1>2
<1> HIDE DEF x
<1>10. Writes(m.item, x)
  BY <1>6, <1>7, <1>8, <1>9 DEF Writes, IInv, StoreOK
<1>11. /\ stale \subseteq stale' /\ stale' \subseteq Entities
       /\ m.entity \notin stale' => Owned("treatment", m.entity) = {m.item}
  BY <1>2, <1>6 DEF MarkStale, IInv, StoreOK
<1>12. /\ strays \subseteq strays' /\ strays' \subseteq Ids
       /\ BeingMerged(m.entity) => m.item \in strays'
  BY <1>2, <1>6 DEF MarkStray, IInv, StoreOK
<1>13. OneVoice'
  BY <1>6, <1>7, <1>8, <1>10, <1>11, UpdatingAgrees DEF IInv
<1>14. IsA("treatment", call[c].item)'
  <2>1. m.item \in Ids' /\ items'[m.item] = x
    BY <1>10, Written DEF IInv
  <2>2. call'[c].item = m.item
    BY <1>4, <1>5
  <2> QED  BY <1>7, <1>8, <2>1, <2>2 DEF IsA
<1>15. Asked(call[c])'
  BY <1>1, <1>2, <1>4, <1>5, <1>14 DEF Asked
<1>16. Knows(call[c])' /\ Answers(c)' /\ ~ At(c, "merge", "commit")'
  BY <1>4, <1>5, <1>15 DEF Knows, Answers, Answered, At, Correcting, Observing
<1> QED
  BY <1>2, <1>3, <1>5, <1>7, <1>8, <1>10, <1>11, <1>12, <1>13, <1>16, WritingKeeps

Grades(i, conf, late) == items' = [items EXCEPT ![i].conf = conf, ![i].late = late]

LEMMA GradedItem ==
    ASSUME StoreOK, NEW i \in Ids, NEW conf \in Levels, NEW late \in SUBSET Ids,
           Grades(i, conf, late)
    PROVE  \E x : /\ Writes(i, x) /\ x.body = items[i].body /\ x.conf = conf /\ x.late = late
<1> DEFINE y == items[i]
           x == [y EXCEPT !.conf = conf, !.late = late]
<1>1. /\ y = [body |-> y.body, conf |-> y.conf, active |-> y.active, late |-> y.late]
      /\ y.body \in Bodies /\ y.active \in BOOLEAN /\ late \in SUBSET Nat
  BY StoreType, Numbered DEF StoreOK, Ids
<1>2. /\ x \in [body : Bodies, conf : Levels, active : BOOLEAN, late : SUBSET Nat]
      /\ x.body = y.body /\ x.conf = conf /\ x.late = late /\ x.active = y.active
  <2> HIDE DEF y
  <2> QED  BY <1>1
<1>3. items' = [items EXCEPT ![i] = x]
  BY DEF Grades
<1> HIDE DEF x
<1> QED  BY <1>2, <1>3 DEF Writes

\* A step that grades an item and goes on.
LEMMA GradingKeeps ==
    ASSUME IInv, NEW c \in Calls, NEW i \in Ids, NEW conf \in Levels, NEW late \in SUBSET Ids,
           Grades(i, conf, late), Others(c), UNCHANGED <<heir, stale, strays>>,
           Knows(call'[c]), Answered(call'[c]), ~ At(c, "merge", "commit")',
           conf = "certain" => Pending(i) \subseteq late,
           \A j \in Ids, k \in Active("conflict") :
               WillDegrade(c, k, j) => WillDegrade(c, k, j)' \/ (j = i /\ conf # "certain")
    PROVE  IInv'
<1>0. StoreOK
  BY DEF IInv
<1>1. PICK x : Writes(i, x) /\ x.body = items[i].body /\ x.conf = conf /\ x.late = late
  BY <1>0, GradedItem
<1>2. /\ items' \in Stores /\ Ids' = Ids /\ items'[i] = x
      /\ \A j \in Ids : items'[j].body = items[j].body /\ items'[j].active = items[j].active
      /\ Len(items') = Len(items) /\ Len(items') \in Nat /\ Ids' = 1..Len(items')
  <2>1. x.active = items[i].active
    BY <1>1 DEF Writes
  <2> QED  BY <1>0, <1>1, <2>1, Written
<1>3. OneVoice'
  BY <1>1, GradingAgrees DEF IInv
<1>4. Lasts
  BY <1>2 DEF Lasts
<1>5. Knows(call[c])'
  BY <1>4, KnowsLasts DEF IInv
<1>6. \A type : Active(type)' = Active(type)
  BY <1>2 DEF Active, ActiveIn, IsActive, Ids
<1>7. Pending(i)' = Pending(i)
  <2>1. \A type : Active(type) \subseteq Ids
    BY DEF Active, ActiveIn, Ids
  <2>2. Resolved' = Resolved
    BY <1>2, <1>6, <2>1 DEF Resolved, ResolvedIn, Active
  <2> QED  BY <1>2, <1>6, <2>1, <2>2 DEF Pending, Questioning, QuestioningIn, Active
<1>8. Answers(c)'
  <2> SUFFICES ASSUME call'[c].op = "learn", call'[c].pc = "done",
                      heir[call'[c].entity] = call'[c].entity,
                      NEW p \in call'[c].pats, Contradicts(call[c].item, p)'
               PROVE  \E k \in Active("conflict") : items[k].body.pats \intersect call'[c].pats # {}
    BY <1>2, <1>6 DEF Answers, Answered, Active, ActiveIn, Ids
  <2>1. Observant(call'[c])
    BY DEF Knows, Observing, Correcting
  <2>2. call'[c].item \in Ids /\ p \in Ids
    BY <2>1 DEF Observant, IsA, All
  <2>3. Contradicts(call'[c].item, p)
    BY <1>2, <2>2 DEF Contradicts, Gl, Segs
  <2> QED  BY <2>3 DEF Answered
<1>9. stale' \subseteq Entities /\ strays' \subseteq Ids
  BY DEF IInv, StoreOK
<1>10. \A j \in Ids, k \in Active("conflict") :
           WillDegrade(c, k, j) => WillDegrade(c, k, j)' \/ items'[j].conf # "certain"
  BY <1>1, <1>2
<1> QED  BY <1>1, <1>3, <1>5, <1>7, <1>8, <1>9, <1>10, WritingKeeps

\* Certainty granted upon a reading: what questions the item has come since.
LEMMA TrustingKeeps ==
    ASSUME IInv, NEW c \in Calls, NEW i \in Ids, NEW asOf, Granted(i, asOf),
           items' = Trusted(i, asOf), NEW n, Goes(c, n), UNCHANGED <<heir, stale, strays>>,
           Knows(n), Answered(n), ~ (n.op = "merge" /\ n.pc = "commit"),
           \A j, k : ~ WillDegrade(c, k, j)
    PROVE  IInv'
<1>1. CASE items[i].conf = "certain"
  <2>1. UNCHANGED <<items, heir, stale, strays>>
    BY <1>1 DEF Trusted
  <2> QED  BY <2>1, ReadingKeeps
<1>2. CASE items[i].conf # "certain"
  <2> DEFINE late == {k \in Pending(i) : k > asOf}
  <2>1. Grades(i, "certain", late)
    BY <1>2 DEF Trusted, Grades
  <2>2. Pending(i) \subseteq late /\ late \in SUBSET Ids
    <3>1. ASSUME NEW k \in Pending(i) PROVE k \in Ids /\ k > asOf
      <4>1. k \in Active("conflict") /\ k \notin Resolved /\ i \in Implicated(items[k].body)
        BY DEF Pending, Questioning, QuestioningIn, Active
      <4>2. StoreOK /\ asOf \in Nat
        BY DEF IInv, Granted
      <4>3. k \in Ids /\ k \in Nat
        <5>1. k \in All("conflict") /\ All("conflict") \subseteq Ids
          BY <4>1, <4>2, Numbered
        <5>2. Ids = 1..Len(items) /\ Len(items) \in Nat
          BY <4>2, Numbered
        <5> QED  BY <5>1, <5>2
      <4> QED  BY <4>1, <4>2, <4>3 DEF Granted
    <3> QED  BY <3>1
  <2>3. "certain" \in Levels
    BY DEF Levels
  <2>4. call'[c] = n /\ Others(c)
    BY Going DEF IInv
  <2>5. ~ At(c, "merge", "commit")'
    BY <2>4 DEF At
  <2> HIDE DEF late
  <2> QED  BY <2>1, <2>2, <2>3, <2>4, <2>5, GradingKeeps
<1> QED  BY <1>1, <1>2

LEMMA PromoteKeeps ==
    ASSUME IInv, NEW c \in Calls, Promote(c)
    PROVE  IInv'
<1> DEFINE m == call[c]
           n == [m EXCEPT !.pc = "observe", !.asOf = 0]
<1>1. DOMAIN m = Fields /\ m.op = "learn" /\ m.pc = "promote" /\ Asked(m)
  BY DEF Promote, At, IInv, CallsKnow, Knows, Correcting
<1>2. /\ DOMAIN n = Fields /\ n.op = "learn" /\ n.pc = "observe" /\ n.tx = m.tx /\ n.gl = m.gl
      /\ n.entity = m.entity /\ n.item = m.item
  BY <1>1 DEF Fields
<1>3. Goes(c, n) /\ items' = Trusted(m.item, m.asOf) /\ UNCHANGED <<heir, stale, strays>>
  BY DEF Promote, NoMark
<1>4. \A i, k : ~ WillDegrade(c, k, i)
  BY <1>1 DEF WillDegrade
<1> HIDE DEF n, m
<1>5. m.item \in Ids /\ Granted(m.item, m.asOf)
  BY <1>1 DEF Asked, IsA
<1>6. Asked(n)
  BY <1>1, <1>2 DEF Asked
<1>7. Knows(n) /\ Answered(n) /\ ~ (n.op = "merge" /\ n.pc = "commit")
  BY <1>2, <1>6 DEF Knows, Answered, Correcting, Observing
<1> QED  BY <1>3, <1>4, <1>5, <1>7, TrustingKeeps

LEMMA RehabilitateKeeps ==
    ASSUME IInv, NEW c \in Calls, Rehabilitate(c)
    PROVE  IInv'
<1> DEFINE m == call[c]
           pc == IF items[m.item].conf = "certain" THEN "done" ELSE "event"
           n == Goto(m, pc)
<1>1. DOMAIN m = Fields /\ m.op = "rehabilitate" /\ m.pc = "evolve" /\ Rehabilitator(m)
  BY DEF Rehabilitate, At, IInv, CallsKnow, Knows
<1>2. Goes(c, n) /\ items' = Trusted(m.item, m.asOf) /\ UNCHANGED <<heir, stale, strays>>
  BY DEF Rehabilitate, To, NoMark
<1>3. \A i, k : ~ WillDegrade(c, k, i)
  BY <1>1 DEF WillDegrade
<1>4. pc \in {"done", "event"}
  OBVIOUS
<1> HIDE DEF m, pc
<1>5. /\ DOMAIN n = Fields /\ n.op = "rehabilitate" /\ n.pc = pc /\ n.item = m.item
      /\ pc # "done" => n.conflict = m.conflict
  BY <1>1, GoneTo
<1> HIDE DEF n
<1>6. /\ m.item \in Ids /\ Granted(m.item, m.asOf)
      /\ IsA("conflict", m.conflict) /\ (IsA("pattern", m.item) \/ IsA("treatment", m.item))
  BY <1>1 DEF Rehabilitator, IsA
<1>7. Rehabilitator(n)
  BY <1>4, <1>5, <1>6 DEF Rehabilitator
<1>8. Knows(n) /\ Answered(n) /\ ~ (n.op = "merge" /\ n.pc = "commit")
  BY <1>4, <1>5, <1>7 DEF Knows, Answered
<1> QED  BY <1>2, <1>3, <1>6, <1>8, TrustingKeeps

LEMMA DegradeKeeps ==
    ASSUME IInv, NEW c \in Calls, NEW i \in Ids, Degrade(c, i)
    PROVE  IInv'
<1> DEFINE m == call[c]
           rest == m.todo \ {i}
           pc == IF rest = {} THEN "done" ELSE "degrade"
           q == [m EXCEPT !.todo = rest]
           n == Goto(q, pc)
<1>1. /\ DOMAIN m = Fields /\ m.op = "learn" /\ m.pc = "degrade" /\ Observant(m)
      /\ i \in m.todo
  BY DEF Degrade, At, IInv, CallsKnow, Knows, Correcting, Observing
<1>2. /\ Grades(i, "uncertain", {}) /\ Goes(c, n) /\ UNCHANGED <<heir, stale, strays>>
  BY DEF Degrade, Grades, NoMark
<1>3. /\ DOMAIN q = Fields /\ q.op = "learn" /\ q.entity = m.entity /\ q.item = m.item
      /\ q.pats = m.pats /\ q.conflict = m.conflict /\ q.todo = rest
  BY <1>1 DEF Fields
<1>4. \A j, k : WillDegrade(c, k, j) => k = m.conflict /\ j \in m.todo
  BY <1>1 DEF WillDegrade
<1>5. (pc = "done" => rest = {}) /\ pc \in {"done", "degrade"} /\ m.todo \subseteq rest \union {i}
  OBVIOUS
<1> HIDE DEF q, m, pc, rest
<1>6. /\ DOMAIN n = Fields /\ n.op = "learn" /\ n.pc = pc /\ n.entity = m.entity
      /\ n.item = m.item /\ n.pats = m.pats
      /\ pc # "done" => n.conflict = m.conflict /\ n.todo = rest
  BY <1>3, GoneTo
<1> HIDE DEF n
<1>7. Opposed(m) /\ rest \subseteq Implicated(items[m.conflict].body)
  BY <1>1 DEF Observant, rest
<1>8. Observant(n)
  BY <1>1, <1>5, <1>6, <1>7 DEF Observant, Opposed
<1>9. Answered(n)
  BY <1>6, <1>7, OpposedAnswers DEF Answered
<1>10. Knows(n) /\ ~ (n.op = "merge" /\ n.pc = "commit")
  BY <1>5, <1>6, <1>8 DEF Knows, Correcting, Observing
<1>11. call'[c] = n /\ Others(c)
  BY <1>2, Going DEF IInv
<1>12. ~ At(c, "merge", "commit")'
  BY <1>6, <1>11 DEF At
<1>13. ASSUME NEW j \in Ids, NEW k \in Active("conflict"), WillDegrade(c, k, j)
       PROVE  WillDegrade(c, k, j)' \/ j = i
  <2>1. k = m.conflict /\ (j \in rest \/ j = i)
    BY <1>4, <1>5, <1>13
  <2> QED  BY <1>5, <1>6, <1>11, <2>1 DEF WillDegrade
<1>14. "uncertain" \in Levels /\ {} \in SUBSET Ids
  BY DEF Levels
<1> QED  BY <1>2, <1>9, <1>10, <1>11, <1>12, <1>13, <1>14, GradingKeeps

(***************************************************************************)
(* The merge of two entities.                                              *)
(***************************************************************************)
LEMMA StartMergeKeeps ==
    ASSUME IInv, NEW c \in Calls, NEW s \in Entities, NEW t \in Entities,
           NEW ct, NEW cp \in {"none", "source", "target"}, StartMerge(c, s, t, ct, cp)
    PROVE  IInv'
<1> DEFINE n == [Idle EXCEPT !.op = "merge", !.pc = "commit", !.entity = s, !.into = t,
                             !.keep = <<ct, cp>>, !.image = items]
<1>1. /\ DOMAIN n = Fields /\ n.op = "merge" /\ n.pc = "commit" /\ n.entity = s /\ n.into = t
      /\ n.keep[2] = cp /\ n.image = items
  BY DEF Idle, Fields
<1>2. Goes(c, n) /\ call[c].pc = "idle" /\ UNCHANGED <<items, heir, stale, strays>>
  BY DEF StartMerge, NoMark
<1>3. /\ s # t /\ heir[s] = s /\ heir[t] = t /\ \A d \in Calls : ~ At(d, "merge", "commit")
      /\ ~ Ambiguous(items, s) /\ ~ Ambiguous(items, t)
      /\ PatternsCollide(items, s, t) <=> cp # "none"
  BY DEF StartMerge, NoMerge
<1> HIDE DEF n
<1>4. call'[c] = n /\ Others(c)
  BY <1>2, Going DEF IInv
<1>5. Lasts
  BY <1>2, Numbered DEF Lasts, IInv, Ids, StoreOK
<1>6. StoreOK' /\ OneVoice' /\ Related(items, heir)' /\ Lasting' /\ MergeLosesNothing'
  BY <1>2 DEF IInv, StoreOK, OneVoice, Lasting, MergeLosesNothing, HeldByHeir, Active, Ids
<1>7. Imaged(n)
  <2>1. HeldIn(items)
    <3> SUFFICES ASSUME NEW i \in Ids, items[i].active, items[i].body.type \in About,
                        heir[items[i].body.entity] # items[i].body.entity, i \notin strays
                 PROVE  /\ items[i].body.type = "observation"
                        /\ \E j \in Ids : items[j].active
                              /\ items[j].body =
                                     [items[i].body EXCEPT !.entity = heir[items[i].body.entity]]
      BY DEF HeldIn, Ids
    <3>1. HeldByHeir(i)
      BY DEF IInv, MergeLosesNothing
    <3> QED  BY <3>1 DEF HeldByHeir, Active, ActiveIn, IsActive, Ids
  <2>2. \A i \in Ids : LET e == items[i].body.entity
                      IN  /\ items[i].active /\ items[i].body.type \in About
                          /\ (e = s \/ heir[e] # e)
                          => i \in strays \/ (i \in DOMAIN items /\ items[i].body.entity = e)
    BY DEF Ids
  <2> QED  BY <1>1, <1>3, <2>1, <2>2, Numbered DEF IInv, StoreOK, Imaged, Ids
<1>8. Imaged(call[c])'
  BY <1>2, <1>4, <1>7 DEF Imaged, HeldIn, Ids
<1>9. \A d \in Calls : At(d, "merge", "commit")' => d = c
  BY <1>3, <1>4 DEF Others, At
<1>10. MergesApart'
  BY <1>8, <1>9 DEF MergesApart
<1>11. Knows(n)
  BY <1>1 DEF Knows
<1>12. Knows(call[c])' /\ Answers(c)'
  BY <1>1, <1>4, <1>5, <1>11, KnowsLasts DEF IInv, Answers, Answered
<1>13. CallsKnow' /\ ContradictionsAreRecorded'
  BY <1>4, <1>5, <1>12, CallsKeep, AnswersKeep DEF IInv
<1>14. Trusts(c)
  BY <1>2 DEF Trusts, Active, ActiveIn, Ids, WillDegrade, IInv, StoreOK
<1>15. ContestedIsNotCertain'
  BY <1>4, <1>5, <1>14, ContestedKeeps DEF IInv
<1> QED  BY <1>6, <1>10, <1>13, <1>15 DEF IInv

\* Content under another entity.
LEMMA MovedBody ==
    ASSUME NEW b \in Bodies, b.type \in About, NEW t \in Entities
    PROVE  LET x == [b EXCEPT !.entity = t]
           IN  /\ x \in Bodies /\ x.type = b.type /\ x.entity = t /\ x.gl = b.gl
               /\ b.type = "observation" => x.tx = b.tx
               /\ b.type \in {"candidate", "pattern"} => x.obs = b.obs /\ x.segs = b.segs
               /\ b.type = "pattern" => x.from = b.from
<1>1. CASE b.type = "treatment"
  BY <1>1, BodyType DEF Treatments, Bodies
<1>2. CASE b.type = "observation"
  BY <1>2, BodyType DEF Observations, Bodies
<1>3. CASE b.type = "candidate"
  BY <1>3, BodyType DEF Candidates, Bodies
<1>4. CASE b.type = "pattern"
  BY <1>4, BodyType DEF Patterns, Bodies
<1> QED  BY <1>1, <1>2, <1>3, <1>4 DEF About

\* Nothing of the source but an observation can exist under the target: what was
\* generalised has its observations in one of the two.
LEMMA TwinsAreObservations ==
    ASSUME IInv, NEW m, Imaged(m), NEW i \in DOMAIN m.image,
           m.image[i].body.entity = m.entity, m.image[i].body.type \in About,
           IsTwin(m.image, i, m.into)
    PROVE  m.image[i].body.type = "observation"
<1> DEFINE b == m.image[i].body
<1> SUFFICES ASSUME b.type \in {"candidate", "pattern"}, NEW j \in Ids,
                    items[j].body = [b EXCEPT !.entity = m.into]
             PROVE  FALSE
  BY DEF IsTwin, Moved, About
<1>1. /\ m.image \in Stores /\ m.entity \in Entities /\ m.into \in Entities
      /\ m.entity # m.into /\ heir[m.entity] = m.entity /\ heir[m.into] = m.into
      /\ Len(m.image) <= Len(items) /\ items[i].body = b
  BY DEF Imaged
<1>2. b \in Bodies /\ i \in Ids
  <2>1. DOMAIN m.image = 1..Len(m.image) /\ Len(m.image) \in Nat /\ b \in Bodies
    BY <1>1, StoreType
  <2> QED  BY <1>1, <2>1, Numbered DEF IInv
<1>3. b.entity = m.entity /\ b.type \in {"candidate", "pattern"}
  OBVIOUS
<1> HIDE DEF b
<1>4. LET x == items[j].body
      IN  /\ x.type = b.type /\ x.entity = m.into
          /\ x.obs = b.obs
  BY <1>1, <1>2, <1>3, MovedBody DEF About
<1>5. ASSUME NEW k \in Ids, items[k].body.type \in {"candidate", "pattern"},
             NEW o \in items[k].body.obs
      PROVE  heir[items[o].body.entity] = heir[items[k].body.entity]
  BY <1>5 DEF IInv, Related, Ids
<1>6. Cardinality(b.obs) > 1
  <2>1. Refers(items, i)
    BY <1>2 DEF IInv, StoreOK
  <2> QED  BY <1>1, <1>3, <2>1 DEF Refers, Evidenced
<1>7. PICK o \in b.obs : TRUE
  BY <1>6, FS_EmptySet
<1>8. m.entity = heir[items[o].body.entity]
  BY <1>1, <1>2, <1>3, <1>5
<1>9. m.into = heir[items[o].body.entity]
  <2>1. /\ items[j].body.type \in {"candidate", "pattern"} /\ items[j].body.entity = m.into
        /\ o \in items[j].body.obs
    BY <1>3, <1>4
  <2>2. heir[items[o].body.entity] = heir[items[j].body.entity]
    BY <1>5, <2>1
  <2> QED  BY <1>1, <2>1, <2>2
<1> QED  BY <1>1, <1>8, <1>9

\* What a merge forgets, and what it moves.
ForgottenBy(m) == Forgotten(m.image, m.entity, m.into, m.keep[1], m.keep[2])
MovedBy(m) ==
    {i \in (UNION {OwnedIn(m.image, type, m.entity) : type \in MovedTypes}) \ ForgottenBy(m) :
        ~ IsTwin(m.image, i, m.into)}

Merged(m) ==
    [i \in Ids |->
        IF i \in MovedBy(m) THEN [items[i] EXCEPT !.body = Moved(m.image, i, m.into)]
        ELSE IF i \in ForgottenBy(m) THEN [items[i] EXCEPT !.active = FALSE]
        ELSE items[i]]

LEMMA MovedIs ==
    ASSUME NEW m, NEW i \in MovedBy(m)
    PROVE  /\ i \in DOMAIN m.image /\ i \notin ForgottenBy(m)
           /\ m.image[i].active /\ m.image[i].body.type \in About
           /\ m.image[i].body.entity = m.entity
           /\ i \in OwnedIn(m.image, m.image[i].body.type, m.entity)
<1>1. i \notin ForgottenBy(m)
  BY DEF MovedBy
<1>2. PICK type \in MovedTypes : i \in OwnedIn(m.image, type, m.entity)
  <2> DEFINE owned == {OwnedIn(m.image, type, m.entity) : type \in MovedTypes}
  <2>1. i \in UNION owned
    BY DEF MovedBy
  <2>2. PICK S \in owned : i \in S
    <3> HIDE DEF owned
    <3> QED  BY <2>1
  <2> QED  BY <2>2
<1> QED  BY <1>1, <1>2 DEF OwnedIn, ActiveIn, IsActive, MovedTypes

LEMMA ForgottenIs ==
    ASSUME NEW m, Imaged(m), NEW i \in ForgottenBy(m)
    PROVE  /\ i \in DOMAIN m.image /\ m.image[i].active
           /\ m.image[i].body.type \in {"treatment", "pattern"}
<1>1. m.keep[2] \in {"none", "source", "target"}
  BY DEF Imaged
<1>2. \E type \in {"treatment", "pattern"}, e \in {m.entity, m.into} :
          i \in OwnedIn(m.image, type, e)
  BY <1>1 DEF ForgottenBy, Forgotten, ForgottenTreatment, ForgottenPatterns
<1> QED  BY <1>2 DEF OwnedIn, ActiveIn, IsActive

LEMMA CommitIs ==
    ASSUME IInv, NEW c \in Calls, Commit(c), NEW m, m = call[c]
    PROVE  /\ Imaged(m) /\ DOMAIN m = Fields /\ m.op = "merge" /\ m.pc = "commit"
           /\ items' = Merged(m)
           /\ heir' = [e \in Entities |-> IF heir[e] = m.entity THEN m.into ELSE heir[e]]
           /\ stale' = IF \A e \in {m.entity, m.into} : Knowledge(items, e) = Knowledge(m.image, e)
                       THEN stale ELSE stale \union {m.entity, m.into}
           /\ strays' = strays
           /\ call'[c] = Goto(m, "done") /\ Others(c)
<1>1. /\ Imaged(m) /\ DOMAIN m = Fields /\ m.op = "merge" /\ m.pc = "commit"
  BY DEF Commit, At, IInv, MergesApart, CallsKnow, Knows
<1>3. /\ items' = [i \in Ids |->
             IF i \in MovedBy(m) THEN [items[i] EXCEPT !.body = Moved(m.image, i, m.into)]
             ELSE IF i \in ForgottenBy(m) THEN [items[i] EXCEPT !.active = FALSE]
             ELSE items[i]]
      /\ heir' = [e \in Entities |-> IF heir[e] = m.entity THEN m.into ELSE heir[e]]
      /\ stale' = IF \A e \in {m.entity, m.into} : Knowledge(items, e) = Knowledge(m.image, e)
                  THEN stale ELSE stale \union {m.entity, m.into}
      /\ strays' = strays /\ Goes(c, Goto(m, "done"))
  BY DEF Commit, Ends, To, MovedBy, ForgottenBy
<1>4. items' = Merged(m)
  BY <1>3 DEF Merged
<1>5. call'[c] = Goto(m, "done") /\ Others(c)
  BY <1>3, Going DEF IInv
<1> QED  BY <1>1, <1>3, <1>4, <1>5

\* A merge changes the entity of what it moves, and may bring back a treatment it
\* has read; it forgets treatments and patterns.
LEMMA MergedItems ==
    ASSUME IInv, NEW m, Imaged(m), items' = Merged(m)
    PROVE  /\ items' \in Stores /\ Len(items') = Len(items) /\ Ids' = Ids
           /\ Ids = 1..Len(items') /\ Len(items') \in Nat
           /\ DOMAIN m.image \subseteq Ids
           /\ \A i \in Ids :
                 /\ items'[i].conf = items[i].conf /\ items'[i].late = items[i].late
                 /\ items'[i].active = (items[i].active /\ i \notin ForgottenBy(m))
                 /\ items'[i].body = IF i \in MovedBy(m) THEN Moved(m.image, i, m.into)
                                     ELSE items[i].body
<1> DEFINE R == [body : Bodies, conf : Levels, active : BOOLEAN, late : SUBSET Nat]
<1>1. /\ m.image \in Stores /\ m.into \in Entities /\ Len(m.image) <= Len(items)
      /\ DOMAIN m.image = 1..Len(m.image) /\ Len(m.image) \in Nat
  BY StoreType DEF Imaged
<1>2. DOMAIN m.image \subseteq Ids /\ Len(items) \in Nat /\ Ids = 1..Len(items)
  BY <1>1, Numbered DEF IInv
<1>3. ASSUME NEW i \in Ids
      PROVE  /\ Merged(m)[i] \in R
             /\ Merged(m)[i].conf = items[i].conf /\ Merged(m)[i].late = items[i].late
             /\ Merged(m)[i].active = (items[i].active /\ i \notin ForgottenBy(m))
             /\ Merged(m)[i].body = IF i \in MovedBy(m) THEN Moved(m.image, i, m.into)
                                    ELSE items[i].body
  <2> DEFINE x == items[i]
  <2>1. /\ x = [body |-> x.body, conf |-> x.conf, active |-> x.active, late |-> x.late]
        /\ x.body \in Bodies /\ x.conf \in Levels /\ x.active \in BOOLEAN /\ x.late \in SUBSET Nat
    BY StoreType DEF IInv, StoreOK, Ids
  <2> HIDE DEF x
  <2>2. CASE i \in MovedBy(m)
    <3>1. Moved(m.image, i, m.into) \in Bodies
      BY <1>1, <2>2, MovedIs, MovedBody, StoreType DEF Moved
    <3>2. Merged(m)[i] = [x EXCEPT !.body = Moved(m.image, i, m.into)]
      BY <2>2 DEF Merged, x
    <3>3. i \notin ForgottenBy(m)
      BY <2>2, MovedIs
    <3> QED  BY <2>1, <2>2, <3>1, <3>2, <3>3 DEF x
  <2>3. CASE i \notin MovedBy(m) /\ i \in ForgottenBy(m)
    <3>1. Merged(m)[i] = [x EXCEPT !.active = FALSE]
      BY <2>3 DEF Merged, x
    <3> QED  BY <2>1, <2>3, <3>1 DEF x
  <2>4. CASE i \notin MovedBy(m) /\ i \notin ForgottenBy(m)
    <3>1. Merged(m)[i] = x
      BY <2>4 DEF Merged, x
    <3> QED  BY <2>1, <2>4, <3>1 DEF x
  <2> QED  BY <2>2, <2>3, <2>4
<1>4. /\ items' \in Seq(R) /\ Len(items') = Len(items) /\ DOMAIN items' = Ids
  <2>1. DOMAIN Merged(m) = Ids
    BY DEF Merged
  <2>2. \A i \in 1..Len(items) : items'[i] \in R
    BY <1>2, <1>3
  <2>3. items' = [i \in 1..Len(items) |-> items'[i]]
    BY <1>2 DEF Merged
  <2> HIDE DEF R
  <2> QED  BY <1>2, <2>1, <2>2, <2>3
<1> QED  BY <1>2, <1>3, <1>4 DEF Stores, Ids

\* What a merge moves was the source's and is the target's.
LEMMA MergedBodies ==
    ASSUME IInv, NEW m, Imaged(m), items' = Merged(m), NEW i \in Ids
    PROVE  LET b == items[i].body
               d == items'[i].body
           IN  /\ i \notin MovedBy(m) => d = b
               /\ i \in MovedBy(m) =>
                     /\ items[i].active /\ b.type \in About /\ d.entity = m.into
                     /\ d.gl = m.image[i].body.gl
                     /\ b.type # "treatment" => b.entity = m.entity /\ d.gl = b.gl
               /\ d.type = b.type
               /\ b.type = "observation" => d.tx = b.tx
               /\ b.type \in {"candidate", "pattern"} => d.obs = b.obs /\ d.segs = b.segs
               /\ b.type = "pattern" => d.from = b.from
<1>1. CASE i \notin MovedBy(m)
  BY <1>1, MergedItems
<1>2. CASE i \in MovedBy(m)
  <2> DEFINE old == m.image[i].body
             d == items'[i].body
  <2>1. d = [old EXCEPT !.entity = m.into]
    BY <1>2, MergedItems DEF Moved
  <2>2. /\ i \in DOMAIN m.image /\ old \in Bodies /\ old.type \in About /\ old.entity = m.entity
        /\ m.image[i].active /\ m.into \in Entities
    BY <1>2, MovedIs, StoreType DEF Imaged
  <2>3. /\ items[i].active /\ items[i].body.type = old.type
        /\ old.type # "treatment" => items[i].body = old
    BY <2>2 DEF Imaged
  <2> HIDE DEF old, d
  <2>4. /\ d.type = old.type /\ d.entity = m.into /\ d.gl = old.gl
        /\ old.type = "observation" => d.tx = old.tx
        /\ old.type \in {"candidate", "pattern"} => d.obs = old.obs /\ d.segs = old.segs
        /\ old.type = "pattern" => d.from = old.from
    BY <2>1, <2>2, MovedBody
  <2> QED  BY <1>2, <2>2, <2>3, <2>4 DEF old, d
<1> QED  BY <1>1, <1>2

Heirs(m) == [e \in Entities |-> IF heir[e] = m.entity THEN m.into ELSE heir[e]]

LEMMA MergedHeirs ==
    ASSUME IInv, NEW m, Imaged(m), heir' = Heirs(m)
    PROVE  /\ heir' \in [Entities -> Entities] /\ \A e \in Entities : heir'[heir'[e]] = heir'[e]
           /\ m.entity \in Entities /\ m.into \in Entities /\ m.entity # m.into
           /\ heir'[m.entity] = m.into /\ heir'[m.into] = m.into
           /\ \A e \in Entities : heir'[e] = e => heir[e] = e
           /\ \A e \in Entities : heir[e] = e /\ e # m.entity => heir'[e] = e
           /\ \A e, f \in Entities : heir[e] = heir[f] => heir'[e] = heir'[f]
  BY DEF IInv, StoreOK, Imaged, Heirs

LEMMA MergeLasts ==
    ASSUME IInv, NEW m, Imaged(m), items' = Merged(m), heir' = Heirs(m)
    PROVE  Lasts
<1>1. /\ Len(items) <= Len(items') /\ Len(items') \in Nat /\ Ids' = 1..Len(items')
  BY MergedItems
<1>2. ASSUME NEW i \in Ids
      PROVE  /\ items'[i].body.type = items[i].body.type
             /\ items[i].body.type \notin {"treatment", "pattern"} =>
                   items'[i].active = items[i].active
             /\ items[i].body.type \notin About => items'[i].body = items[i].body
             /\ items[i].body.type \in {"observation", "candidate", "pattern"} =>
                   /\ items'[i].body.gl = items[i].body.gl
                   /\ heir'[items'[i].body.entity] = heir'[items[i].body.entity]
             /\ items[i].body.type = "observation" =>
                   /\ items'[i].body.tx = items[i].body.tx
                   /\ \A e \in Entities : heir'[e] = e /\ items[i].body.entity = e =>
                          items'[i].body.entity = e
             /\ items[i].body.type \in {"candidate", "pattern"} =>
                   /\ items'[i].body.segs = items[i].body.segs
                   /\ items'[i].body.obs = items[i].body.obs
             /\ items[i].body.type = "pattern" => items'[i].body.from = items[i].body.from
  <2>1. items[i].body.type \notin {"treatment", "pattern"} => i \notin ForgottenBy(m)
    <3> SUFFICES ASSUME i \in ForgottenBy(m) PROVE items[i].body.type \in {"treatment", "pattern"}
      OBVIOUS
    <3>1. i \in DOMAIN m.image /\ m.image[i].body.type \in {"treatment", "pattern"}
      BY ForgottenIs
    <3> QED  BY <3>1 DEF Imaged
  <2>2. items[i].active \in BOOLEAN
    BY StoreType DEF IInv, StoreOK, Ids
  <2>3. items'[i].active = (items[i].active /\ i \notin ForgottenBy(m))
    BY MergedItems
  <2>4. items[i].body.type \notin {"treatment", "pattern"} => items'[i].active = items[i].active
    BY <2>1, <2>2, <2>3
  <2>5. CASE i \notin MovedBy(m)
    <3>1. items'[i].body = items[i].body
      BY <2>5, MergedBodies
    <3> QED  BY <2>4, <3>1
  <2>6. CASE i \in MovedBy(m)
    <3> DEFINE b == items[i].body
               d == items'[i].body
    <3>1. /\ b.type \in About /\ d.entity = m.into
          /\ b.type # "treatment" => b.entity = m.entity /\ d.gl = b.gl
          /\ d.type = b.type
          /\ b.type = "observation" => d.tx = b.tx
          /\ b.type \in {"candidate", "pattern"} => d.obs = b.obs /\ d.segs = b.segs
          /\ b.type = "pattern" => d.from = b.from
      BY <2>6, MergedBodies
    <3>2. m.entity # m.into /\ heir'[m.entity] = m.into /\ heir'[m.into] = m.into
      BY MergedHeirs
    <3> HIDE DEF b, d
    <3>3. /\ b.type \in {"observation", "candidate", "pattern"} =>
                d.gl = b.gl /\ heir'[d.entity] = heir'[b.entity]
          /\ b.type = "observation" =>
                \A e \in Entities : heir'[e] = e /\ b.entity = e => d.entity = e
      BY <3>1, <3>2
    <3> QED  BY <2>4, <3>1, <3>3 DEF b, d
  <2> QED  BY <2>5, <2>6
<1>3. /\ \A e \in Entities : heir'[e] = e => heir[e] = e
      /\ \A e, f \in Entities : heir[e] = heir[f] => heir'[e] = heir'[f]
  BY MergedHeirs
<1> QED  BY <1>1, <1>2, <1>3 DEF Lasts

LEMMA MergeTypes ==
    ASSUME IInv, NEW m, Imaged(m), items' = Merged(m), heir' = Heirs(m), strays' = strays,
           stale' \subseteq Entities
    PROVE  StoreOK' /\ Related(items, heir)' /\ Lasting'
<1>1. Lasts /\ StoreOK
  BY MergeLasts DEF IInv
<1>2. /\ items' \in Stores /\ Ids' = Ids /\ heir' \in [Entities -> Entities]
      /\ \A e \in Entities : heir'[heir'[e]] = heir'[e]
      /\ \A i \in Ids : items'[i].late = items[i].late
  BY MergedItems, MergedHeirs
<1>3. \A i \in Ids : Refers(items', i)
  BY <1>1, RefersLasts
<1>4. StoreOK'
  BY <1>1, <1>2, <1>3 DEF StoreOK
<1>5. Lasting'
  BY <1>1, <1>2 DEF IInv, Lasting, Lasts
<1>7. ASSUME NEW i \in Ids, items'[i].body.type \in {"candidate", "pattern"},
             NEW o \in items'[i].body.obs
      PROVE  heir'[items'[o].body.entity] = heir'[items'[i].body.entity]
  <2>1. /\ items[i].body.type \in {"candidate", "pattern"} /\ o \in items[i].body.obs
        /\ heir'[items'[i].body.entity] = heir'[items[i].body.entity]
    BY <1>1, <1>7 DEF Lasts
  <2>2. heir[items[o].body.entity] = heir[items[i].body.entity]
    BY <2>1 DEF IInv, Related, Ids
  <2>3. Refers(items, i)
    BY <1>1 DEF StoreOK
  <2>4. o \in Earlier(items, "observation", i)
    BY <2>1, <2>3 DEF Refers
  <2>5. o \in Ids /\ items[o].body.type = "observation"
    BY <1>1, <2>4, Numbered DEF Earlier
  <2>6. heir'[items'[o].body.entity] = heir'[items[o].body.entity]
    BY <1>1, <2>5 DEF Lasts
  <2>7. items[i].body.entity \in Entities /\ items[o].body.entity \in Entities
    BY <1>1, <2>1, <2>5, StoreType, BodyType DEF StoreOK, Ids, About
  <2> QED  BY <1>1, <2>1, <2>2, <2>6, <2>7 DEF Lasts
<1>8. Related(items, heir)'
  BY <1>2, <1>7 DEF Related, Ids
<1> QED  BY <1>4, <1>5, <1>8

\* Whatever the merge has read of the source it moves or forgets, unless it is an
\* observation that exists under the target.
LEMMA MergedAway ==
    ASSUME IInv, NEW m, Imaged(m), NEW i, NEW type \in About, i \in OwnedIn(m.image, type, m.entity)
    PROVE  \/ i \in MovedBy(m) \/ i \in ForgottenBy(m)
           \/ type = "observation" /\ IsTwin(m.image, i, m.into)
<1> DEFINE owned == {OwnedIn(m.image, type2, m.entity) : type2 \in MovedTypes}
<1>1. OwnedIn(m.image, type, m.entity) \in owned
  BY DEF MovedTypes
<1>2. i \in UNION owned
  <2> HIDE DEF owned
  <2> QED  BY <1>1
<1>3. IsTwin(m.image, i, m.into) => type = "observation"
  BY TwinsAreObservations DEF OwnedIn, ActiveIn, IsActive
<1> QED  BY <1>2, <1>3 DEF MovedBy

\* What exists under the target stays there.
LEMMA TargetKeeps ==
    ASSUME IInv, NEW m, Imaged(m), items' = Merged(m), NEW j \in Ids, items[j].active,
           items[j].body.type = "observation", items[j].body.entity # m.entity
    PROVE  j \in Active("observation")' /\ items'[j].body = items[j].body
<1>1. j \notin MovedBy(m)
  BY MergedBodies
<1>2. j \notin ForgottenBy(m)
  BY ForgottenIs DEF Imaged
<1> QED  BY <1>1, <1>2, MergedItems DEF Active, ActiveIn, IsActive, Ids

\* An observation the merge has read of the source is the target's afterwards.
LEMMA TargetGets ==
    ASSUME IInv, NEW m, Imaged(m), items' = Merged(m),
           NEW i \in OwnedIn(m.image, "observation", m.entity)
    PROVE  /\ i \in Ids /\ items[i].body = m.image[i].body
           /\ \E j \in Active("observation")' :
                 items'[j].body = [items[i].body EXCEPT !.entity = m.into]
<1>1. /\ i \in DOMAIN m.image /\ m.image[i].active /\ m.image[i].body.type = "observation"
      /\ m.image[i].body.entity = m.entity
  BY DEF OwnedIn, ActiveIn, IsActive
<1>2. /\ i \in Ids /\ items[i].active /\ items[i].body = m.image[i].body
      /\ m.into \in Entities /\ m.into # m.entity
  BY <1>1, MergedItems DEF Imaged
<1>3. CASE i \in MovedBy(m)
  <2>1. items'[i].body = [items[i].body EXCEPT !.entity = m.into]
    BY <1>2, <1>3, MergedItems DEF Moved
  <2>2. items'[i].active /\ items'[i].body.type = "observation"
    <3>1. i \notin ForgottenBy(m)
      BY <1>3, MovedIs
    <3>2. items'[i].active = (items[i].active /\ i \notin ForgottenBy(m))
      BY <1>2, MergedItems
    <3>3. items'[i].body.type = items[i].body.type
      BY <1>2, MergedBodies
    <3> QED  BY <1>1, <1>2, <3>1, <3>2, <3>3
  <2>3. i \in Active("observation")'
    BY <1>2, <2>2, MergedItems DEF Active, ActiveIn, IsActive, Ids
  <2> QED  BY <1>2, <2>1, <2>3
<1>4. CASE i \notin MovedBy(m)
  <2>1. i \notin ForgottenBy(m)
    BY <1>1, ForgottenIs
  <2>2. IsTwin(m.image, i, m.into)
    BY <1>4, <2>1, MergedAway DEF About
  <2>3. PICK j \in Ids : items[j].active /\ items[j].body = [items[i].body EXCEPT !.entity = m.into]
    BY <1>2, <2>2 DEF IsTwin, Moved
  <2>4. items[j].body.type = "observation" /\ items[j].body.entity = m.into
    <3>1. items[i].body \in Bodies
      BY <1>2, StoreType DEF IInv, StoreOK, Ids
    <3> QED  BY <1>1, <1>2, <2>3, <3>1, MovedBody DEF About
  <2> QED  BY <1>2, <2>3, <2>4, TargetKeeps
<1> QED  BY <1>2, <1>3, <1>4

LEMMA MergeMoves ==
    ASSUME IInv, NEW m, Imaged(m), items' = Merged(m), heir' = Heirs(m), strays' = strays
    PROVE  MergeLosesNothing'
<1> SUFFICES ASSUME NEW i \in Ids, items'[i].active, items'[i].body.type \in About, i \notin strays,
                    heir'[items'[i].body.entity] # items'[i].body.entity
             PROVE  HeldByHeir(i)'
  BY MergedItems DEF MergeLosesNothing
<1>1. i \notin MovedBy(m)
  BY MergedBodies, MergedHeirs
<1>2. /\ items[i].active /\ i \notin ForgottenBy(m) /\ items'[i].body = items[i].body
      /\ items[i].body.type \in About
  BY <1>1, MergedItems
<1> DEFINE e == items[i].body.entity
<1>3. e \in Entities
  BY <1>2, StoreType, BodyType DEF IInv, StoreOK, Ids
<1>4. e = m.entity \/ heir[e] # e
  BY <1>2, <1>3, MergedHeirs
<1>5. i \in DOMAIN m.image /\ m.image[i].body.entity = e /\ m.image[i].active
      /\ m.image[i].body.type = items[i].body.type
  BY <1>2, <1>4 DEF Imaged
<1>6. CASE e = m.entity
  <2>1. i \in OwnedIn(m.image, items[i].body.type, m.entity)
    BY <1>5, <1>6 DEF OwnedIn, ActiveIn, IsActive
  <2>2. items[i].body.type = "observation"
    BY <1>1, <1>2, <2>1, MergedAway
  <2>3. heir'[e] = m.into
    BY <1>6, MergedHeirs
  <2> QED  BY <1>2, <2>1, <2>2, <2>3, TargetGets DEF HeldByHeir
<1>7. CASE e # m.entity
  <2> DEFINE h == heir[e]
  <2>1. PICK j \in DOMAIN m.image :
            /\ items[i].body.type = "observation"
            /\ m.image[j].active /\ m.image[j].body = [m.image[i].body EXCEPT !.entity = h]
    BY <1>2, <1>4, <1>5, <1>7 DEF Imaged, HeldIn
  <2>2. m.image[i].body = items[i].body /\ h \in Entities
    BY <1>3, <1>5, <2>1 DEF Imaged, IInv, StoreOK
  <2>3. m.image[j].body.type = "observation" /\ m.image[j].body.entity = h
    <3>1. items[i].body \in Bodies
      BY StoreType DEF IInv, StoreOK, Ids
    <3> QED  BY <2>1, <2>2, <3>1, MovedBody DEF About
  <2>4. j \in Ids /\ items[j].active /\ items[j].body = m.image[j].body
    BY <2>1, <2>3, MergedItems DEF Imaged
  <2>5. CASE h = m.entity
    <3>1. j \in OwnedIn(m.image, "observation", m.entity)
      BY <2>1, <2>3, <2>5 DEF OwnedIn, ActiveIn, IsActive
    <3>2. PICK k \in Active("observation")' :
              items'[k].body = [items[j].body EXCEPT !.entity = m.into]
      BY <3>1, TargetGets
    <3>3. items'[k].body = [items[i].body EXCEPT !.entity = m.into]
      <4>1. items[i].body \in Observations
        BY <2>1, StoreType, BodyType DEF IInv, StoreOK, Ids
      <4>2. ASSUME NEW b \in Observations
            PROVE  [[b EXCEPT !.entity = h] EXCEPT !.entity = m.into] = [b EXCEPT !.entity = m.into]
        BY DEF Observations
      <4>3. items[j].body = [items[i].body EXCEPT !.entity = h]
        BY <2>1, <2>2, <2>4
      <4> QED  BY <3>2, <4>1, <4>2, <4>3
    <3>4. heir'[e] = m.into
      BY <1>3, <2>5 DEF Heirs
    <3> QED  BY <1>2, <2>1, <3>3, <3>4 DEF HeldByHeir
  <2>6. CASE h # m.entity
    <3>1. j \in Active("observation")' /\ items'[j].body = items[j].body
      BY <2>3, <2>4, <2>6, TargetKeeps
    <3>2. heir'[e] = h
      BY <1>3, <2>6 DEF Heirs
    <3> QED  BY <1>2, <2>1, <2>2, <2>4, <3>1, <3>2 DEF HeldByHeir
  <2> QED  BY <2>5, <2>6
<1> QED  BY <1>6, <1>7

\* Who is not merged keeps what they had.
LEMMA MergeSpares ==
    ASSUME IInv, NEW m, Imaged(m), items' = Merged(m), NEW e, e # m.into,
           NEW type, NEW i \in OwnedIn(items', type, e)
    PROVE  /\ i \in OwnedIn(items, type, e) /\ items'[i].body = items[i].body
           /\ i \notin MovedBy(m) /\ i \notin ForgottenBy(m)
<1>1. i \in Ids /\ items'[i].active /\ items'[i].body.type = type /\ items'[i].body.entity = e
  BY MergedItems DEF OwnedIn, ActiveIn, IsActive, Ids
<1>2. i \notin MovedBy(m)
  BY <1>1, MergedBodies
<1> QED  BY <1>1, <1>2, MergedItems DEF OwnedIn, ActiveIn, IsActive, Ids

\* The target has what it had, and what the source had, unless it is forgotten.
LEMMA MergeJoins ==
    ASSUME IInv, NEW m, Imaged(m), items' = Merged(m),
           \A e \in {m.entity, m.into} : Knowledge(items, e) = Knowledge(m.image, e),
           NEW type \in {"treatment", "pattern"}, NEW i \in OwnedIn(items', type, m.into)
    PROVE  /\ i \in OwnedIn(m.image, type, m.entity) \/ i \in OwnedIn(m.image, type, m.into)
           /\ i \notin ForgottenBy(m)
           /\ items'[i].body.gl = m.image[i].body.gl
<1>1. /\ i \in Ids /\ items'[i].active /\ items'[i].body.type = type
      /\ items'[i].body.entity = m.into
  BY MergedItems DEF OwnedIn, ActiveIn, IsActive, Ids
<1>2. CASE i \in MovedBy(m)
  <2>1. m.image[i].body.type = type
    <3>1. items'[i].body.type = items[i].body.type
      BY MergedBodies, <1>1
    <3>2. i \in DOMAIN m.image
      BY <1>2, MovedIs
    <3> QED  BY <1>1, <3>1, <3>2 DEF Imaged
  <2> QED  BY <1>1, <1>2, <2>1, MovedIs, MergedBodies
<1>3. CASE i \notin MovedBy(m)
  <2>1. items[i].active /\ i \notin ForgottenBy(m) /\ items'[i].body = items[i].body
    BY <1>1, <1>3, MergedItems
  <2>2. i \in OwnedIn(items, type, m.into)
    BY <1>1, <2>1 DEF OwnedIn, ActiveIn, IsActive, Ids
  <2>3. <<i, items[i].body>> \in Knowledge(items, m.into)
    BY <2>2 DEF Knowledge
  <2>4. <<i, items[i].body>> \in Knowledge(m.image, m.into)
    BY <2>3
  <2>5. /\ items[i].body = m.image[i].body
        /\ i \in OwnedIn(m.image, "treatment", m.into) \union OwnedIn(m.image, "pattern", m.into)
    BY <2>4 DEF Knowledge
  <2>6. i \in OwnedIn(m.image, type, m.into)
    BY <1>1, <2>1, <2>5 DEF OwnedIn, ActiveIn, IsActive
  <2> QED  BY <2>1, <2>5, <2>6
<1> QED  BY <1>2, <1>3

LEMMA MergeAgrees ==
    ASSUME IInv, NEW m, Imaged(m), items' = Merged(m),
           stale' = IF \A e \in {m.entity, m.into} : Knowledge(items, e) = Knowledge(m.image, e)
                    THEN stale ELSE stale \union {m.entity, m.into}
    PROVE  OneVoice'
<1> SUFFICES ASSUME NEW e \in Entities \ stale' PROVE Agree(items', e)
  BY DEF OneVoice
<1>1. items' \in Stores /\ items \in Stores /\ e \notin stale
  BY MergedItems DEF IInv, StoreOK
<1>2. /\ \A i, j \in OwnedIn(items, "treatment", e) : i = j
      /\ \A i, j \in OwnedIn(items, "pattern", e) : items[i].body.gl = items[j].body.gl
  BY <1>1, AgreeIs DEF IInv, OneVoice
<1>3. e \in {m.entity, m.into} =>
          \A f \in {m.entity, m.into} : Knowledge(items, f) = Knowledge(m.image, f)
  OBVIOUS
<1>4. CASE e # m.into /\ e # m.entity
  <2>1. \A type, i : i \in OwnedIn(items', type, e) =>
            i \in OwnedIn(items, type, e) /\ items'[i].body = items[i].body
    BY <1>4, MergeSpares
  <2>2. /\ \A i, j \in OwnedIn(items', "treatment", e) : i = j
        /\ \A i, j \in OwnedIn(items', "pattern", e) : items'[i].body.gl = items'[j].body.gl
    BY <1>2, <2>1
  <2> QED  BY <1>1, <2>2, AgreeIs
<1>5. CASE e = m.entity
  <2>1. ASSUME NEW type \in {"treatment", "pattern"}, NEW i \in OwnedIn(items', type, e)
        PROVE  FALSE
    <3>1. e # m.into
      BY <1>5 DEF Imaged
    <3>2. i \in OwnedIn(items, type, e) /\ i \notin MovedBy(m) /\ i \notin ForgottenBy(m)
      BY <2>1, <3>1, MergeSpares
    <3>3. <<i, items[i].body>> \in Knowledge(m.image, m.entity)
      <4>1. <<i, items[i].body>> \in Knowledge(items, e)
        BY <2>1, <3>2 DEF Knowledge
      <4> QED  BY <4>1, <1>3, <1>5
    <3>4. i \in OwnedIn(m.image, "treatment", m.entity)
            \/ i \in OwnedIn(m.image, "pattern", m.entity)
      BY <3>3 DEF Knowledge
    <3> QED  BY <3>2, <3>4, MergedAway DEF About
  <2>2. /\ \A i, j \in OwnedIn(items', "treatment", e) : i = j
        /\ \A i, j \in OwnedIn(items', "pattern", e) : items'[i].body.gl = items'[j].body.gl
    BY <2>1
  <2> QED  BY <1>1, <2>2, AgreeIs
<1>6. CASE e = m.into
  <2> DEFINE S(type) == OwnedIn(m.image, type, m.entity)
             T(type) == OwnedIn(m.image, type, m.into)
  <2>1. ASSUME NEW type \in {"treatment", "pattern"}, NEW i \in OwnedIn(items', type, e)
        PROVE  /\ i \in S(type) \/ i \in T(type)
               /\ i \notin ForgottenBy(m) /\ items'[i].body.gl = m.image[i].body.gl
    BY <1>3, <1>6, <2>1, MergeJoins
  <2>2. ASSUME NEW f \in {m.entity, m.into}
        PROVE  /\ \A i, j \in OwnedIn(m.image, "treatment", f) : i = j
               /\ \A i, j \in OwnedIn(m.image, "pattern", f) :
                     m.image[i].body.gl = m.image[j].body.gl
    <3>1. m.image \in Stores /\ ~ Ambiguous(m.image, f)
      BY DEF Imaged
    <3>2. Len(m.image) \in Nat /\ DOMAIN m.image = 1..Len(m.image)
      BY <3>1, StoreType
    <3>3. IsFiniteSet(DOMAIN m.image)
      BY <3>2, FS_Interval, 1 \in Int, Len(m.image) \in Int
    <3> DEFINE P == OwnedIn(m.image, "pattern", f)
               Q == OwnedIn(m.image, "treatment", f)
               A == AccountsOf(m.image, P)
               g == [p \in P |-> m.image[p].body.gl]
    <3>4. IsFiniteSet(P) /\ IsFiniteSet(Q)
      BY <3>3, FS_Subset DEF OwnedIn, ActiveIn
    <3>5. g \in Surjection(P, A)
      BY DEF Surjection, AccountsOf
    <3>6. Cardinality(Q) \in Nat /\ Cardinality(A) \in Nat
      <4> HIDE DEF Q, P, A, g
      <4> QED  BY <3>4, <3>5, FS_Surjection, FS_CardinalityType
    <3>7. Agree(m.image, f)
      BY <3>1, <3>6 DEF Ambiguous, Agree
    <3> QED  BY <3>1, <3>7, AgreeIs
  <2>3. \A i, j \in OwnedIn(items', "treatment", e) : i = j
    <3>1. \A i \in S("treatment"), j \in T("treatment") :
              i \in ForgottenBy(m) \/ j \in ForgottenBy(m)
      BY DEF ForgottenBy, Forgotten, ForgottenTreatment
    <3>2. \A i, j \in S("treatment") : i = j
      BY <2>2
    <3>3. \A i, j \in T("treatment") : i = j
      BY <2>2
    <3> HIDE DEF S, T
    <3> QED  BY <2>1, <3>1, <3>2, <3>3
  <2>4. \A i, j \in OwnedIn(items', "pattern", e) : items'[i].body.gl = items'[j].body.gl
    <3>1. ASSUME NEW i \in S("pattern"), NEW j \in T("pattern")
          PROVE  \/ i \in ForgottenBy(m) \/ j \in ForgottenBy(m)
                 \/ m.image[i].body.gl = m.image[j].body.gl
      <4>1. /\ PatternsCollide(m.image, m.entity, m.into) <=> m.keep[2] # "none"
            /\ m.keep[2] \in {"none", "source", "target"}
        BY DEF Imaged
      <4>2. CASE m.keep[2] = "none"
        BY <4>1, <4>2 DEF PatternsCollide
      <4>3. CASE m.keep[2] = "source"
        BY <4>3 DEF ForgottenBy, Forgotten, ForgottenPatterns
      <4>4. CASE m.keep[2] = "target"
        BY <4>4 DEF ForgottenBy, Forgotten, ForgottenPatterns
      <4> QED  BY <4>1, <4>2, <4>3, <4>4
    <3>2. \A i, j \in S("pattern") : m.image[i].body.gl = m.image[j].body.gl
      BY <2>2
    <3>3. \A i, j \in T("pattern") : m.image[i].body.gl = m.image[j].body.gl
      BY <2>2
    <3> HIDE DEF S, T
    <3> QED  BY <2>1, <3>1, <3>2, <3>3
  <2> QED  BY <1>1, <2>3, <2>4, AgreeIs
<1> QED  BY <1>4, <1>5, <1>6

LEMMA CommitKeeps ==
    ASSUME IInv, NEW c \in Calls, Commit(c)
    PROVE  IInv'
<1>1. PICK m : m = call[c]
  OBVIOUS
<1>2. /\ Imaged(m) /\ DOMAIN m = Fields /\ m.op = "merge" /\ m.pc = "commit"
      /\ items' = Merged(m)
      /\ heir' = Heirs(m)
      /\ stale' = IF \A e \in {m.entity, m.into} : Knowledge(items, e) = Knowledge(m.image, e)
                  THEN stale ELSE stale \union {m.entity, m.into}
      /\ strays' = strays
      /\ call'[c] = Goto(m, "done") /\ Others(c)
  BY <1>1, CommitIs DEF Heirs
<1>3. stale' \subseteq Entities
  BY <1>2 DEF IInv, StoreOK, Imaged
<1>4. StoreOK' /\ Related(items, heir)' /\ Lasting' /\ Lasts /\ MergeLosesNothing' /\ OneVoice'
  BY <1>2, <1>3, MergeTypes, MergeLasts, MergeMoves, MergeAgrees
<1>5. PICK n : n = Goto(m, "done")
  OBVIOUS
<1>6. DOMAIN n = Fields /\ n.op = "merge" /\ n.pc = "done" /\ call'[c] = n
  BY <1>2, <1>5, GoneTo
<1>7. Knows(call[c])' /\ Answers(c)' /\ ~ At(c, "merge", "commit")'
  BY <1>6 DEF Knows, Answers, Answered, At
<1>8. CallsKnow' /\ ContradictionsAreRecorded'
  BY <1>2, <1>4, <1>7, CallsKeep, AnswersKeep DEF IInv
<1>9. Trusts(c)
  <2>1. /\ Ids' = Ids
        /\ \A i \in Ids : items'[i].conf = items[i].conf /\ items'[i].late = items[i].late
    BY <1>2, MergedItems
  <2>2. \A k, i : ~ WillDegrade(c, k, i)
    BY <1>1, <1>2 DEF WillDegrade
  <2>3. Active("conflict")' \subseteq Ids'
    BY DEF Active, ActiveIn, Ids
  <2> QED  BY <2>1, <2>2, <2>3 DEF Trusts
<1>10. ContestedIsNotCertain'
  BY <1>2, <1>4, <1>9, ContestedKeeps DEF IInv
<1>11. \A d \in Calls : ~ At(d, "merge", "commit")'
  <2>1. \A d \in Calls : At(d, "merge", "commit") => d = c
    BY <1>1, <1>2 DEF IInv, MergesApart, At
  <2> QED  BY <1>2, <1>7, <2>1 DEF Others, At
<1>12. MergesApart'
  BY <1>11 DEF MergesApart
<1> QED  BY <1>4, <1>8, <1>10, <1>12 DEF IInv

LEMMA EditAliasKeeps ==
    ASSUME IInv, NEW c \in Calls, NEW t \in Shared, NEW e \in Entities \union {Nobody},
           EditAlias(c, t, e)
    PROVE  IInv'
<1> DEFINE n == [Idle EXCEPT !.op = "alias", !.pc = "done"]
<1>1. DOMAIN n = Fields /\ n.op = "alias" /\ n.pc = "done"
  BY DEF Idle, Fields
<1>2. Goes(c, n) /\ call[c].pc = "idle" /\ UNCHANGED <<items, heir, stale, strays>>
  BY DEF EditAlias, NoMark
<1> HIDE DEF n
<1>3. Knows(n) /\ Answered(n)
  BY <1>1 DEF Knows, Answered
<1>4. \A i, k : ~ WillDegrade(c, k, i)
  BY <1>2 DEF WillDegrade
<1> QED  BY <1>1, <1>2, <1>3, <1>4, ReadingKeeps

(***************************************************************************)
(* The invariant.                                                          *)
(***************************************************************************)
LEMMA IInvInit == Init => IInv
<1> SUFFICES ASSUME Init PROVE IInv
  OBVIOUS
<1>1. PICK s \in Starts, spent \in SUBSET Calls :
          /\ items = s.store
          /\ call = [c \in Calls |-> IF c \in spent THEN [Idle EXCEPT !.pc = "done"] ELSE Idle]
  BY DEF Init
<1>2. heir = [e \in Entities |-> e] /\ stale = {} /\ strays = {}
  BY DEF Init
<1>3. /\ items \in Stores
      /\ \A i \in Ids :
            /\ items[i].active /\ items[i].late \subseteq Ids /\ Refers(items, i)
            /\ items[i].conf = "certain" => Pending(i) = {}
      /\ \A e \in Entities : Agree(items, e)
      /\ Related(items, heir)
  BY <1>1, <1>2, KnowledgeAssumption DEF Ids, Pending, Questioning, Resolved
<1>4. StoreOK
  BY <1>2, <1>3 DEF StoreOK
<1>5. \A c \in Calls :
          DOMAIN call[c] = Fields /\ call[c].op = "none" /\ call[c].pc \in {"idle", "done"}
  BY <1>1 DEF Idle, Fields
<1>6. CallsKnow /\ MergesApart /\ ContradictionsAreRecorded
  BY <1>1, <1>5 DEF CallsKnow, Knows, MergesApart, At, ContradictionsAreRecorded
<1>7. Lasting /\ OneVoice /\ ContestedIsNotCertain
  BY <1>2, <1>3 DEF Lasting, OneVoice, ContestedIsNotCertain
<1>8. MergeLosesNothing
  BY <1>2, <1>4, BodyType, StoreType DEF MergeLosesNothing, StoreOK, Ids
<1> QED  BY <1>3, <1>4, <1>6, <1>7, <1>8 DEF IInv

LEMMA IInvStep == IInv /\ Named /\ [Next]_vars => IInv'
<1> SUFFICES ASSUME IInv, Named, [Next]_vars PROVE IInv'
  OBVIOUS
<1>1. CASE UNCHANGED vars
  <2>1. UNCHANGED <<items, heir, call, stale, strays>>
    BY <1>1 DEF vars
  <2>2. StoreOK' /\ Related(items, heir)' /\ Lasting' /\ OneVoice' /\ MergeLosesNothing'
    BY <2>1 DEF IInv, StoreOK, Lasting, OneVoice, MergeLosesNothing, HeldByHeir, Active, Ids
  <2>3. Lasts
    BY <2>1, Numbered DEF Lasts, IInv, Ids, StoreOK
  <2>4. CallsKnow'
    BY <2>1, <2>3, KnowsLasts DEF IInv, CallsKnow
  <2>5. MergesApart'
    BY <2>1 DEF IInv, MergesApart, Imaged, HeldIn, At, Ids
  <2>6. ContradictionsAreRecorded'
    BY <2>1 DEF IInv, ContradictionsAreRecorded, At, Contradicts, Gl, Segs, Active
  <2>7. ContestedIsNotCertain'
    BY <2>1 DEF IInv, ContestedIsNotCertain, Pending, Questioning, Resolved, WillDegrade, Ids
  <2> QED  BY <2>2, <2>4, <2>5, <2>6, <2>7 DEF IInv
<1>2. ASSUME NEW c \in Calls, Learning(c) PROVE IInv'
  BY <1>2, StartLearnKeeps, ReadTreatmentKeeps, CreateTreatmentKeeps, UpdateTreatmentKeeps,
     ReadResolutionsKeeps, ReadPendingKeeps, PromoteKeeps, ObserveKeeps, ReadPatternsKeeps,
     ReadEvidenceKeeps, DetectKeeps, ReadConflictsKeeps, PersistConflictKeeps, SettleKeeps,
     LoadTargetsKeeps, DegradeKeeps DEF Learning
<1>3. ASSUME NEW c \in Calls, Authorising(c) PROVE IInv'
  BY <1>3, StartDiscoveryKeeps, RecordCandidateKeeps, EndDiscoveryKeeps, DiscoverGroupKeeps,
     StartAuthoriseKeeps, ReadAuthorisedKeeps, RecordPatternKeeps DEF Authorising
<1>4. ASSUME NEW c \in Calls, Resolving(c) PROVE IInv'
  BY <1>4, StartResolveKeeps, RecordResolutionKeeps, StartRehabilitateKeeps,
     CheckResolvedKeeps, CheckPendingKeeps, RehabilitateKeeps, RecordRehabilitationKeeps
     DEF Resolving
<1>5. ASSUME NEW c \in Calls, Merging(c) PROVE IInv'
  BY <1>5, StartMergeKeeps, CommitKeeps, EditAliasKeeps DEF Merging
<1> QED  BY <1>1, <1>2, <1>3, <1>4, <1>5 DEF Next

\* A description names an active entity: a merge gives the names of the source to the
\* target, and no alias is given to an entity merged away.
LEMMA NamedInit == Init => Named
  BY KnowledgeAssumption DEF Init, Named

LEMMA NamedStep == IInv /\ Named /\ [Next]_vars => Named'
<1> SUFFICES ASSUME IInv, Named, [Next]_vars PROVE Named'
  OBVIOUS
<1>1. CASE UNCHANGED <<payee, heir>>
  BY <1>1 DEF Named
<1>2. ASSUME NEW c \in Calls, NEW t \in Shared, NEW e \in Entities \union {Nobody},
             EditAlias(c, t, e)
      PROVE  Named'
  <2>1. /\ payee' = [payee EXCEPT ![t] = e] /\ heir' = heir
        /\ e # Nobody => heir[e] = e
    BY <1>2 DEF EditAlias
  <2> QED  BY <2>1 DEF Named
<1>3. ASSUME NEW c \in Calls, Commit(c) PROVE Named'
  <2>1. PICK m : m = call[c]
    OBVIOUS
  <2>2. Imaged(m) /\ heir' = Heirs(m)
    BY <1>3, <2>1, CommitIs DEF Heirs
  <2>3. payee' = [d \in Described |-> IF payee[d] = m.entity THEN m.into ELSE payee[d]]
    BY <1>3, <2>1 DEF Commit
  <2>4. /\ m.into \in Entities /\ heir'[m.into] = m.into
        /\ \A e \in Entities : heir[e] = e /\ e # m.entity => heir'[e] = e
    BY <2>2, MergedHeirs
  <2> QED  BY <2>3, <2>4 DEF Named
<1>4. CASE UNCHANGED vars
  BY <1>1, <1>4 DEF vars
<1>5. ASSUME NEW c \in Calls, Learning(c) \/ Authorising(c) \/ Resolving(c) PROVE Named'
  <2>1. UNCHANGED <<payee, heir>>
    <3>1. CASE Learning(c)
      BY <3>1 DEF Learning, StartLearn, ReadTreatment, CreateTreatment, UpdateTreatment,
         ReadResolutions, ReadPending, Promote, Observe, ReadPatterns, ReadEvidence, Detect,
         ReadConflicts, PersistConflict, Settle, LoadTargets, Degrade
    <3>2. CASE Authorising(c)
      BY <3>2 DEF Authorising, StartDiscovery, RecordCandidate, EndDiscovery, DiscoverGroup,
         StartAuthorise, ReadAuthorised, RecordPattern
    <3>3. CASE Resolving(c)
      BY <3>3 DEF Resolving, StartResolve, RecordResolution, StartRehabilitate, CheckResolved,
         CheckPending, Rehabilitate, RecordRehabilitation
    <3> QED  BY <1>5, <3>1, <3>2, <3>3
  <2> QED  BY <1>1, <2>1
<1>6. ASSUME NEW c \in Calls, Merging(c) PROVE Named'
  <2>1. ASSUME NEW s \in Entities, NEW t \in Entities,
               NEW ct \in {"none", "source", "target"}, NEW cp \in {"none", "source", "target"},
               StartMerge(c, s, t, ct, cp)
        PROVE  Named'
    BY <1>1, <2>1 DEF StartMerge
  <2> QED  BY <1>2, <1>3, <1>6, <2>1 DEF Merging
<1> QED  BY <1>4, <1>5, <1>6 DEF Next

(* Whatever corrections, authorisations, resolutions, rehabilitations and  *)
(* merges interleave, the store is one of items that refer to earlier      *)
(* items, a pattern keeps applying to all it was generalised from          *)
(* (discoverStructuralCandidate, authorizeStructuralCandidate), and nobody *)
(* is merged into an entity that has been merged away; descriptions name   *)
(* active entities, whatever aliases people edit.                          *)
THEOREM KnowledgeIsWellFormed == Spec => []TypeOK
<1>1. IInv /\ Named => TypeOK
  BY DEF IInv, TypeOK
<1> QED  BY <1>1, IInvInit, IInvStep, NamedInit, NamedStep, PTL DEF Spec

(* An entity that nobody has written for upon an outdated reading has at   *)
(* most one treatment, and its patterns name one account: a merge of two   *)
(* such entities leaves one.  lookupTreatment and matchAuthorizedPattern   *)
(* then find an answer.                                                    *)
THEOREM EntitiesHaveOneVoice == Spec => []OneVoice
<1>1. IInv => OneVoice
  BY DEF IInv
<1> QED  BY <1>1, IInvInit, IInvStep, NamedInit, NamedStep, PTL DEF Spec

(* What a pending conflict questions is not certain, but while the         *)
(* correction that found the conflict is about to degrade it, or when the  *)
(* reading on which promoteConfirmedTreatment or                           *)
(* rehabilitateClassificationKnowledge granted certainty is older than the *)
(* conflict: those readings miss nothing else.                             *)
THEOREM ContestedKnowledgeIsUncertain == Spec => []ContestedIsNotCertain
<1>1. IInv => ContestedIsNotCertain
  BY DEF IInv
<1> QED  BY <1>1, IInvInit, IInvStep, NamedInit, NamedStep, PTL DEF Spec

(* merge, of the entity service, loses nothing it could have read: what is  *)
(* still about an entity merged away is an observation that transferItem    *)
(* skipped and the heir holds with the same content, through whatever       *)
(* merges follow, or was written during the merge or after.                 *)
THEOREM MergesLoseNothing == Spec => []MergeLosesNothing
<1>1. IInv => MergeLosesNothing
  BY DEF IInv
<1> QED  BY <1>1, IInvInit, IInvStep, NamedInit, NamedStep, PTL DEF Spec

(* A correction that contradicts a pattern detectConflictingPattern showed *)
(* it does not end before a conflict of such a pattern is on record,       *)
(* whatever the other calls record, resolve or merge meanwhile, unless the *)
(* entity itself has been merged away.                                     *)
THEOREM ContradictionsAreKept == Spec => []ContradictionsAreRecorded
<1>1. IInv => ContradictionsAreRecorded
  BY DEF IInv
<1> QED  BY <1>1, IInvInit, IInvStep, NamedInit, NamedStep, PTL DEF Spec
===============================================================================
