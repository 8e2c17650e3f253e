------------------------ MODULE LearnedKnowledgeProps ------------------------
(***************************************************************************)
(* What the learned knowledge promises while corrections, authorisations,  *)
(* resolutions, rehabilitations and merges interleave.                     *)
(***************************************************************************)
EXTENDS LearnedKnowledge

StoreOK ==
    /\ items \in Stores
    /\ \A i \in Ids : items[i].late \subseteq Ids /\ Refers(items, i)
    /\ heir \in [Entities -> Entities] /\ \A e \in Entities : heir[heir[e]] = heir[e]
    /\ stale \subseteq Entities /\ strays \subseteq Ids

Named ==
    /\ payee \in [Described -> Entities \union {Nobody}]
    /\ \A t \in Described : payee[t] # Nobody => heir[payee[t]] = payee[t]

(* The store is a sequence of items of the known types, whose references   *)
(* are to earlier items; an authorised pattern applies to every observation *)
(* it was generalised from, each made for its account, whatever was merged *)
(* since; every entity has an heir nobody has merged away, and a           *)
(* description names such an entity or nobody.                             *)
TypeOK == StoreOK /\ Named

(* An entity has one treatment, and its authorised patterns agree on one   *)
(* account, unless somebody wrote one upon a reading that no longer held:  *)
(* lookupTreatment and matchAuthorizedPattern then answer with an error,   *)
(* and learnEntityTreatment refuses every later correction.                *)
OneVoice == \A e \in Entities \ stale : Agree(items, e)

\* A correction that is about to degrade item i for the conflict k.
WillDegrade(c, k, i) ==
    /\ call[c].op = "learn" /\ call[c].conflict = k
    /\ \/ call[c].pc \in {"settle", "load"}
       \/ call[c].pc = "degrade" /\ i \in call[c].todo

(* Knowledge that a pending conflict questions is not certain, but while   *)
(* the correction that has found the conflict still has to degrade it, or  *)
(* when it was granted on a reading older than the conflict: the comment   *)
(* in promoteConfirmedTreatment, with its two exact exceptions.            *)
ContestedIsNotCertain ==
    \A i \in Ids : items[i].conf = "certain" =>
        \A k \in Pending(i) :
            k \in items[i].late \/ \E c \in Calls : WillDegrade(c, k, i)

\* An observation that the entity's heir holds with the same content.
HeldByHeir(i) ==
    /\ items[i].body.type = "observation"
    /\ \E j \in Active("observation") :
        items[j].body = [items[i].body EXCEPT !.entity = heir[items[i].body.entity]]

(* A merge loses nothing: what stays active under an entity merged away is *)
(* an observation its heir holds with the same content (the duplicate that *)
(* transferItem skips), or was written for that entity while the merge was *)
(* under way or after.                                                     *)
MergeLosesNothing ==
    \A i \in Ids :
        items[i].active /\ items[i].body.type \in About =>
            \/ heir[items[i].body.entity] = items[i].body.entity
            \/ HeldByHeir(i) \/ i \in strays

(* A correction that contradicts a pattern it could see does not end       *)
(* before a conflict of one of those patterns is on record, unless a merge *)
(* has moved the observation away between two of its readings.             *)
ContradictionsAreRecorded ==
    \A c \in Calls :
        /\ At(c, "learn", "done") /\ heir[call[c].entity] = call[c].entity
        /\ \E p \in call[c].pats : Contradicts(call[c].item, p)
        => \E k \in Active("conflict") : items[k].body.pats \intersect call[c].pats # {}
===============================================================================
