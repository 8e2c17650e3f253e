--------------------------- MODULE LearnedKnowledge ---------------------------
(***************************************************************************)
(* What the classifier learns from corrections.  Every piece is one item   *)
(* of the memory store, and every call works by separate statements, with  *)
(* no lock: a correction learns the treatment of its entity, confirms it,  *)
(* records the observation, looks for a conflict with an authorised        *)
(* pattern and degrades what the conflict implicates; people authorise     *)
(* candidates, resolve conflicts, rehabilitate knowledge, merge entities.  *)
(*                                                                         *)
(* Items are numbered in the order of their creation.  All callers use the *)
(* direction 'any', so directions always agree and are left out.  A call   *)
(* the process loses is one that takes no further step.                    *)
(***************************************************************************)
EXTENDS StructuralPatterns, FiniteSetsExt

CONSTANTS
    Calls,    \* requests in flight; each carries out one operation
    Entities, \* the counterparties the company knows
    Accounts, \* the ledger accounts
    Txs,      \* the bank transactions people correct
    Text,     \* the description of each transaction
    Payee,    \* the entity each description names at first
    Shared,   \* the descriptions whose entity people may change
    Starts    \* the stores to begin with, and how many calls have ended by then

VARIABLES
    items,   \* the memory store
    heir,    \* the entity each entity has been merged into: itself at first
    payee,   \* the active entity each description names, if it names one
    call,    \* where each call stands, and what it has read
    stale,   \* history: entities written upon a reading that no longer held
    strays   \* history: items written for an entity merged away meanwhile

vars == <<items, heir, payee, call, stale, strays>>

Ids == DOMAIN items
None == [type |-> "none"]
Nobody == "nobody"

Treatment(e, g) == [type |-> "treatment", entity |-> e, gl |-> g]

Observation(e, t, g) == [type |-> "observation", entity |-> e, tx |-> t, gl |-> g]

Candidate(e, g, s, obs) ==
    [type |-> "candidate", entity |-> e, gl |-> g, segs |-> s, obs |-> obs]
Pattern(b, from) ==
    [type |-> "pattern", entity |-> b.entity, gl |-> b.gl, segs |-> b.segs,
     obs |-> b.obs, from |-> from]

Conflict(e, kind, pats, g, obs, exact) ==
    [type |-> "conflict", entity |-> e, kind |-> kind, pats |-> pats, gl |-> g,
     obs |-> obs, exact |-> exact]

Resolution(k) == [type |-> "resolution", conflict |-> k]

Rehabilitation(i, k) == [type |-> "rehabilitation", item |-> i, conflict |-> k]

About == {"treatment", "observation", "candidate", "pattern"} \* items about an entity

IsActive(store, i, type) == store[i].active /\ store[i].body.type = type

ActiveIn(store, type) == {i \in DOMAIN store : IsActive(store, i, type)}

Active(type) == ActiveIn(items, type)

OwnedIn(store, type, e) == {i \in ActiveIn(store, type) : store[i].body.entity = e}

Owned(type, e) == OwnedIn(items, type, e)

\* The conflicts somebody has resolved, and the items a conflict questions.
ResolvedIn(store) == {store[r].body.conflict : r \in ActiveIn(store, "resolution")}
Resolved == ResolvedIn(items)

Implicated(b) == b.pats \union IF b.kind = "exact" THEN b.exact ELSE {}

QuestioningIn(store, i, cleared) ==
    {k \in ActiveIn(store, "conflict") \ cleared : i \in Implicated(store[k].body)}

Questioning(i, cleared) == QuestioningIn(items, i, cleared)

Pending(i) == Questioning(i, Resolved)

AccountsOf(store, pats) == {store[p].body.gl : p \in pats}

Item(body, conf) == [body |-> body, conf |-> conf, active |-> TRUE, late |-> {}]
Recorded(body, conf) == items' = Append(items, Item(body, conf))
NextId == Len(items) + 1

(***************************************************************************)
(* A store: the contents of its items, and what they say of each other.    *)
(***************************************************************************)
Levels == {"tentative", "certain", "uncertain"}
Described == DOMAIN Text

Treatments == [type : {"treatment"}, entity : Entities, gl : Accounts]
Observations == [type : {"observation"}, entity : Entities, tx : Described, gl : Accounts]
Candidates == [type : {"candidate"}, entity : Entities, gl : Accounts, segs : Structures,
               obs : SUBSET Nat]
Patterns == [type : {"pattern"}, entity : Entities, gl : Accounts, segs : Structures,
             obs : SUBSET Nat, from : Nat]
Conflicts == [type : {"conflict"}, entity : Entities, kind : {"authorised", "observed", "exact"},
              pats : SUBSET Nat, gl : Accounts, obs : SUBSET Nat, exact : SUBSET Nat]
Resolutions == [type : {"resolution"}, conflict : Nat]
Rehabilitations == [type : {"rehabilitation"}, item : Nat, conflict : Nat]

Bodies == Treatments \union Observations \union Candidates \union Patterns \union Conflicts
          \union Resolutions \union Rehabilitations

Stores == Seq([body : Bodies, conf : Levels, active : BOOLEAN, late : SUBSET Nat])

\* The items of a type before the i-th.
Earlier(store, type, i) == {j \in 1..(i - 1) : store[j].body.type = type}

\* Observations of one account, to all of which the segments apply.
Evidenced(store, b) ==
    /\ Cardinality(b.obs) > 1
    /\ \A o \in b.obs :
        store[o].body.gl = b.gl /\ Matches(Text[store[o].body.tx], b.segs)

\* An item refers to earlier ones; a pattern has its evidence.
Refers(store, i) ==
    LET b == store[i].body
    IN  /\ b.type \in {"candidate", "pattern"} =>
              b.obs \subseteq Earlier(store, "observation", i) /\ Evidenced(store, b)
        /\ b.type = "pattern" => b.from \in Earlier(store, "candidate", i)
        /\ b.type = "conflict" =>
              /\ b.pats \subseteq Earlier(store, "pattern", i)
              /\ b.exact \subseteq Earlier(store, "treatment", i)
              /\ b.obs \subseteq Earlier(store, "observation", i)
        /\ b.type = "resolution" => b.conflict \in Earlier(store, "conflict", i)

\* The treatments of an entity are one, and its patterns agree on an account.
Agree(store, e) ==
    /\ Cardinality(OwnedIn(store, "treatment", e)) < 2
    /\ Cardinality(AccountsOf(store, OwnedIn(store, "pattern", e))) < 2

\* What is generalised has been observed of the same entity, or of one that has
\* been merged into it.
Related(store, h) ==
    \A i \in DOMAIN store :
        LET b == store[i].body
        IN  b.type \in {"candidate", "pattern"} =>
                \A o \in b.obs : h[store[o].body.entity] = h[b.entity]

(* Descriptions name an entity.  A store to begin with is what calls that  *)
(* have ended leave when nothing raced and nothing was merged.             *)
ASSUME KnowledgeAssumption ==
    /\ \A t \in Described : Text[t] \in Descriptions
    /\ Payee \in [Described -> Entities] /\ Nobody \notin Entities
    /\ Txs \subseteq Described /\ Shared \subseteq Described
    /\ \A s \in Starts :
        /\ s.store \in Stores
        /\ \A i \in DOMAIN s.store :
            /\ s.store[i].active /\ s.store[i].late \subseteq DOMAIN s.store
            /\ Refers(s.store, i)
            /\ s.store[i].conf = "certain" =>
                  QuestioningIn(s.store, i, ResolvedIn(s.store)) = {}
        /\ \A e \in Entities : Agree(s.store, e)
        /\ Related(s.store, [e \in Entities |-> e])

(***************************************************************************)
(* Calls.                                                                  *)
(***************************************************************************)
Idle == [op |-> "none", pc |-> "idle", tx |-> "none", gl |-> "none", entity |-> "none",
         into |-> "none", keep |-> <<"none", "none">>, item |-> 0, conflict |-> 0, asOf |-> 0,
         conf |-> "none", saw |-> {}, cleared |-> {}, pats |-> {}, evidence |-> {},
         todo |-> {}, groups |-> {}, body |-> None, image |-> <<>>]

Init ==
    /\ \E s \in Starts, spent \in SUBSET Calls :
        /\ Cardinality(spent) = s.spent
        /\ items = s.store
        /\ call = [c \in Calls |-> IF c \in spent THEN [Idle EXCEPT !.pc = "done"] ELSE Idle]
    /\ heir = [e \in Entities |-> e] /\ payee = Payee
    /\ stale = {} /\ strays = {}

At(c, op, pc) == call[c].op = op /\ call[c].pc = pc
Goes(c, m) == call' = [call EXCEPT ![c] = m]

\* A call that has ended keeps what it was about, and forgets its readings.
Ended(m) == [Idle EXCEPT !.op = m.op, !.pc = "done", !.entity = m.entity,
                         !.item = m.item, !.pats = m.pats]

Goto(m, pc) == IF pc = "done" THEN Ended(m) ELSE [m EXCEPT !.pc = pc]
To(c, pc) == Goes(c, Goto(call[c], pc))
Ends(c) == To(c, "done")

NoMark == UNCHANGED <<stale, strays>>

\* A write for e by a call that saw these items of e, marked for the history.
MarkStale(type, e, saw) ==
    stale' = IF Owned(type, e) = saw THEN stale ELSE stale \union {e}

BeingMerged(e) == heir[e] # e \/ \E c \in Calls : At(c, "merge", "commit") /\ call[c].entity = e

MarkStray(i, e) == strays' = IF BeingMerged(e) THEN strays \union {i} ELSE strays

(***************************************************************************)
(* A correction.                                                           *)
(***************************************************************************)
\* resolveEntity: the active entity with this alias; without one nothing is learned.
StartLearn(c, t, g) ==
    /\ call[c].pc = "idle" /\ payee[t] # Nobody
    /\ Goes(c, [Idle EXCEPT !.op = "learn", !.pc = "read", !.tx = t, !.gl = g,
                            !.entity = payee[t]])
    /\ UNCHANGED <<items, heir, payee>> /\ NoMark

DecisionTwice(saw, g) ==
    IF saw = {} THEN "create"
    ELSE IF \A i \in saw : items[i].body.gl = g THEN "gate" ELSE "create"

\* learnEntityTreatment: several active treatments are an error, one is kept
\* or overwritten, none is created.
Decision(saw, g) ==
    IF saw = {} THEN "create"
    ELSE IF Cardinality(saw) > 1 THEN "observe"
    ELSE IF \A i \in saw : items[i].body.gl = g THEN "gate" ELSE "update"

ReadTreatment(c) ==
    LET m == call[c]
        saw == Owned("treatment", m.entity)
    IN  /\ At(c, "learn", "read")
        /\ Goes(c, [m EXCEPT !.pc = Decision(saw, m.gl), !.saw = saw,
                             !.item = IF Cardinality(saw) = 1 THEN Max(saw) ELSE 0])
        /\ UNCHANGED <<items, heir, payee>> /\ NoMark

CreateTreatment(c) ==
    LET m == call[c]
    IN  /\ At(c, "learn", "create")
        /\ Recorded(Treatment(m.entity, m.gl), "tentative")
        /\ Goes(c, [m EXCEPT !.pc = "gate", !.item = NextId])
        /\ MarkStale("treatment", m.entity, m.saw)
        /\ MarkStray(NextId, m.entity)
        /\ UNCHANGED <<heir, payee>>

\* The whole content is replaced, the entity it was learned for included.
UpdateTreatment(c) ==
    LET m == call[c]
    IN  /\ At(c, "learn", "update")
        /\ items' = [items EXCEPT ![m.item].body = Treatment(m.entity, m.gl)]
        /\ To(c, "gate")
        /\ MarkStale("treatment", m.entity, m.saw)
        /\ MarkStray(m.item, m.entity)
        /\ UNCHANGED <<heir, payee>>

\* promoteConfirmedTreatment: the resolutions, then the conflicts, then the
\* confidence, each by a statement of its own.
ReadResolutions(c) ==
    /\ At(c, "learn", "gate")
    /\ Goes(c, [call[c] EXCEPT !.pc = "pending", !.cleared = Resolved])
    /\ UNCHANGED <<items, heir, payee>> /\ NoMark

GateUnread(i, cleared) == TRUE

\* isKnowledgeImplicatedByPendingConflict.
Unquestioned(i, cleared) == Questioning(i, cleared) = {}

ReadPending(c) ==
    /\ At(c, "learn", "pending")
    /\ Goes(c, [call[c] EXCEPT !.saw = {}, !.cleared = {}, !.asOf = Len(items),
           !.pc = IF Unquestioned(call[c].item, call[c].cleared) THEN "promote" ELSE "observe"])
    /\ UNCHANGED <<items, heir, payee>> /\ NoMark

\* evolveClassificationConfidence to 'certain': late keeps the conflicts that
\* have come after the reading the grant relies on.
Trusted(i, asOf) ==
    IF items[i].conf = "certain" THEN items
    ELSE [items EXCEPT ![i].conf = "certain", ![i].late = {k \in Pending(i) : k > asOf}]

Promote(c) ==
    /\ At(c, "learn", "promote")
    /\ items' = Trusted(call[c].item, call[c].asOf)
    /\ Goes(c, [call[c] EXCEPT !.pc = "observe", !.asOf = 0])
    /\ UNCHANGED <<heir, payee>> /\ NoMark

\* recordClassificationObservation: one observation for each content.
Observe(c) ==
    LET m == call[c]
        o == Observation(m.entity, m.tx, m.gl)
        same == {i \in Active("observation") : items[i].body = o}
        seen == [m EXCEPT !.pc = "patterns", !.asOf = 0, !.saw = {}, !.tx = "none", !.gl = "none"]
    IN  /\ At(c, "learn", "observe")
        /\ \/ /\ same # {}
              /\ Goes(c, [seen EXCEPT !.item = Min(same)])
              /\ UNCHANGED <<items, strays>>
           \/ /\ same = {}
              /\ Recorded(o, "tentative")
              /\ Goes(c, [seen EXCEPT !.item = NextId])
              /\ MarkStray(NextId, m.entity)
        /\ UNCHANGED <<heir, payee, stale>>

(***************************************************************************)
(* detectConflictingPattern: three readings, then the conflict, first the  *)
(* kind that comes first, over the newest items first.                     *)
(***************************************************************************)
ReadPatterns(c) ==
    LET pats == Owned("pattern", call[c].entity)
    IN  /\ At(c, "learn", "patterns")
        /\ Goes(c, Goto([call[c] EXCEPT !.pats = pats],
                        IF pats = {} THEN "done" ELSE "evidence"))
        /\ UNCHANGED <<items, heir, payee>> /\ NoMark

ReadEvidence(c) ==
    /\ At(c, "learn", "evidence")
    /\ Goes(c, [call[c] EXCEPT !.pc = "exact",
                               !.evidence = Owned("observation", call[c].entity)])
    /\ UNCHANGED <<items, heir, payee>> /\ NoMark

Gl(i) == items[i].body.gl
Segs(i) == items[i].body.segs

Overlaps(pats) ==
    {q \in pats \X pats : q[1] > q[2] /\ Gl(q[1]) # Gl(q[2]) /\ Overlap(Segs(q[1]), Segs(q[2]))}

\* An observation contradicts a pattern that applies to its text.
Contradicts(o, p) == Gl(o) # Gl(p) /\ Matches(Text[items[o].body.tx], Segs(p))

Against(p, evidence) == {o \in evidence : Contradicts(o, p)}

Authorised(e, pats) ==
    LET i == Max({q[1] : q \in Overlaps(pats)})
        j == Max({q[2] : q \in {x \in Overlaps(pats) : x[1] = i}})
    IN  Conflict(e, "authorised", {i, j}, Gl(j), {}, {})

Observed(e, pats, evidence) ==
    LET p == Max({x \in pats : Against(x, evidence) # {}})
    IN  Conflict(e, "observed", {p}, Gl(Max(Against(p, evidence))), Against(p, evidence), {})

Exact(e, pats, t) ==
    Conflict(e, "exact", {Max({x \in pats : Gl(x) # Gl(t)})}, Gl(t), {}, {t})

FoundExactOnly(e, pats, evidence, exact) ==
    IF Overlaps(pats) # {} THEN Authorised(e, pats)
    ELSE IF Cardinality(exact) = 1 /\ \E p \in pats, t \in exact : Gl(p) # Gl(t)
         THEN Exact(e, pats, Max(exact))
    ELSE None

\* Two patterns that overlap, then an observation against a pattern, then the
\* treatment against a pattern; the first pattern found decides.
Found(e, pats, evidence, exact) ==
    IF Overlaps(pats) # {} THEN Authorised(e, pats)
    ELSE IF \E p \in pats : Against(p, evidence) # {} THEN Observed(e, pats, evidence)
    ELSE IF Cardinality(exact) = 1 /\ \E p \in pats, t \in exact : Gl(p) # Gl(t)
         THEN Exact(e, pats, Max(exact))
    ELSE None

Detect(c) ==
    LET m == call[c]
        found == Found(m.entity, m.pats, m.evidence, Owned("treatment", m.entity))
    IN  /\ At(c, "learn", "exact")
        /\ Goes(c, Goto([m EXCEPT !.evidence = {}, !.body = found],
                        IF found = None THEN "done" ELSE "known"))
        /\ UNCHANGED <<items, heir, payee>> /\ NoMark

\* hasSameConflictIdentity: the exact treatment is no part of the identity.
Identity(b) == <<b.entity, b.kind, b.pats, b.gl, b.obs>>

Known(b) == {k \in Active("conflict") : Identity(items[k].body) = Identity(b)}

\* persistConflict: the scan of the conflicts, then the record.
ReadConflicts(c) ==
    LET m == call[c]
        same == Known(m.body)
    IN  /\ At(c, "learn", "known")
        /\ Goes(c, IF same = {} THEN [m EXCEPT !.pc = "persist"]
                   ELSE [m EXCEPT !.pc = "settle", !.conflict = Max(same), !.body = None])
        /\ UNCHANGED <<items, heir, payee>> /\ NoMark

PersistConflict(c) ==
    /\ At(c, "learn", "persist")
    /\ Recorded(call[c].body, "tentative")
    /\ Goes(c, [call[c] EXCEPT !.pc = "settle", !.conflict = NextId,
                               !.body = None])
    /\ UNCHANGED <<heir, payee>> /\ NoMark

\* degradeOnPersistedConflict: a conflict somebody has resolved degrades nothing.
Settle(c) ==
    /\ At(c, "learn", "settle")
    /\ To(c, IF call[c].conflict \in Resolved THEN "done" ELSE "load")
    /\ UNCHANGED <<items, heir, payee>> /\ NoMark

\* degradeKnowledgeOnConflict: the targets it reads, then one by one.
Targets(b) == Implicated(b)

LoadTargets(c) ==
    LET m == call[c]
        todo == {i \in Targets(items[m.conflict].body) : items[i].conf # "uncertain"}
    IN  /\ At(c, "learn", "load")
        /\ Goes(c, Goto([m EXCEPT !.todo = todo], IF todo = {} THEN "done" ELSE "degrade"))
        /\ UNCHANGED <<items, heir, payee>> /\ NoMark

Degrade(c, i) ==
    LET m == call[c]
        rest == m.todo \ {i}
    IN  /\ At(c, "learn", "degrade")
        /\ i \in m.todo
        /\ items[i].body.type = "pattern" \/ \A j \in m.todo : items[j].body.type # "pattern"
        /\ items' = [items EXCEPT ![i].conf = "uncertain", ![i].late = {}]
        /\ Goes(c, Goto([m EXCEPT !.todo = rest], IF rest = {} THEN "done" ELSE "degrade"))
        /\ UNCHANGED <<heir, payee>> /\ NoMark

(***************************************************************************)
(* Structural discovery, and the authorisation of a candidate.             *)
(***************************************************************************)
GroupsOf(obs) == {<<items[o].body.entity, Gl(o)>> : o \in obs}

StartDiscovery(c) ==
    /\ call[c].pc = "idle"
    /\ Goes(c, [Idle EXCEPT !.op = "discover", !.pc = "groups",
                            !.groups = GroupsOf(Active("observation"))])
    /\ UNCHANGED <<items, heir, payee>> /\ NoMark

GroupOfEntity(e, g) == Owned("observation", e)

\* The observations of one entity and one account.
Group(e, g) == {o \in Owned("observation", e) : Gl(o) = g}

TextsOf(obs) == {Text[items[o].body.tx] : o \in obs}

\* discoverStructuralCandidate.
IsCandidate(obs) ==
    /\ Cardinality(obs) > 1
    /\ SameLength(TextsOf(obs))
    /\ HasStable(Generalised(TextsOf(obs)))

DiscoverGroup(c, g) ==
    LET m == call[c]
        obs == Group(g[1], g[2])
        rest == m.groups \ {g}
        body == Candidate(g[1], g[2], Generalised(TextsOf(obs)), obs)
    IN  /\ At(c, "discover", "groups")
        /\ g \in m.groups
        /\ Goes(c, IF IsCandidate(obs)
                   THEN [m EXCEPT !.pc = "record", !.groups = rest, !.body = body]
                   ELSE [m EXCEPT !.groups = rest])
        /\ UNCHANGED <<items, heir, payee>> /\ NoMark

\* recordStructuralCandidate: one candidate for each content.
RecordCandidate(c) ==
    LET m == call[c]
    IN  /\ At(c, "discover", "record")
        /\ IF \E i \in Active("candidate") : items[i].body = m.body
           THEN UNCHANGED <<items, strays>>
           ELSE Recorded(m.body, "tentative") /\ MarkStray(NextId, m.body.entity)
        /\ Goes(c, [m EXCEPT !.pc = "groups", !.body = None])
        /\ UNCHANGED <<heir, payee, stale>>

EndDiscovery(c) ==
    /\ At(c, "discover", "groups") /\ call[c].groups = {}
    /\ Ends(c)
    /\ UNCHANGED <<items, heir, payee>> /\ NoMark

\* authorizeStructuralCandidate reads the candidate, then the patterns.
StartAuthorise(c, k) ==
    /\ call[c].pc = "idle"
    /\ k \in Ids /\ items[k].body.type = "candidate"
    /\ Goes(c, [Idle EXCEPT !.op = "authorise", !.pc = "read", !.item = k,
                            !.entity = items[k].body.entity, !.body = items[k].body])
    /\ UNCHANGED <<items, heir, payee>> /\ NoMark

\* Not authorised before, and no other account for the entity.
MayAuthorise(b, k) ==
    /\ \A p \in Active("pattern") : items[p].body.from # k
    /\ \A p \in Owned("pattern", b.entity) : Gl(p) = b.gl

ReadAuthorised(c) ==
    LET m == call[c]
    IN  /\ At(c, "authorise", "read")
        /\ Goes(c, Goto([m EXCEPT !.saw = Owned("pattern", m.entity)],
                        IF MayAuthorise(m.body, m.item) THEN "record" ELSE "done"))
        /\ UNCHANGED <<items, heir, payee>> /\ NoMark

RecordPattern(c) ==
    LET m == call[c]
    IN  /\ At(c, "authorise", "record")
        /\ Recorded(Pattern(m.body, m.item), "certain")
        /\ Ends(c)
        /\ MarkStale("pattern", m.entity, m.saw)
        /\ MarkStray(NextId, m.entity)
        /\ UNCHANGED <<heir, payee>>

(***************************************************************************)
(* The resolution of a conflict, and the rehabilitation of an item.        *)
(***************************************************************************)
StartResolve(c, k) ==
    /\ call[c].pc = "idle"
    /\ k \in Ids /\ items[k].body.type = "conflict"
    /\ Goes(c, Goto([Idle EXCEPT !.op = "resolve", !.conflict = k],
                    IF k \in Resolved THEN "done" ELSE "record"))
    /\ UNCHANGED <<items, heir, payee>> /\ NoMark

RecordResolution(c) ==
    /\ At(c, "resolve", "record")
    /\ Recorded(Resolution(call[c].conflict), "certain")
    /\ Ends(c)
    /\ UNCHANGED <<heir, payee>> /\ NoMark

\* rehabilitateClassificationKnowledge: the conflict and the item come first.
StartRehabilitate(c, k, i) ==
    /\ call[c].pc = "idle"
    /\ k \in Ids /\ items[k].body.type = "conflict"
    /\ i \in Ids /\ items[i].body.type \in {"pattern", "treatment"}
    /\ Goes(c, [Idle EXCEPT !.op = "rehabilitate", !.pc = "resolved", !.conflict = k,
                            !.item = i, !.conf = items[i].conf])
    /\ UNCHANGED <<items, heir, payee>> /\ NoMark

CheckResolved(c) ==
    LET m == call[c]
        may == /\ m.conflict \in Resolved
               /\ m.item \in Implicated(items[m.conflict].body)
               /\ m.conf = "uncertain"
    IN  /\ At(c, "rehabilitate", "resolved")
        /\ Goes(c, Goto([m EXCEPT !.cleared = Resolved], IF may THEN "pending" ELSE "done"))
        /\ UNCHANGED <<items, heir, payee>> /\ NoMark

CheckPending(c) ==
    /\ At(c, "rehabilitate", "pending")
    /\ Goes(c, Goto([call[c] EXCEPT !.asOf = Len(items)],
                    IF Unquestioned(call[c].item, call[c].cleared) THEN "evolve" ELSE "done"))
    /\ UNCHANGED <<items, heir, payee>> /\ NoMark

Rehabilitate(c) ==
    /\ At(c, "rehabilitate", "evolve")
    /\ To(c, IF items[call[c].item].conf = "certain" THEN "done" ELSE "event")
    /\ items' = Trusted(call[c].item, call[c].asOf)
    /\ UNCHANGED <<heir, payee>> /\ NoMark

RecordRehabilitation(c) ==
    /\ At(c, "rehabilitate", "event")
    /\ Recorded(Rehabilitation(call[c].item, call[c].conflict), "certain")
    /\ Ends(c)
    /\ UNCHANGED <<heir, payee>> /\ NoMark

(***************************************************************************)
(* The merge of two entities: one transaction, which reads the knowledge   *)
(* of both, writes what it has read under the target, and commits.  The    *)
(* company lock it takes is taken by the edits of aliases only.            *)
(***************************************************************************)
NoMerge == \A d \in Calls : ~ At(d, "merge", "commit")

\* An update or a rollback of an entity takes the alias from it, or gives it to
\* one when no active entity has it.
EditAlias(c, t, e) ==
    /\ call[c].pc = "idle" /\ NoMerge
    /\ \/ e = Nobody /\ payee[t] # Nobody
       \/ payee[t] = Nobody /\ e \in Entities /\ heir[e] = e
    /\ payee' = [payee EXCEPT ![t] = e]
    /\ Goes(c, [Idle EXCEPT !.op = "alias", !.pc = "done"])
    /\ UNCHANGED <<items, heir>> /\ NoMark

TreatmentsCollide(store, s, t) ==
    \E i \in OwnedIn(store, "treatment", s), j \in OwnedIn(store, "treatment", t) :
        store[i].body.gl # store[j].body.gl

PatternsCollide(store, s, t) ==
    \E i \in OwnedIn(store, "pattern", s), j \in OwnedIn(store, "pattern", t) :
        store[i].body.gl # store[j].body.gl

Ambiguous(store, e) ==
    \/ Cardinality(OwnedIn(store, "treatment", e)) > 1
    \/ Cardinality(AccountsOf(store, OwnedIn(store, "pattern", e))) > 1

\* The choices: which side keeps its treatment, and which its patterns.
StartMerge(c, s, t, ct, cp) ==
    /\ call[c].pc = "idle"
    /\ s # t /\ heir[s] = s /\ heir[t] = t
    /\ NoMerge
    /\ ~ Ambiguous(items, s) /\ ~ Ambiguous(items, t)
    /\ TreatmentsCollide(items, s, t) <=> ct # "none"
    /\ PatternsCollide(items, s, t) <=> cp # "none"
    /\ Goes(c, [Idle EXCEPT !.op = "merge", !.pc = "commit", !.entity = s, !.into = t,
                            !.keep = <<ct, cp>>, !.image = items])
    /\ UNCHANGED <<items, heir, payee>> /\ NoMark

ForgottenTreatment(store, s, t, ct) ==
    IF OwnedIn(store, "treatment", t) = {} THEN {}
    ELSE IF ct = "source" THEN OwnedIn(store, "treatment", t)
    ELSE OwnedIn(store, "treatment", s)

ForgottenPatterns(store, s, t, cp) ==
    CASE cp = "none" -> {}
      [] cp = "source" -> OwnedIn(store, "pattern", t)
      [] cp = "target" -> OwnedIn(store, "pattern", s)

Forgotten(store, s, t, ct, cp) ==
    ForgottenTreatment(store, s, t, ct) \union ForgottenPatterns(store, s, t, cp)

MovedWithoutCandidates == {"treatment", "observation", "pattern"}

MovedTypes == About

\* What a moved item becomes: the content the merge has read, under the target.
Moved(store, i, t) == [store[i].body EXCEPT !.entity = t]

\* Only a treatment is moved when its content exists under the target already;
\* anything else stays where it is, active.
IsTwin(store, i, t) ==
    /\ store[i].body.type # "treatment"
    /\ \E j \in Ids \ {i} : items[j].active /\ items[j].body = Moved(store, i, t)

Knowledge(store, e) ==
    {<<i, store[i].body>> :
        i \in OwnedIn(store, "treatment", e) \union OwnedIn(store, "pattern", e)}

Commit(c) ==
    LET m == call[c]
        s == m.entity
        t == m.into
        forgotten == Forgotten(m.image, s, t, m.keep[1], m.keep[2])
        moved == {i \in (UNION {OwnedIn(m.image, type, s) : type \in MovedTypes}) \ forgotten :
                    ~ IsTwin(m.image, i, t)}
    IN  /\ At(c, "merge", "commit")
        /\ items' = [i \in Ids |->
               IF i \in moved THEN [items[i] EXCEPT !.body = Moved(m.image, i, t)]
               ELSE IF i \in forgotten THEN [items[i] EXCEPT !.active = FALSE]
               ELSE items[i]]
        /\ heir' = [e \in Entities |-> IF heir[e] = s THEN t ELSE heir[e]]
        /\ payee' = [d \in Described |-> IF payee[d] = s THEN t ELSE payee[d]]
        /\ stale' = IF \A e \in {s, t} : Knowledge(items, e) = Knowledge(m.image, e)
                    THEN stale ELSE stale \union {s, t}
        /\ Ends(c)
        /\ UNCHANGED strays

Learning(c) ==
    \/ \E t \in Txs, g \in Accounts : StartLearn(c, t, g)
    \/ ReadTreatment(c) \/ CreateTreatment(c) \/ UpdateTreatment(c)
    \/ ReadResolutions(c) \/ ReadPending(c) \/ Promote(c) \/ Observe(c)
    \/ ReadPatterns(c) \/ ReadEvidence(c) \/ Detect(c)
    \/ ReadConflicts(c) \/ PersistConflict(c) \/ Settle(c) \/ LoadTargets(c)
    \/ \E i \in Ids : Degrade(c, i)

Authorising(c) ==
    \/ StartDiscovery(c) \/ RecordCandidate(c) \/ EndDiscovery(c)
    \/ \E g \in Entities \X Accounts : DiscoverGroup(c, g)
    \/ \E k \in Ids : StartAuthorise(c, k)
    \/ ReadAuthorised(c) \/ RecordPattern(c)

Resolving(c) ==
    \/ \E k \in Ids : StartResolve(c, k)
    \/ RecordResolution(c)
    \/ \E k, i \in Ids : StartRehabilitate(c, k, i)
    \/ CheckResolved(c) \/ CheckPending(c) \/ Rehabilitate(c) \/ RecordRehabilitation(c)

Merging(c) ==
    \/ \E s, t \in Entities, ct, cp \in {"none", "source", "target"} : StartMerge(c, s, t, ct, cp)
    \/ Commit(c)
    \/ \E t \in Shared, e \in Entities \union {Nobody} : EditAlias(c, t, e)

Next == \E c \in Calls : Learning(c) \/ Authorising(c) \/ Resolving(c) \/ Merging(c)

Spec == Init /\ [][Next]_vars
===============================================================================
