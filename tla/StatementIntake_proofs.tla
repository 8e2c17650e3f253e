------------------------- MODULE StatementIntake_proofs -------------------------
(***************************************************************************)
(* What the intake of statements promises, proved for any imports, files,  *)
(* accounts and numbers.                                                   *)
(***************************************************************************)
EXTENDS StatementIntakeProps, FiniteSetTheorems, WellFoundedInduction, TLAPS

-----------------------------------------------------------------------------
(* The inductive invariant.                                                *)

StatementType ==
    [account: BankAccounts, from: Days, to: Days, opening: Int, closing: Int,
     credits: Int, debits: Int, traced: BOOLEAN]

RowType ==
    [hash: Numbers \X Lines, account: BankAccounts, line: Lines, from: Days, to: Days,
     by: {"none", "engine", "person"}, booked: BOOLEAN]

ProposalType == [hash: Numbers \X Lines, status: {"pending", "accepted", "rejected"}]

\* A call, by what it has read.
Ended == {Idle, Failed, Refused}

Looking == [at: {"hashing"}, file: Files, account: BankAccounts, number: Numbers]

Opening ==
    [at: {"opening", "classifying"}, file: Files, account: BankAccounts, number: Numbers,
     fresh: SUBSET Lines, rejected: SUBSET Lines]

AnyVerdict == UNION {[L -> Verdicts] : L \in SUBSET Lines}

Inserting ==
    [at: {"inserting"}, file: Files, account: BankAccounts,
     number: Numbers, fresh: SUBSET Lines, rejected: SUBSET Lines,
     verdict: AnyVerdict, done: SUBSET Lines]

Writing ==
    [at: {"tracing", "totalling"}, file: Files, account: BankAccounts,
     number: Numbers, fresh: SUBSET Lines, rejected: SUBSET Lines,
     verdict: AnyVerdict]

Closing ==
    [at: {"closing"}, file: Files, account: BankAccounts,
     number: Numbers, fresh: SUBSET Lines, rejected: SUBSET Lines,
     verdict: AnyVerdict, initial: Int, balance: Int]

Answered ==
    [at: {"imported", "skipped"}, file: Files, account: BankAccounts, number: Numbers,
     rejected: SUBSET Lines]

\* A call is one of these, and its lines are lines of its file.
CallType(k) ==
    /\ k \in Ended \union Looking \union Opening \union Inserting \union Writing \union Closing
             \union Answered
    /\ k \in Inserting => k.done \subseteq k.fresh
    /\ k \in Opening \union Inserting \union Writing \union Closing =>
         k.fresh # {} /\ k.fresh \subseteq LinesOf(k.file) /\ k.rejected \subseteq LinesOf(k.file)
    /\ k \in Answered => k.rejected \subseteq LinesOf(k.file)
    /\ k \in Inserting \union Writing \union Closing =>
         k.verdict \in [k.fresh -> Verdicts] /\ \E l \in k.fresh : k.verdict[l] # "error"

\* An edit has read statements of its account, none of which is ever removed.
EditType(x) ==
    x # Idle =>
        /\ x.account \in BankAccounts
        /\ x.seen \subseteq statements
        /\ x.initial \in Int /\ x.balance \in Int

Typed ==
    /\ accounts \in [BankAccounts -> [number : Numbers, initial : Int, balance : Int]]
    /\ statements \subseteq StatementType
    /\ IsFiniteSet(statements)
    /\ rows \subseteq RowType
    /\ proposals \subseteq ProposalType
    /\ DOMAIN calls = Calls
    /\ \A c \in Calls : CallType(calls[c])
    /\ DOMAIN edits = Editors
    /\ \A e \in Editors : EditType(edits[e])
    /\ outdated \subseteq BankAccounts

\* A hash is stored once, and what an open transaction has inserted is neither
\* stored nor inserted by another.
HashesOf(c) == {Hash(calls[c].number, l) : l \in Inserted(c)}

HashesAreUnique == \A r, s \in rows : r.hash = s.hash => r = s

InsertedIsNew == \A c \in Calls : HashesOf(c) \intersect Stored = {}

InsertedApart == \A c, d \in Calls : c # d => HashesOf(c) \intersect HashesOf(d) = {}

HashesKept == HashesAreUnique /\ InsertedIsNew /\ InsertedApart

\* Rows are inserted by their day.
InsertsByDay(c) ==
    calls[c].at = "inserting" =>
        \A l \in calls[c].done, m \in Kept(c) \ calls[c].done : Day[l] <= Day[m]

RowsInOrder == \A c \in Calls : InsertsByDay(c)

\* An account has one statement for each period, and what an open transaction has
\* created is neither stored nor created by another.
KeysAreUnique == \A s, t \in statements : KeyOf(s) = KeyOf(t) => s = t

CreatedIsNew == \A c \in Calls : InTransaction(c) => ~ Taken(c)

CreatedApart ==
    \A c, d \in Calls : InTransaction(c) /\ InTransaction(d) /\ c # d => Key(c) # Key(d)

KeysKept == KeysAreUnique /\ CreatedIsNew /\ CreatedApart

\* Every line of the file is reported, or the call is about to store it, or it is
\* stored under the number the call read.
ToStore(c) ==
    CASE calls[c].at \in {"opening", "classifying"} -> calls[c].fresh
      [] calls[c].at \in {"inserting", "tracing", "totalling", "closing"} -> Kept(c)
      [] OTHER -> {}

LinesTracked ==
    \A c \in Calls : calls[c] \notin Ended \union Looking =>
        \A l \in LinesOf(calls[c].file) :
            l \in calls[c].rejected \/ l \in ToStore(c) \/ Hash(calls[c].number, l) \in Stored

\* The lock of the trail has one holder, and a call that holds it has read the
\* statements of its account, which others leave alone as long as they are traced.
TrailIsAlone == \A c, d \in Calls : HoldsTrail(c) /\ HoldsTrail(d) => c = d

Seen(c) == StatementsOf(calls[c].account) \union {NewStatement(c)}

ReadingsStand ==
    \A c \in Calls :
        calls[c].at = "closing" /\ (\A s \in Seen(c) : s.traced)
            => /\ calls[c].balance = Newest(Seen(c)).closing
               /\ calls[c].initial = Oldest(Seen(c)).opening

\* An edit carries the balance of the statements it has read.
EditsStand ==
    \A e \in Editors : edits[e] # Idle /\ edits[e].seen # {}
        => /\ edits[e].balance = Newest(edits[e].seen).closing
           /\ edits[e].initial = Oldest(edits[e].seen).opening

IInv ==
    /\ Typed
    /\ HashesKept
    /\ RowsInOrder
    /\ EditsStand
    /\ KeysKept
    /\ StatementsAddUp
    /\ ProposalsHaveRows
    /\ LinesTracked
    /\ TrailIsAlone
    /\ ReadingsStand
    /\ BalanceIsNewestClosing

-----------------------------------------------------------------------------
(* Sums over finite sets, and newest statements: induction on a least subset. *)

\* Induction on a finite set: of its subsets outside U, one is least.
LEMMA LeastSubset ==
  ASSUME NEW S, IsFiniteSet(S), NEW U, NEW T \in SUBSET S, T \notin U
  PROVE  \E M \in SUBSET S : M \notin U /\ \A R \in SUBSET M : R # M => R \in U
<1>1. IsWellFoundedOn(StrictSubsetOrdering(S), SUBSET S)
  BY FS_StrictSubsetOrderingWellFounded, FS_FiniteSubsetsOfFinite
<1> DEFINE W == (SUBSET S) \ U
<1>2. PICK M \in W : \A R \in W : ~ (<<R, M>> \in StrictSubsetOrdering(S))
  <2>1. W \subseteq SUBSET S /\ W # {}
    OBVIOUS
  <2> HIDE DEF W
  <2> QED  BY <1>1, <2>1, WFMin
<1>3. ASSUME NEW R \in SUBSET M, R # M  PROVE R \in U
  <2>1. R \in SUBSET S
    BY <1>2
  <2>2. <<R, M>> \in StrictSubsetOrdering(S)
    BY <2>1, <1>2, <1>3 DEF StrictSubsetOrdering
  <2> QED  BY <1>2, <2>1, <2>2
<1> QED  BY <1>2, <1>3

Pick(s) == CHOOSE x \in s : TRUE

Sums(v, S, g) ==
    g = [s \in SUBSET S |-> IF s = {} THEN 0 ELSE v[Pick(s)] + g[s \ {Pick(s)}]]

\* What Pick picks is in the set.
LEMMA Picked == ASSUME NEW s, s # {} PROVE Pick(s) \in s
  BY DEF Pick

\* A function of sums satisfies its equation.
LEMMA SumsApply ==
  ASSUME NEW v, NEW S, NEW g, Sums(v, S, g), NEW s \in SUBSET S
  PROVE  g[s] = IF s = {} THEN 0 ELSE v[Pick(s)] + g[s \ {Pick(s)}]
<1> DEFINE G(t) == IF t = {} THEN 0 ELSE v[Pick(t)] + g[t \ {Pick(t)}]
<1>1. g = [t \in SUBSET S |-> G(t)]
  BY DEF Sums
<1>2. g[s] = G(s)
  <2> HIDE DEF G
  <2> QED BY <1>1
<1> QED BY <1>2

\* Sums of integers are integers.
LEMMA SumsAreInt ==
  ASSUME NEW S, IsFiniteSet(S), NEW v, \A x \in S : v[x] \in Int, NEW g, Sums(v, S, g)
  PROVE  \A T \in SUBSET S : g[T] \in Int
<1> DEFINE U == {T \in SUBSET S : g[T] \in Int}
<1>1. SUFFICES ASSUME NEW T \in SUBSET S, T \notin U  PROVE FALSE
  OBVIOUS
<1>2. PICK M \in SUBSET S : M \notin U /\ \A R \in SUBSET M : R # M => R \in U
  <2> HIDE DEF U
  <2> QED  BY <1>1, LeastSubset
<1>3. g[M] = IF M = {} THEN 0 ELSE v[Pick(M)] + g[M \ {Pick(M)}]
  BY SumsApply
<1>4. M # {} => v[Pick(M)] \in Int /\ g[M \ {Pick(M)}] \in Int
  BY <1>2, Picked
<1> QED  BY <1>2, <1>3, <1>4

\* At most one function satisfies the equation of sums.
LEMMA SumsUnique ==
  ASSUME NEW S, IsFiniteSet(S), NEW v, NEW g, Sums(v, S, g), NEW h, Sums(v, S, h)
  PROVE  g = h
<1> DEFINE U == {T \in SUBSET S : g[T] = h[T]}
<1>1. ASSUME NEW T \in SUBSET S, T \notin U  PROVE FALSE
  <2>2. PICK M \in SUBSET S : M \notin U /\ \A R \in SUBSET M : R # M => R \in U
    <3> HIDE DEF U
    <3> QED  BY <1>1, LeastSubset
  <2>1. ASSUME NEW f, Sums(v, S, f)
        PROVE  f[M] = IF M = {} THEN 0 ELSE v[Pick(M)] + f[M \ {Pick(M)}]
    BY <2>1, SumsApply
  <2>3. g[M] = IF M = {} THEN 0 ELSE v[Pick(M)] + g[M \ {Pick(M)}]
    BY <2>1
  <2>5. h[M] = IF M = {} THEN 0 ELSE v[Pick(M)] + h[M \ {Pick(M)}]
    BY <2>1
  <2>4. M # {} => g[M \ {Pick(M)}] = h[M \ {Pick(M)}]
    BY <2>2, Picked
  <2> QED  BY <2>2, <2>3, <2>4, <2>5
<1>2. \A T \in SUBSET S : g[T] = h[T]
  BY <1>1
<1>3. g = [T \in SUBSET S |-> g[T]] /\ h = [T \in SUBSET S |-> h[T]]
  BY DEF Sums
<1> QED  BY <1>2, <1>3

\* The sums over the subsets of S are those over the subsets of a part of it.
LEMMA SumsRestrict ==
  ASSUME NEW S, NEW v, NEW g, Sums(v, S, g), NEW R \in SUBSET S
  PROVE  Sums(v, R, [T \in SUBSET R |-> g[T]])
<1> DEFINE h == [T \in SUBSET R |-> g[T]]
           G(t) == IF t = {} THEN 0 ELSE v[Pick(t)] + g[t \ {Pick(t)}]
           H(t) == IF t = {} THEN 0 ELSE v[Pick(t)] + h[t \ {Pick(t)}]
<1>1. ASSUME NEW T \in SUBSET R  PROVE g[T] = H(T)
  <2>1. g[T] = G(T)
    BY SumsApply
  <2>2. T # {} => h[T \ {Pick(T)}] = g[T \ {Pick(T)}]
    OBVIOUS
  <2> QED  BY <2>1, <2>2
<1>2. h = [T \in SUBSET R |-> H(T)]
  BY <1>1
<1> QED  BY <1>2 DEF Sums

\* Over a finite set the equation of sums has a solution.
LEMMA SumsExist ==
  ASSUME NEW S, IsFiniteSet(S), NEW v
  PROVE  \E g : Sums(v, S, g)
<1> DEFINE U == {T \in SUBSET S : \E g : Sums(v, T, g)}
<1>1. SUFFICES ASSUME S \notin U  PROVE FALSE
  OBVIOUS
<1>2. PICK M \in SUBSET S : M \notin U /\ \A R \in SUBSET M : R # M => R \in U
  <2> HIDE DEF U
  <2> QED  BY <1>1, LeastSubset
<1> DEFINE Sub(s) == CHOOSE g : Sums(v, s, g)
           V(s) == Sub(s)[s]
           G(s) == IF s = {} THEN 0 ELSE v[Pick(s)] + V(s \ {Pick(s)})
           g == [s \in SUBSET M |-> G(s)]
<1>3. ASSUME NEW R \in SUBSET M, R # M  PROVE Sums(v, R, Sub(R))
  <2>1. \E h : Sums(v, R, h)
    BY <1>2, <1>3
  <2> QED  BY <2>1
<1>4. ASSUME NEW R \in SUBSET M, R # M  PROVE V(R) = g[R]
  <2> HIDE DEF Sub
  <2>1. Sums(v, R, Sub(R))
    BY <1>3, <1>4
  <2>2. Sub(R)[R] = IF R = {} THEN 0 ELSE v[Pick(R)] + Sub(R)[R \ {Pick(R)}]
    BY <2>1, SumsApply
  <2>3. CASE R # {}
    <3> DEFINE Q == R \ {Pick(R)}
               q == [T \in SUBSET Q |-> Sub(R)[T]]
    <3>1. Q \in SUBSET R /\ Q \in SUBSET M /\ Q # M
      BY <2>3, Picked
    <3>2. Sums(v, Q, Sub(Q))
      BY <1>3, <3>1
    <3>3. Sums(v, Q, q)
      BY <2>1, <3>1, SumsRestrict
    <3>4. IsFiniteSet(Q)
      BY FS_Subset
    <3>5. q = Sub(Q)
      <4> HIDE DEF q, Q
      <4> QED  BY <3>2, <3>3, <3>4, SumsUnique
    <3>6. q[Q] = Sub(R)[Q]
      OBVIOUS
    <3> HIDE DEF q
    <3> QED  BY <2>2, <2>3, <3>5, <3>6
  <2>4. CASE R = {}
    BY <2>2, <2>4
  <2> QED  BY <2>3, <2>4
<1>5. ASSUME NEW s \in SUBSET M, s # {}  PROVE V(s \ {Pick(s)}) = g[s \ {Pick(s)}]
  <2> HIDE DEF V, g
  <2> QED  BY <1>4, <1>5, Picked
<1>6. ASSUME NEW s \in SUBSET M
      PROVE  G(s) = IF s = {} THEN 0 ELSE v[Pick(s)] + g[s \ {Pick(s)}]
  <2> HIDE DEF V, g
  <2> QED  BY <1>5
<1>7. Sums(v, M, g)
  <2> HIDE DEF G
  <2>1. g = [s \in SUBSET M |-> IF s = {} THEN 0 ELSE v[Pick(s)] + g[s \ {Pick(s)}]]
    BY <1>6
  <2> QED  BY <2>1 DEF Sums
<1>8. M \in U
  <2> HIDE DEF g
  <2> QED  BY <1>7
<1> QED  BY <1>2, <1>8

\* The credits of a statement: MapThenSumSet is such a function of sums.
LEMMA CreditsInt == ASSUME NEW S \in SUBSET Lines, IsFiniteSet(S) PROVE Credits(S) \in Int
<1> DEFINE v == [l \in Lines |-> IF Amount[l] > 0 THEN Amount[l] ELSE 0]
  P(it) == it = [s \in SUBSET S |-> IF s = {} THEN 0
             ELSE LET x == CHOOSE x \in s : TRUE
             IN  (IF Amount[x] > 0 THEN Amount[x] ELSE 0) + it[s \ {x}]]
<1>1. ASSUME NEW h PROVE P(h) <=> Sums(v, S, h)
  <2> DEFINE G(s) == IF s = {} THEN 0
             ELSE LET x == CHOOSE x \in s : TRUE
             IN  (IF Amount[x] > 0 THEN Amount[x] ELSE 0) + h[s \ {x}]
        H(s) == IF s = {} THEN 0 ELSE v[Pick(s)] + h[s \ {Pick(s)}]
  <2>1. ASSUME NEW s \in SUBSET S PROVE G(s) = H(s)
    <3>1. CASE s # {}
      <4>1. Pick(s) \in Lines BY <3>1, Picked
      <4>2. v[Pick(s)] = IF Amount[Pick(s)] > 0 THEN Amount[Pick(s)] ELSE 0
        BY <4>1
      <4> HIDE DEF v
      <4> QED BY <4>2, <3>1 DEF Pick
    <3> QED BY <3>1
  <2>2. [s \in SUBSET S |-> G(s)] = [s \in SUBSET S |-> H(s)]
    <3> HIDE DEF G, H
    <3> QED BY <2>1
  <2>3. P(h) <=> h = [s \in SUBSET S |-> G(s)]
    OBVIOUS
  <2>4. Sums(v, S, h) <=> h = [s \in SUBSET S |-> H(s)]
    BY DEF Sums
  <2> HIDE DEF P, G, H, v
  <2> QED BY <2>2, <2>3, <2>4
<1>2. P(CHOOSE h : P(h))
  <2> HIDE DEF P, v
  <2>1. \E h : P(h) BY <1>1, SumsExist
  <2> QED BY <2>1
<1>3. Credits(S) = (CHOOSE h : P(h))[S]
  BY DEF Credits, MapThenSumSet, MapThenFoldSet
<1>4. \A x \in S : v[x] \in Int
  BY IntakeAssumption
<1> HIDE DEF P, v
<1>5. Sums(v, S, (CHOOSE h : P(h)))
  BY <1>1, <1>2
<1> QED BY <1>3, <1>4, <1>5, SumsAreInt
\* The same of its debits.
LEMMA DebitsInt == ASSUME NEW S \in SUBSET Lines, IsFiniteSet(S) PROVE Debits(S) \in Int
<1> DEFINE v == [l \in Lines |-> IF Amount[l] < 0 THEN -Amount[l] ELSE 0]
  P(it) == it = [s \in SUBSET S |-> IF s = {} THEN 0
             ELSE LET x == CHOOSE x \in s : TRUE
             IN  (IF Amount[x] < 0 THEN -Amount[x] ELSE 0) + it[s \ {x}]]
<1>1. ASSUME NEW h PROVE P(h) <=> Sums(v, S, h)
  <2> DEFINE G(s) == IF s = {} THEN 0
             ELSE LET x == CHOOSE x \in s : TRUE
             IN  (IF Amount[x] < 0 THEN -Amount[x] ELSE 0) + h[s \ {x}]
        H(s) == IF s = {} THEN 0 ELSE v[Pick(s)] + h[s \ {Pick(s)}]
  <2>1. ASSUME NEW s \in SUBSET S PROVE G(s) = H(s)
    <3>1. CASE s # {}
      <4>1. Pick(s) \in Lines BY <3>1, Picked
      <4>2. v[Pick(s)] = IF Amount[Pick(s)] < 0 THEN -Amount[Pick(s)] ELSE 0
        BY <4>1
      <4> HIDE DEF v
      <4> QED BY <4>2, <3>1 DEF Pick
    <3> QED BY <3>1
  <2>2. [s \in SUBSET S |-> G(s)] = [s \in SUBSET S |-> H(s)]
    <3> HIDE DEF G, H
    <3> QED BY <2>1
  <2>3. P(h) <=> h = [s \in SUBSET S |-> G(s)]
    OBVIOUS
  <2>4. Sums(v, S, h) <=> h = [s \in SUBSET S |-> H(s)]
    BY DEF Sums
  <2> HIDE DEF P, G, H, v
  <2> QED BY <2>2, <2>3, <2>4
<1>2. P(CHOOSE h : P(h))
  <2> HIDE DEF P, v
  <2>1. \E h : P(h) BY <1>1, SumsExist
  <2> QED BY <2>1
<1>3. Debits(S) = (CHOOSE h : P(h))[S]
  BY DEF Debits, MapThenSumSet, MapThenFoldSet
<1>4. \A x \in S : v[x] \in Int
  BY IntakeAssumption
<1> HIDE DEF P, v
<1>5. Sums(v, S, (CHOOSE h : P(h)))
  BY <1>1, <1>2
<1> QED BY <1>3, <1>4, <1>5, SumsAreInt
\* Days are integers.
LEMMA DaysAreInt == Days \subseteq Int
  BY IntakeAssumption DEF Days

\* Before is a total preorder of the statements.
LEMMA BeforeOrders ==
  ASSUME NEW s \in StatementType, NEW t \in StatementType
  PROVE  /\ Before(s, t) \/ Before(t, s)
         /\ \A u \in StatementType : Before(s, t) /\ Before(t, u) => Before(s, u)
<1>1. \A u \in StatementType : u.from \in Int /\ u.to \in Int
  BY DaysAreInt DEF StatementType
<1>2. Before(s, t) \/ Before(t, s)
  BY <1>1 DEF Before
<1>3. ASSUME NEW u \in StatementType, Before(s, t), Before(t, u)  PROVE Before(s, u)
  <2>1. /\ s.from \in Int /\ s.to \in Int /\ t.from \in Int /\ t.to \in Int
        /\ u.from \in Int /\ u.to \in Int
    BY <1>1
  <2> QED  BY <2>1, <1>3 DEF Before
<1> QED  BY <1>2, <1>3

\* Among finitely many statements one is newest.
LEMMA NewestExists ==
  ASSUME NEW S \in SUBSET StatementType, IsFiniteSet(S), S # {}
  PROVE  Newest(S) \in S
<1> DEFINE U == {T \in SUBSET S : T = {} \/ \E s \in T : \A t \in T : Before(t, s)}
<1>1. S \in U
  <2>1. SUFFICES ASSUME S \notin U  PROVE FALSE
    OBVIOUS
  <2>2. PICK M \in SUBSET S : M \notin U /\ \A R \in SUBSET M : R # M => R \in U
    <3> HIDE DEF U
    <3> QED  BY <2>1, LeastSubset
  <2>3. PICK x \in M : TRUE
    BY <2>2
  <2> DEFINE R == M \ {x}
  <2>4. R \in U
    BY <2>2
  <2>5. CASE R = {}
    <3>1. Before(x, x)
      BY BeforeOrders
    <3>2. \A t \in M : t = x
      BY <2>5
    <3> QED  BY <2>2, <3>1, <3>2
  <2>6. CASE R # {}
    <3>1. PICK y \in R : \A t \in R : Before(t, y)
      BY <2>4, <2>6
    <3>2. \A t \in M : t = x \/ t \in R
      OBVIOUS
    <3>3. y \in M /\ x \in StatementType /\ y \in StatementType
      OBVIOUS
    <3>4. CASE Before(x, y)
      <4>1. \A t \in M : Before(t, y)
        BY <3>1, <3>2, <3>4
      <4> QED  BY <2>2, <3>3, <4>1
    <3>5. CASE Before(y, x)
      <4>1. ASSUME NEW t \in M  PROVE Before(t, x)
        <5>1. t \in StatementType
          OBVIOUS
        <5>2. CASE t = x
          BY <5>2, <3>3, BeforeOrders
        <5>3. CASE t \in R
          <6>1. Before(t, y)
            BY <3>1, <5>3
          <6> QED  BY <6>1, <3>5, <5>1, <3>3, BeforeOrders
        <5> QED  BY <3>2, <5>2, <5>3
      <4> QED  BY <2>2, <2>3, <4>1
    <3>6. Before(x, y) \/ Before(y, x)
      BY <3>3, BeforeOrders
    <3> QED  BY <3>4, <3>5, <3>6
  <2> QED  BY <2>5, <2>6
<1>2. \E s \in S : \A t \in S : Before(t, s)
  BY <1>1
<1> QED  BY <1>2 DEF Newest

\* And one is oldest.
LEMMA OldestExists ==
  ASSUME NEW S \in SUBSET StatementType, IsFiniteSet(S), S # {}
  PROVE  Oldest(S) \in S
<1> DEFINE U == {T \in SUBSET S : T = {} \/ \E s \in T : \A t \in T : Before(s, t)}
<1>1. S \in U
  <2>1. SUFFICES ASSUME S \notin U  PROVE FALSE
    OBVIOUS
  <2>2. PICK M \in SUBSET S : M \notin U /\ \A R \in SUBSET M : R # M => R \in U
    <3> HIDE DEF U
    <3> QED  BY <2>1, LeastSubset
  <2>3. PICK x \in M : TRUE
    BY <2>2
  <2> DEFINE R == M \ {x}
  <2>4. R \in U
    BY <2>2
  <2>5. CASE R = {}
    <3>1. Before(x, x)
      BY BeforeOrders
    <3>2. \A t \in M : t = x
      BY <2>5
    <3> QED  BY <2>2, <3>1, <3>2
  <2>6. CASE R # {}
    <3>1. PICK y \in R : \A t \in R : Before(y, t)
      BY <2>4, <2>6
    <3>2. \A t \in M : t = x \/ t \in R
      OBVIOUS
    <3>3. y \in M /\ x \in StatementType /\ y \in StatementType
      OBVIOUS
    <3>4. CASE Before(y, x)
      <4>1. \A t \in M : Before(y, t)
        BY <3>1, <3>2, <3>4
      <4> QED  BY <2>2, <3>3, <4>1
    <3>5. CASE Before(x, y)
      <4>1. ASSUME NEW t \in M  PROVE Before(x, t)
        <5>1. t \in StatementType
          OBVIOUS
        <5>2. CASE t = x
          BY <5>2, <3>3, BeforeOrders
        <5>3. CASE t \in R
          <6>1. Before(y, t)
            BY <3>1, <5>3
          <6> QED  BY <6>1, <3>5, <5>1, <3>3, BeforeOrders
        <5> QED  BY <3>2, <5>2, <5>3
      <4> QED  BY <2>2, <2>3, <4>1
    <3>6. Before(x, y) \/ Before(y, x)
      BY <3>3, BeforeOrders
    <3> QED  BY <3>4, <3>5, <3>6
  <2> QED  BY <2>5, <2>6
<1>2. \E s \in S : \A t \in S : Before(s, t)
  BY <1>1
<1> QED  BY <1>2 DEF Oldest

-----------------------------------------------------------------------------
(* Types.                                                                  *)

\* A file has finitely many lines.
LEMMA LinesAreFinite ==
  ASSUME NEW f \in Files
  PROVE  IsFiniteSet(LinesOf(f)) /\ LinesOf(f) \subseteq Lines
<1>1. f.lines \in Seq(Lines)
  BY IntakeAssumption
<1>2. Len(f.lines) \in Nat /\ DOMAIN f.lines = 1 .. Len(f.lines)
      /\ \A i \in DOMAIN f.lines : f.lines[i] \in Lines
  BY <1>1
<1>3. IsFiniteSet(1 .. Len(f.lines))
  <2>1. 1 \in Int /\ Len(f.lines) \in Int
    BY <1>2
  <2> QED  BY <2>1, FS_Interval
<1> DEFINE g == [i \in DOMAIN f.lines |-> f.lines[i]]
<1>4. g \in Surjection(DOMAIN f.lines, LinesOf(f))
  BY DEF Surjection, LinesOf
<1>5. IsFiniteSet(LinesOf(f))
  BY <1>2, <1>3, <1>4, FS_Surjection
<1> QED  BY <1>2, <1>5 DEF LinesOf

\* What a call is follows from where it stands.
LEMMA Kinds ==
  ASSUME NEW k, CallType(k)
  PROVE  /\ k.at \in {"idle", "failed", "refused", "hashing", "opening", "classifying", "inserting",
                      "tracing", "totalling", "closing", "imported", "skipped"}
         /\ k.at \in {"idle", "failed", "refused"} => k \in Ended
         /\ k.at = "hashing" => k \in Looking
         /\ k.at \in {"opening", "classifying"} => k \in Opening
         /\ k.at = "inserting" => k \in Inserting
         /\ k.at \in {"tracing", "totalling"} => k \in Writing
         /\ k.at = "closing" => k \in Closing
         /\ k.at \in {"imported", "skipped"} => k \in Answered
  BY DEF CallType, Ended, Idle, Failed, Refused, Looking, Opening, Inserting, Writing, Closing, Answered

Judged(k) == k.at \in {"inserting", "tracing", "totalling", "closing"}

\* A call that has judged its lines keeps some of them.
LEMMA KeptTyped ==
  ASSUME NEW c \in Calls, CallType(calls[c]), Judged(calls[c])
  PROVE  /\ Kept(c) \subseteq Lines /\ IsFiniteSet(Kept(c)) /\ Kept(c) # {}
         /\ Kept(c) \subseteq LinesOf(calls[c].file)
<1> DEFINE k == calls[c]
<1>1. k \in Inserting \union Writing \union Closing
  BY Kinds DEF Judged
<1>2. k.file \in Files /\ k.fresh \subseteq LinesOf(k.file)
  BY <1>1 DEF CallType, Inserting, Writing, Closing
<1>3. IsFiniteSet(LinesOf(k.file)) /\ LinesOf(k.file) \subseteq Lines
  BY <1>2, LinesAreFinite
<1>4. Kept(c) \subseteq LinesOf(k.file)
  BY <1>2 DEF Kept
<1>5. IsFiniteSet(Kept(c))
  BY <1>3, <1>4, FS_Subset
<1>6. Kept(c) # {}
  BY <1>1 DEF CallType, Kept
<1> QED  BY <1>3, <1>4, <1>5, <1>6

\* The statement of such a call is well typed, and is for the key the call holds.
LEMMA NewStatementTyped ==
  ASSUME NEW c \in Calls, CallType(calls[c]), Judged(calls[c])
  PROVE  /\ NewStatement(c) \in StatementType
         /\ NewStatement(c).account = calls[c].account
         /\ KeyOf(NewStatement(c)) = Key(c)
<1> DEFINE k == calls[c]
           f == k.file
           in == Credits(Summed(c))
           out == Debits(Summed(c))
           b == IF f.closing # {} THEN CHOOSE b \in f.closing : TRUE ELSE f.opening + in - out
<1>1. k \in Inserting \union Writing \union Closing
  BY Kinds DEF Judged
<1>2. f \in Files /\ k.account \in BankAccounts
  BY <1>1 DEF Inserting, Writing, Closing
<1>3. Kept(c) \in SUBSET Lines /\ IsFiniteSet(Kept(c))
  BY KeptTyped
<1>4. in \in Int /\ out \in Int
  BY <1>3, CreditsInt, DebitsInt DEF Summed
<1>5. f.opening \in Int /\ f.closing \subseteq Int
  BY <1>2, IntakeAssumption
<1>6. b \in Int
  <2>1. CASE f.closing # {}
    BY <2>1, <1>5
  <2>2. CASE f.closing = {}
    <3> HIDE DEF in, out, f
    <3> QED  BY <2>2, <1>4, <1>5
  <2> QED  BY <2>1, <2>2
<1>7. f.from \in Days /\ f.to \in Days
  BY <1>2 DEF Days
<1> DEFINE traced == \E l \in Kept(c) : Classified(k.verdict[l]) # "none"
<1>8. NewStatement(c) =
        [account |-> k.account, from |-> f.from, to |-> f.to, opening |-> f.opening,
         closing |-> b, credits |-> in, debits |-> out, traced |-> traced]
  BY DEF NewStatement
<1>9. traced \in BOOLEAN
  OBVIOUS
<1> HIDE DEF b, in, out, traced
<1>10. NewStatement(c) \in StatementType
  BY <1>2, <1>4, <1>5, <1>6, <1>7, <1>8, <1>9 DEF StatementType
<1>11. KeyOf(NewStatement(c)) = Key(c)
  BY <1>8 DEF KeyOf, Key
<1> QED  BY <1>8, <1>10, <1>11

\* So are its rows.
LEMMA NewRowTyped ==
  ASSUME NEW c \in Calls, CallType(calls[c]), Judged(calls[c]), NEW l \in Kept(c)
  PROVE  /\ NewRow(c, l) \in RowType
         /\ NewRow(c, l).hash = Hash(calls[c].number, l)
         /\ NewRow(c, l).line = l
         /\ KeyOf(NewRow(c, l)) = Key(c)
<1> DEFINE k == calls[c]
<1>1. k \in Inserting \union Writing \union Closing
  BY Kinds DEF Judged
<1>2. k.file \in Files /\ k.account \in BankAccounts /\ k.number \in Numbers /\ l \in Lines
  BY <1>1, KeptTyped DEF Inserting, Writing, Closing
<1>3. k.file.from \in Days /\ k.file.to \in Days
  BY <1>2 DEF Days
<1>4. NewRow(c, l) \in RowType
  BY <1>2, <1>3 DEF NewRow, RowType, Hash, Classified, Booking
<1> QED  BY <1>4 DEF NewRow, KeyOf, Key

\* A step of one call that leaves the store alone keeps the types if the call keeps its own.
LEMMA CallTyped ==
  ASSUME Typed, NEW c \in Calls, NEW k, calls' = [calls EXCEPT ![c] = k], CallType(k),
         UNCHANGED Store
  PROVE  Typed'
<1>1. DOMAIN calls' = Calls
  BY DEF Typed
<1>2. ASSUME NEW d \in Calls  PROVE CallType(calls[d])'
  BY DEF Typed
<1>3. UNCHANGED <<accounts, statements, rows, proposals, edits, outdated>>
  BY DEF Store
<1> QED  BY <1>1, <1>2, <1>3 DEF Typed, EditType

\* The types hold at the start.
LEMMA TypedInit == Init => Typed
<1> SUFFICES ASSUME Init  PROVE Typed
  OBVIOUS
<1>1. accounts \in [BankAccounts -> [number : Numbers, initial : Int, balance : Int]]
  BY IntakeAssumption DEF Init
<1>2. IsFiniteSet(statements)
  BY FS_EmptySet DEF Init
<1>3. \A c \in Calls : CallType(calls[c])
  BY DEF Init, CallType, Ended, Idle, Looking, Opening, Inserting, Writing, Closing, Answered
<1>4. DOMAIN edits = Editors /\ outdated = {} /\ \A e \in Editors : EditType(edits[e])
  BY DEF Init, EditType
<1> QED  BY <1>1, <1>2, <1>3, <1>4 DEF Init, Typed

\* A call that ended without an answer is well typed.
LEMMA EndedTyped == \A k \in Ended : CallType(k)
  BY DEF CallType, Ended, Idle, Failed, Refused, Looking, Opening, Inserting, Writing, Closing, Answered

\* The steps of an import before its readings keep the types.
LEMMA TypedCalls ==
  ASSUME Typed, NEW c \in Calls
  PROVE  /\ \A f \in Files, a \in BankAccounts : Receive(c, f, a) => Typed'
         /\ LookUp(c) => Typed'
         /\ OpenStatement(c) => Typed'
         /\ \A verdict \in [calls[c].fresh -> Verdicts] : Classify(c, verdict) => Typed'
         /\ \A l \in Kept(c) : InsertRow(c, l) => Typed'
         /\ TraceAndPost(c) => Typed'
         /\ Abort(c) => Typed'
<1> DEFINE k == calls[c]
<1>0. CallType(k)
  BY DEF Typed
<1>1. ASSUME NEW f \in Files, NEW a \in BankAccounts, Receive(c, f, a)  PROVE Typed'
  <2> DEFINE n == [at |-> "hashing", file |-> f, account |-> a, number |-> accounts[a].number]
  <2>1. n \in Looking
    BY DEF Typed, Looking
  <2>2. CallType(n)
    BY <2>1 DEF CallType, Looking, Opening, Inserting, Writing, Closing, Answered
  <2>3. calls' = [calls EXCEPT ![c] = n] /\ UNCHANGED Store
    BY <1>1 DEF Receive
  <2> QED  BY <2>2, <2>3, CallTyped
<1>2. ASSUME LookUp(c)  PROVE Typed'
  <2> DEFINE fresh == Fresh(c)
             read == [at |-> "opening", file |-> k.file, account |-> k.account,
                      number |-> k.number, fresh |-> fresh,
                      rejected |-> fresh \intersect Repeated(k.file)]
             n == IF NothingNew(fresh) THEN Answer(read, "skipped") ELSE read
  <2>1. k \in Looking
    BY <1>0, <1>2, Kinds DEF LookUp
  <2>2. fresh \subseteq LinesOf(k.file) /\ LinesOf(k.file) \subseteq Lines
    BY <2>1, LinesAreFinite DEF Fresh, Looking
  <2>3. read \in Opening
    BY <2>1, <2>2 DEF Looking, Opening
  <2>4. fresh # {} => CallType(read)
    BY <2>2, <2>3 DEF CallType, Opening, Inserting, Writing, Closing, Answered
  <2>5. Answer(read, "skipped") \in Answered
    BY <2>3 DEF Answer, Opening, Answered
  <2>6. CallType(Answer(read, "skipped"))
    BY <2>2, <2>5 DEF CallType, Answer, Opening, Inserting, Writing, Closing, Answered
  <2>7. CallType(n)
    BY <2>4, <2>6 DEF NothingNew
  <2>8. calls' = [calls EXCEPT ![c] = n] /\ UNCHANGED Store
    BY <1>2 DEF LookUp
  <2> QED  BY <2>7, <2>8, CallTyped
<1>3. ASSUME OpenStatement(c)  PROVE Typed'
  <2> DEFINE n == IF Taken(c) THEN Refused ELSE [k EXCEPT !.at = "classifying"]
  <2>1. k \in Opening
    BY <1>0, <1>3, Kinds DEF OpenStatement
  <2>2. CallType([k EXCEPT !.at = "classifying"])
    BY <1>0, <2>1 DEF CallType, Opening, Inserting, Writing, Closing, Answered
  <2>3. CallType(n)
    BY <2>2, EndedTyped DEF Ended
  <2>4. calls' = [calls EXCEPT ![c] = n] /\ UNCHANGED Store
    BY <1>3 DEF OpenStatement
  <2> QED  BY <2>3, <2>4, CallTyped
<1>4. ASSUME NEW verdict \in [k.fresh -> Verdicts], Classify(c, verdict)  PROVE Typed'
  <2> DEFINE m == [at |-> "inserting", file |-> k.file, account |-> k.account,
                   number |-> k.number, fresh |-> k.fresh,
                   rejected |-> Reports(k, verdict), verdict |-> verdict,
                   done |-> {}]
             n == IF Failing(k, verdict) = k.fresh THEN Failed ELSE m
  <2>1. k \in Opening
    BY <1>0, <1>4, Kinds DEF Classify
  <2>2. k.fresh # {} /\ k.fresh \subseteq LinesOf(k.file) /\ k.rejected \subseteq LinesOf(k.file)
        /\ LinesOf(k.file) \subseteq Lines
    BY <1>0, <2>1, LinesAreFinite DEF CallType, Opening
  <2>3. Reports(k, verdict) \subseteq LinesOf(k.file)
    BY <2>2 DEF Reports, Failing
  <2>4. verdict \in AnyVerdict
    BY <2>2 DEF AnyVerdict
  <2>5. m \in Inserting
    BY <2>1, <2>2, <2>3, <2>4 DEF Opening, Inserting
  <2>6. Failing(k, verdict) # k.fresh => \E l \in k.fresh : verdict[l] # "error"
    BY DEF Failing
  <2>7. Failing(k, verdict) # k.fresh => CallType(m)
    BY <2>2, <2>3, <2>5, <2>6 DEF CallType, Inserting, Opening, Writing, Closing, Answered
  <2>8. CallType(n)
    BY <2>7, EndedTyped DEF Ended
  <2>9. calls' = [calls EXCEPT ![c] = n] /\ UNCHANGED Store
    BY <1>4 DEF Classify
  <2> QED  BY <2>8, <2>9, CallTyped
<1>5. ASSUME NEW l \in Kept(c), InsertRow(c, l)  PROVE Typed'
  <2> DEFINE m == [k EXCEPT !.done = @ \union {l}]
             w == [at |-> "tracing", file |-> k.file, account |-> k.account,
                   number |-> k.number, fresh |-> k.fresh, rejected |-> k.rejected,
                   verdict |-> k.verdict]
             n == IF ~ Unique(c, l) THEN Failed
                  ELSE IF k.done \union {l} # Kept(c) THEN m ELSE w
  <2>1. k \in Inserting /\ l \in k.fresh
    BY <1>0, <1>5, Kinds DEF InsertRow, Kept
  <2>2. /\ k.fresh # {} /\ k.fresh \subseteq LinesOf(k.file) /\ k.rejected \subseteq LinesOf(k.file)
        /\ k.done \subseteq k.fresh
        /\ k.verdict \in [k.fresh -> Verdicts] /\ \E j \in k.fresh : k.verdict[j] # "error"
    BY <1>0, <2>1 DEF CallType
  <2>3. m \in Inserting
    BY <2>1 DEF Inserting
  <2>4. /\ m.file = k.file /\ m.fresh = k.fresh /\ m.rejected = k.rejected
        /\ m.verdict = k.verdict /\ m.done = k.done \union {l}
    BY <2>1 DEF Inserting
  <2>5. CallType(m)
    <3> HIDE DEF m
    <3> QED  BY <2>1, <2>2, <2>3, <2>4 DEF CallType, Inserting, Answered
  <2>6. w \in Writing
    BY <2>1 DEF Inserting, Writing
  <2>7. CallType(w)
    BY <2>2, <2>6 DEF CallType, Inserting, Answered
  <2>8. CallType(n)
    BY <2>5, <2>7, EndedTyped DEF Ended
  <2>9. calls' = [calls EXCEPT ![c] = n] /\ UNCHANGED Store
    BY <1>5 DEF InsertRow
  <2> QED  BY <2>8, <2>9, CallTyped
<1>6. ASSUME TraceAndPost(c)  PROVE Typed'
  <2> DEFINE n == [k EXCEPT !.at = "totalling"]
  <2>1. k \in Writing
    BY <1>0, <1>6, Kinds DEF TraceAndPost
  <2>2. CallType(n)
    BY <1>0, <2>1 DEF CallType, Opening, Inserting, Writing, Closing, Answered
  <2>3. calls' = [calls EXCEPT ![c] = n] /\ UNCHANGED Store
    BY <1>6 DEF TraceAndPost
  <2> QED  BY <2>2, <2>3, CallTyped
<1>7. ASSUME Abort(c)  PROVE Typed'
  <2>1. calls' = [calls EXCEPT ![c] = Failed] /\ UNCHANGED Store /\ CallType(Failed)
    BY <1>7, EndedTyped DEF Abort, Ended
  <2> QED  BY <2>1, CallTyped
<1> QED  BY <1>1, <1>2, <1>3, <1>4, <1>5, <1>6, <1>7

\* The statements a call totals are finitely many, and its own is among them.
LEMMA SeenTyped ==
  ASSUME Typed, NEW c \in Calls, Judged(calls[c])
  PROVE  /\ Seen(c) \in SUBSET StatementType /\ IsFiniteSet(Seen(c)) /\ Seen(c) # {}
         /\ NewStatement(c) \in StatementType
<1>1. NewStatement(c) \in StatementType
  BY NewStatementTyped DEF Typed
<1>2. StatementsOf(calls[c].account) \in SUBSET statements /\ IsFiniteSet(statements)
  BY DEF Typed, StatementsOf
<1>3. IsFiniteSet(StatementsOf(calls[c].account))
  BY <1>2, FS_Subset
<1>4. IsFiniteSet(Seen(c))
  BY <1>3, FS_AddElement DEF Seen
<1> QED  BY <1>1, <1>2, <1>4 DEF Typed, Seen

\* Reading the statements keeps the types.
LEMMA TypedReads ==
  ASSUME Typed, NEW c \in Calls, ReadStatements(c)
  PROVE  Typed'
<1> DEFINE k == calls[c]
           n == [at |-> "closing", file |-> k.file, account |-> k.account,
                 number |-> k.number, fresh |-> k.fresh, rejected |-> k.rejected,
                 verdict |-> k.verdict,
                 initial |-> Oldest(Seen(c)).opening, balance |-> Newest(Seen(c)).closing]
<1>1. CallType(k) /\ k.at = "totalling" /\ k \in Writing
  BY Kinds DEF Typed, ReadStatements
<1>2. Oldest(Seen(c)) \in StatementType /\ Newest(Seen(c)) \in StatementType
  BY <1>1, SeenTyped, OldestExists, NewestExists DEF Judged
<1>3. Oldest(Seen(c)).opening \in Int /\ Newest(Seen(c)).closing \in Int
  BY <1>2 DEF StatementType
<1>4. n \in Closing
  BY <1>1, <1>3 DEF Writing, Closing
<1>5. CallType(n)
  BY <1>1, <1>4 DEF CallType, Opening, Inserting, Writing, Closing, Answered
<1>6. calls' = [calls EXCEPT ![c] = n] /\ UNCHANGED Store
  BY DEF ReadStatements, Seen
<1> QED  BY <1>5, <1>6, CallTyped

\* So does the commit.
LEMMA TypedCommit ==
  ASSUME Typed, NEW c \in Calls, Commit(c)
  PROVE  Typed'
<1> DEFINE k == calls[c]
           n == Answer(k, "imported")
<1>1. CallType(k) /\ k.at = "closing" /\ k \in Closing
  BY Kinds DEF Typed, Commit
<1>2. Judged(k)
  BY <1>1 DEF Judged
<1>3. statements' \subseteq StatementType /\ IsFiniteSet(statements')
  BY <1>1, <1>2, NewStatementTyped, FS_AddElement DEF Typed, Commit
<1>4. rows' \subseteq RowType
  <2>1. rows' = rows \union {NewRow(c, l) : l \in Kept(c)}
    BY DEF Commit
  <2>2. \A l \in Kept(c) : NewRow(c, l) \in RowType
    BY <1>1, <1>2, NewRowTyped
  <2> QED  BY <2>1, <2>2 DEF Typed
<1>5. proposals' \subseteq ProposalType
  <2>1. proposals' = proposals \union
                    {[hash |-> Hash(k.number, l), status |-> "pending"] : l \in Asked(c)}
    BY DEF Commit
  <2>2. \A l \in Asked(c) : Hash(k.number, l) \in Numbers \X Lines
    BY <1>1, <1>2, KeptTyped DEF Asked, Hash, Closing
  <2> QED  BY <2>1, <2>2 DEF Typed, ProposalType
<1>6. accounts' \in [BankAccounts -> [number : Numbers, initial : Int, balance : Int]]
  <2>1. k.account \in BankAccounts /\ k.initial \in Int /\ k.balance \in Int
    BY <1>1 DEF Closing
  <2>2. accounts' = [accounts EXCEPT ![k.account].initial = k.initial,
                                     ![k.account].balance = k.balance]
    BY DEF Commit
  <2> QED  BY <2>1, <2>2 DEF Typed
<1>7. CallType(n)
  <2>1. n \in Answered
    BY <1>1 DEF Answer, Closing, Answered
  <2>2. n.rejected \subseteq LinesOf(n.file)
    BY <1>1 DEF CallType, Answer
  <2> QED  BY <2>1, <2>2 DEF CallType, Opening, Inserting, Writing, Closing, Answered
<1>8. DOMAIN calls' = Calls /\ \A d \in Calls : CallType(calls'[d])
  <2>1. calls' = [calls EXCEPT ![c] = n]
    BY DEF Commit
  <2> QED  BY <2>1, <1>7 DEF Typed
<1>9. outdated' \subseteq BankAccounts /\ DOMAIN edits' = Editors
      /\ \A e \in Editors : EditType(edits[e])'
  BY DEF Typed, EditType, Commit
<1> QED  BY <1>3, <1>4, <1>5, <1>6, <1>8, <1>9 DEF Typed

\* So do people and rules.
LEMMA TypedPeople ==
  ASSUME Typed
  PROVE  /\ \A p \in proposals, r \in rows, decision \in {"accepted", "rejected"} :
               Decide(p, r, decision) => Typed'
         /\ \A r \in rows : Reclassify(r) \/ ApplyRule(r) => Typed'
<1>1. ASSUME UNCHANGED <<accounts, statements, calls, edits, outdated>>,
             rows' \subseteq RowType, proposals' \subseteq ProposalType
      PROVE  Typed'
  BY <1>1 DEF Typed, EditType
<1>2. \A r \in RowType : ByPerson(r) \in RowType /\ ByRule(r) \in RowType
  BY DEF RowType, ByPerson, ByRule, Booking
<1>3. ASSUME NEW p \in proposals, NEW r \in rows, NEW decision \in {"accepted", "rejected"},
             Decide(p, r, decision)
      PROVE  Typed'
  <2>1. rows' \subseteq RowType
    BY <1>2, <1>3 DEF Typed, Decide
  <2>2. [p EXCEPT !.status = decision] \in ProposalType
    BY <1>3 DEF Typed, ProposalType
  <2>3. proposals' \subseteq ProposalType
    BY <1>3, <2>2 DEF Typed, Decide
  <2>4. UNCHANGED <<accounts, statements, calls, edits, outdated>>
    BY <1>3 DEF Decide
  <2> QED  BY <1>1, <2>1, <2>3, <2>4
<1>4. ASSUME NEW r \in rows, Reclassify(r) \/ ApplyRule(r)  PROVE Typed'
  <2>1. rows' \subseteq RowType
    BY <1>2, <1>4 DEF Typed, Reclassify, ApplyRule
  <2>2. UNCHANGED <<accounts, statements, calls, edits, outdated>> /\ proposals' = proposals
    BY <1>4 DEF Reclassify, ApplyRule
  <2> QED  BY <1>1, <2>1, <2>2 DEF Typed
<1> QED  BY <1>3, <1>4

\* So do edits of an account.
LEMMA TypedEdits ==
  ASSUME Typed
  PROVE  /\ \A a \in BankAccounts, n \in Numbers : EditNumber(a, n) => Typed'
         /\ \A e \in Editors, a \in BankAccounts, b \in Entered : ReadForEdit(e, a, b) => Typed'
         /\ \A e \in Editors, n \in Numbers : WriteEdit(e, n) => Typed'
         /\ \A e \in Editors : RefuseEdit(e) => Typed'
<1> DEFINE AccountType == [BankAccounts -> [number : Numbers, initial : Int, balance : Int]]
<1>1. ASSUME UNCHANGED <<statements, rows, proposals, calls>>,
             accounts' \in AccountType, DOMAIN edits' = Editors,
             \A e \in Editors : EditType(edits'[e]), outdated' \subseteq BankAccounts
      PROVE  Typed'
  BY <1>1 DEF Typed, EditType
<1>2. EditType(Idle)
  BY DEF EditType
<1>3. ASSUME NEW a \in BankAccounts, NEW n \in Numbers, EditNumber(a, n)  PROVE Typed'
  <2>1. accounts' \in AccountType
    BY <1>3 DEF Typed, EditNumber
  <2> QED  BY <1>1, <1>3, <2>1 DEF Typed, EditNumber
<1>4. ASSUME NEW e \in Editors, NEW a \in BankAccounts, NEW b \in Entered, ReadForEdit(e, a, b)
      PROVE  Typed'
  <2> DEFINE seen == StatementsOf(a)
             x == [at |-> "read", account |-> a, seen |-> seen,
                   initial |-> IF seen = {} THEN b ELSE Oldest(seen).opening,
                   balance |-> IF seen = {} THEN b ELSE Newest(seen).closing]
  <2>1. seen \subseteq statements /\ IsFiniteSet(seen) /\ seen \in SUBSET StatementType
    BY FS_Subset DEF StatementsOf, Typed
  <2>2. seen # {} => Oldest(seen) \in StatementType /\ Newest(seen) \in StatementType
    <3> HIDE DEF seen
    <3> QED  BY <2>1, OldestExists, NewestExists
  <2>3. seen # {} => Oldest(seen).opening \in Int /\ Newest(seen).closing \in Int
    BY <2>2 DEF StatementType
  <2>4. b \in Int
    BY IntakeAssumption
  <2>5. EditType(x)
    <3> HIDE DEF seen
    <3> QED  BY <2>1, <2>3, <2>4 DEF EditType
  <2>6. edits' = [edits EXCEPT ![e] = x]
        /\ UNCHANGED <<accounts, statements, rows, proposals, calls, outdated>>
    BY <1>4 DEF ReadForEdit
  <2> HIDE DEF x
  <2>7. DOMAIN edits' = Editors /\ \A f \in Editors : EditType(edits'[f])
    BY <2>5, <2>6 DEF Typed
  <2> QED  BY <1>1, <2>6, <2>7 DEF Typed
<1>5. ASSUME NEW e \in Editors, NEW n \in Numbers, WriteEdit(e, n)  PROVE Typed'
  <2> DEFINE a == edits[e].account
  <2>1. a \in BankAccounts /\ edits[e].initial \in Int /\ edits[e].balance \in Int
    BY <1>5 DEF WriteEdit, Typed, EditType
  <2>2. accounts' = [accounts EXCEPT ![a] = [number |-> n, initial |-> edits[e].initial,
                                             balance |-> edits[e].balance]]
        /\ UNCHANGED <<statements, rows, proposals, calls>>
    BY <1>5 DEF WriteEdit
  <2>3. accounts' \in AccountType
    BY <2>1, <2>2 DEF Typed
  <2>4. outdated' \subseteq BankAccounts
    BY <1>5, <2>1 DEF WriteEdit, Typed
  <2>5. DOMAIN edits' = Editors /\ \A f \in Editors : EditType(edits'[f])
    BY <1>2, <1>5 DEF WriteEdit, Typed
  <2> QED  BY <1>1, <2>2, <2>3, <2>4, <2>5
<1>6. ASSUME NEW e \in Editors, RefuseEdit(e)  PROVE Typed'
  <2>1. DOMAIN edits' = Editors /\ \A f \in Editors : EditType(edits'[f])
    BY <1>2, <1>6 DEF RefuseEdit, Typed
  <2>2. UNCHANGED <<accounts, statements, rows, proposals, calls, outdated>>
    BY <1>6 DEF RefuseEdit
  <2> QED  BY <1>1, <2>1, <2>2 DEF Typed
<1> QED  BY <1>3, <1>4, <1>5, <1>6

-----------------------------------------------------------------------------
(* Steps of one call that leave the store alone.                           *)

SameCall(c) ==
    /\ calls'[c].account = calls[c].account
    /\ calls'[c].number = calls[c].number
    /\ calls'[c].file = calls[c].file
    /\ calls'[c].fresh = calls[c].fresh
    /\ calls'[c].verdict = calls[c].verdict

\* What a call is about to store depends on what it has read, not on where it stands.
LEMMA Carried ==
  ASSUME NEW c, SameCall(c)
  PROVE  /\ Kept(c)' = Kept(c)
         /\ NewStatement(c)' = NewStatement(c)
         /\ Key(c)' = Key(c)
<1>1. Kept(c)' = Kept(c)
  BY DEF SameCall, Kept
<1>2. Summed(c)' = Summed(c)
  BY <1>1 DEF Summed
<1>3. Credits(Summed(c))' = Credits(Summed(c)) /\ Debits(Summed(c))' = Debits(Summed(c))
  BY <1>2
<1>4. NewStatement(c)' = NewStatement(c)
  BY <1>1, <1>3 DEF SameCall, NewStatement
<1> QED  BY <1>1, <1>4 DEF SameCall, Key

\* What a call that does nothing holds stays as it is.
LEMMA Unmoved ==
  ASSUME NEW d, calls'[d] = calls[d]
  PROVE  /\ Kept(d)' = Kept(d)
         /\ NewStatement(d)' = NewStatement(d)
         /\ HashesOf(d)' = HashesOf(d)
         /\ Key(d)' = Key(d)
         /\ ToStore(d)' = ToStore(d)
         /\ InTransaction(d)' = InTransaction(d)
         /\ InsertsByDay(d)' = InsertsByDay(d)
         /\ HoldsTrail(d)' = HoldsTrail(d)
<1>1. SameCall(d)
  BY DEF SameCall
<1>2. /\ Kept(d)' = Kept(d) /\ NewStatement(d)' = NewStatement(d)
      /\ Key(d)' = Key(d)
  BY <1>1, Carried
<1>3. HashesOf(d)' = HashesOf(d)
  BY <1>2 DEF HashesOf, Inserted, HasInserted
<1>4. InsertsByDay(d)' = InsertsByDay(d)
  BY <1>2 DEF InsertsByDay
<1> QED  BY <1>2, <1>3, <1>4 DEF ToStore, InTransaction, HoldsTrail

\* What such a step may do.
CreatesStatement(c) ==
    InTransaction(c)' => /\ Key(c)' = Key(c)
                         /\ InTransaction(c) \/ (Vacant(c) /\ ~ Taken(c))

InsertsRows(c) ==
    \A h \in HashesOf(c)' :
        h \in HashesOf(c) \/ (h \notin Stored /\ \A d \in Calls \ {c} : h \notin HashesOf(d))

TakesTrail(c) == HoldsTrail(c)' => HoldsTrail(c) \/ TrailFree(c)

ReadsStatements(c) ==
    calls'[c].at = "closing" => /\ calls'[c].balance = Newest(Seen(c)).closing
                                /\ calls'[c].initial = Oldest(Seen(c)).opening
                                /\ calls'[c].account = calls[c].account
                                /\ NewStatement(c)' = NewStatement(c)

TracksLines(c) ==
    calls'[c] \notin Ended \union Looking =>
        \A l \in LinesOf(calls'[c].file) :
            \/ l \in calls'[c].rejected
            \/ l \in ToStore(c)'
            \/ Hash(calls'[c].number, l) \in Stored

Moves(c) ==
    /\ \A d \in Calls \ {c} : calls'[d] = calls[d]
    /\ UNCHANGED Store
    /\ CreatesStatement(c)
    /\ InsertsRows(c)
    /\ InsertsByDay(c)'
    /\ TakesTrail(c)
    /\ ReadsStatements(c)
    /\ TracksLines(c)

\* Such a step keeps hashes apart: rows are inserted under the unique index.
LEMMA MovesHashes ==
  ASSUME HashesKept, NEW c \in Calls, Moves(c)
  PROVE  HashesKept'
<1>1. rows' = rows /\ Stored' = Stored
  BY DEF Moves, Store, Stored
<1>2. \A d \in Calls \ {c} : HashesOf(d)' = HashesOf(d)
  BY Unmoved DEF Moves
<1>3. ASSUME NEW h \in HashesOf(c)'
      PROVE  h \notin Stored /\ \A d \in Calls \ {c} : h \notin HashesOf(d)
  <2>1. CASE h \in HashesOf(c)
    BY <2>1 DEF HashesKept, InsertedIsNew, InsertedApart
  <2>2. CASE h \notin HashesOf(c)
    BY <2>2, <1>3 DEF Moves, InsertsRows
  <2> QED  BY <2>1, <2>2
<1>4. HashesAreUnique'
  BY <1>1 DEF HashesKept, HashesAreUnique
<1>5. ASSUME NEW d \in Calls  PROVE HashesOf(d)' \intersect Stored' = {}
  BY <1>1, <1>2, <1>3, <1>5 DEF HashesKept, InsertedIsNew
<1>6. ASSUME NEW d \in Calls, NEW e \in Calls, d # e
      PROVE  HashesOf(d)' \intersect HashesOf(e)' = {}
  <2>1. CASE d = c
    BY <1>2, <1>3, <1>6, <2>1
  <2>2. CASE e = c
    BY <1>2, <1>3, <1>6, <2>2
  <2>3. CASE d # c /\ e # c
    BY <1>2, <1>6, <2>3 DEF HashesKept, InsertedApart
  <2> QED  BY <2>1, <2>2, <2>3
<1> QED  BY <1>4, <1>5, <1>6 DEF HashesKept, InsertedIsNew, InsertedApart

\* It keeps statements apart: one is created under the unique index of its key.
LEMMA MovesKeys ==
  ASSUME KeysKept, NEW c \in Calls, Moves(c)
  PROVE  KeysKept'
<1>1. statements' = statements
  BY DEF Moves, Store
<1>2. \A d \in Calls \ {c} : Key(d)' = Key(d) /\ InTransaction(d)' = InTransaction(d)
  BY Unmoved DEF Moves
<1>3. ASSUME InTransaction(c)'
      PROVE  /\ Key(c)' = Key(c)
             /\ ~ Taken(c)
             /\ \A d \in Calls \ {c} : InTransaction(d) => Key(d) # Key(c)
  <2>1. Key(c)' = Key(c)
    BY <1>3 DEF Moves, CreatesStatement
  <2>2. CASE InTransaction(c)
    BY <2>1, <2>2 DEF KeysKept, CreatedIsNew, CreatedApart
  <2>3. CASE Vacant(c) /\ ~ Taken(c)
    BY <2>1, <2>3 DEF Vacant
  <2> QED  BY <1>3, <2>2, <2>3 DEF Moves, CreatesStatement
<1>4. KeysAreUnique'
  BY <1>1 DEF KeysKept, KeysAreUnique
<1>5. ASSUME NEW d \in Calls, InTransaction(d)'  PROVE ~ Taken(d)'
  <2>1. Key(d)' = Key(d) /\ ~ Taken(d)
    BY <1>2, <1>3, <1>5 DEF KeysKept, CreatedIsNew
  <2> QED  BY <1>1, <2>1 DEF Taken
<1>6. ASSUME NEW d \in Calls, NEW e \in Calls, InTransaction(d)', InTransaction(e)', d # e
      PROVE  Key(d)' # Key(e)'
  <2>1. CASE d = c
    BY <1>2, <1>3, <1>6, <2>1
  <2>2. CASE e = c
    BY <1>2, <1>3, <1>6, <2>2
  <2>3. CASE d # c /\ e # c
    BY <1>2, <1>6, <2>3 DEF KeysKept, CreatedApart
  <2> QED  BY <2>1, <2>2, <2>3
<1> QED  BY <1>4, <1>5, <1>6 DEF KeysKept, CreatedIsNew, CreatedApart

\* It keeps the rest, for it changes one call's memory.
LEMMA MovesRest ==
  ASSUME StatementsAddUp, ProposalsHaveRows, LinesTracked, TrailIsAlone, ReadingsStand,
         RowsInOrder, EditsStand, BalanceIsNewestClosing, NEW c \in Calls, Moves(c)
  PROVE  /\ StatementsAddUp' /\ ProposalsHaveRows' /\ LinesTracked' /\ TrailIsAlone'
         /\ ReadingsStand' /\ RowsInOrder' /\ EditsStand' /\ BalanceIsNewestClosing'
<1>1. UNCHANGED <<accounts, statements, rows, proposals, edits, outdated>>
  BY DEF Moves, Store
<1>2. Stored' = Stored /\ \A a : StatementsOf(a)' = StatementsOf(a)
  BY <1>1 DEF Stored, StatementsOf
<1>3. \A d \in Calls \ {c} :
        /\ calls'[d] = calls[d] /\ ToStore(d)' = ToStore(d)
        /\ HoldsTrail(d)' = HoldsTrail(d) /\ NewStatement(d)' = NewStatement(d)
        /\ InsertsByDay(d)' = InsertsByDay(d)
  BY Unmoved DEF Moves
<1>4. StatementsAddUp'
  BY <1>1 DEF StatementsAddUp, RowsOf
<1>5. ProposalsHaveRows'
  BY <1>1 DEF ProposalsHaveRows
<1>6. LinesTracked'
  <2>1. ASSUME NEW d \in Calls, calls'[d] \notin Ended \union Looking,
               NEW l \in LinesOf(calls'[d].file)
        PROVE  l \in calls'[d].rejected \/ l \in ToStore(d)'
               \/ Hash(calls'[d].number, l) \in Stored'
    <3>1. CASE d = c
      BY <1>2, <2>1, <3>1 DEF Moves, TracksLines
    <3>2. CASE d # c
      BY <1>2, <1>3, <2>1, <3>2 DEF LinesTracked
    <3> QED  BY <3>1, <3>2
  <2> QED  BY <2>1 DEF LinesTracked
<1>7. TrailIsAlone'
  <2>1. HoldsTrail(c)' => \A d \in Calls \ {c} : ~ HoldsTrail(d)
    BY DEF Moves, TakesTrail, TrailIsAlone, TrailFree
  <2> QED  BY <1>3, <2>1 DEF TrailIsAlone
<1>8. ReadingsStand'
  <2>1. ASSUME NEW d \in Calls, calls'[d].at = "closing", \A s \in Seen(d)' : s.traced
        PROVE  /\ calls'[d].balance = Newest(Seen(d)').closing
               /\ calls'[d].initial = Oldest(Seen(d)').opening
    <3>1. CASE d = c
      <4>1. Seen(c)' = Seen(c)
        BY <1>2, <2>1, <3>1 DEF Moves, ReadsStatements, Seen
      <4> QED  BY <2>1, <3>1, <4>1 DEF Moves, ReadsStatements
    <3>2. CASE d # c
      <4>1. Seen(d)' = Seen(d) /\ calls'[d] = calls[d]
        BY <1>2, <1>3, <3>2 DEF Seen
      <4> QED  BY <2>1, <4>1 DEF ReadingsStand
    <3> QED  BY <3>1, <3>2
  <2> QED  BY <2>1 DEF ReadingsStand
<1>9. BalanceIsNewestClosing'
  BY <1>1, <1>2 DEF BalanceIsNewestClosing, FollowsStatements
<1>10. RowsInOrder'
  BY <1>3 DEF RowsInOrder, Moves
<1>11. EditsStand'
  BY <1>1 DEF EditsStand
<1> QED  BY <1>4, <1>5, <1>6, <1>7, <1>8, <1>9, <1>10, <1>11

\* The steps of an import, but the last, are such steps.
LEMMA CallsMove ==
  ASSUME Typed, LinesTracked, RowsInOrder, NEW c \in Calls
  PROVE  /\ \A f \in Files, a \in BankAccounts : Receive(c, f, a) => Moves(c)
         /\ LookUp(c) => Moves(c)
         /\ OpenStatement(c) => Moves(c)
         /\ \A verdict \in [calls[c].fresh -> Verdicts] : Classify(c, verdict) => Moves(c)
         /\ \A l \in Kept(c) : InsertRow(c, l) => Moves(c)
         /\ TraceAndPost(c) => Moves(c)
         /\ ReadStatements(c) => Moves(c)
         /\ Abort(c) => Moves(c)
<1> DEFINE k == calls[c]
<1>0. c \in DOMAIN calls /\ CallType(k)
  BY DEF Typed
<1>1. ASSUME NEW n, calls' = [calls EXCEPT ![c] = n], UNCHANGED Store,
             n.at \notin {"classifying", "inserting", "tracing", "totalling", "closing"},
             TracksLines(c)
      PROVE  Moves(c)
  <2>1. calls'[c] = n /\ \A d \in Calls \ {c} : calls'[d] = calls[d]
    BY <1>0, <1>1 DEF Typed
  <2>2. HashesOf(c)' = {} /\ InsertsByDay(c)'
    BY <1>1, <2>1 DEF HashesOf, Inserted, HasInserted, InsertsByDay
  <2> QED  BY <1>1, <2>1, <2>2 DEF Moves, CreatesStatement, InsertsRows, TakesTrail,
             ReadsStatements, InTransaction, HoldsTrail
<1>2. ASSUME NEW n, calls' = [calls EXCEPT ![c] = n], n \in Ended  PROVE TracksLines(c)
  BY <1>0, <1>2 DEF TracksLines
<1>3. ASSUME NEW n \in Ended, calls' = [calls EXCEPT ![c] = n], UNCHANGED Store  PROVE Moves(c)
  <2>1. n.at \notin {"classifying", "inserting", "tracing", "totalling", "closing"}
    BY <1>3 DEF Ended, Idle, Failed, Refused
  <2> QED  BY <1>1, <1>2, <1>3, <2>1
<1>4. ASSUME NEW f \in Files, NEW a \in BankAccounts, Receive(c, f, a)  PROVE Moves(c)
  <2> DEFINE n == [at |-> "hashing", file |-> f, account |-> a, number |-> accounts[a].number]
  <2>1. calls' = [calls EXCEPT ![c] = n] /\ UNCHANGED Store
    BY <1>4 DEF Receive
  <2>2. n \in Looking
    BY <1>4 DEF Typed, Looking
  <2>3. TracksLines(c)
    BY <1>0, <2>1, <2>2 DEF TracksLines
  <2> QED  BY <1>1, <2>1, <2>3
<1>5. ASSUME LookUp(c)  PROVE Moves(c)
  <2> DEFINE fresh == Fresh(c)
             read == [at |-> "opening", file |-> k.file, account |-> k.account,
                      number |-> k.number, fresh |-> fresh,
                      rejected |-> fresh \intersect Repeated(k.file)]
             n == IF NothingNew(fresh) THEN Answer(read, "skipped") ELSE read
  <2>1. calls' = [calls EXCEPT ![c] = n] /\ UNCHANGED Store
    BY <1>5 DEF LookUp
  <2>2. calls'[c] = n
    BY <1>0, <2>1
  <2>3. n.at \notin {"classifying", "inserting", "tracing", "totalling", "closing"}
    BY DEF Answer
  <2>4. n.file = k.file /\ n.number = k.number
    BY DEF Answer
  <2>5. \A l \in LinesOf(k.file) : l \in fresh \/ Hash(k.number, l) \in Stored
    BY DEF Fresh
  <2>6. fresh # {} => ToStore(c)' = fresh
    BY <2>2 DEF NothingNew, ToStore
  <2>7. TracksLines(c)
    BY <2>2, <2>4, <2>5, <2>6 DEF TracksLines, NothingNew
  <2> QED  BY <1>1, <2>1, <2>3, <2>7
<1>6. ASSUME OpenStatement(c)  PROVE Moves(c)
  <2>1. CASE Taken(c)
    <3>1. calls' = [calls EXCEPT ![c] = Refused] /\ UNCHANGED Store /\ Refused \in Ended
      BY <1>6, <2>1 DEF OpenStatement, Ended
    <3> QED  BY <1>3, <3>1
  <2>2. CASE ~ Taken(c)
    <3>1. k \in Opening /\ Vacant(c) /\ k.at = "opening"
      BY <1>0, <1>6, Kinds DEF OpenStatement
    <3>2. calls' = [calls EXCEPT ![c] = [k EXCEPT !.at = "classifying"]] /\ UNCHANGED Store
      BY <1>6, <2>2 DEF OpenStatement
    <3>3. calls'[c] = [k EXCEPT !.at = "classifying"] /\ \A d \in Calls \ {c} : calls'[d] = calls[d]
      BY <1>0, <3>2 DEF Typed
    <3>4. /\ calls'[c].at = "classifying" /\ calls'[c].file = k.file
          /\ calls'[c].number = k.number /\ calls'[c].account = k.account
          /\ calls'[c].fresh = k.fresh /\ calls'[c].rejected = k.rejected
      BY <3>1, <3>3 DEF Opening
    <3>5. CreatesStatement(c)
      BY <2>2, <3>1, <3>4 DEF CreatesStatement, Key
    <3>6. ToStore(c)' = ToStore(c)
      BY <3>1, <3>4 DEF ToStore
    <3>7. k \notin Ended \union Looking
      BY <3>1 DEF Ended, Idle, Failed, Refused, Looking
    <3>8. TracksLines(c)
      BY <3>4, <3>6, <3>7 DEF TracksLines, LinesTracked
    <3>9. HashesOf(c)' = {} /\ InsertsByDay(c)'
      BY <3>4 DEF HashesOf, Inserted, HasInserted, InsertsByDay
    <3> QED  BY <3>2, <3>3, <3>4, <3>5, <3>8, <3>9
             DEF Moves, InsertsRows, TakesTrail, ReadsStatements, HoldsTrail
  <2> QED  BY <2>1, <2>2
<1>7. ASSUME NEW verdict \in [k.fresh -> Verdicts], Classify(c, verdict)  PROVE Moves(c)
  <2>1. CASE Failing(k, verdict) = k.fresh
    <3>1. calls' = [calls EXCEPT ![c] = Failed] /\ UNCHANGED Store /\ Failed \in Ended
      BY <1>7, <2>1 DEF Classify, Ended
    <3> QED  BY <1>3, <3>1
  <2>2. CASE Failing(k, verdict) # k.fresh
    <3> DEFINE m == [at |-> "inserting", file |-> k.file, account |-> k.account,
                     number |-> k.number, fresh |-> k.fresh,
                     rejected |-> Reports(k, verdict), verdict |-> verdict, done |-> {}]
    <3>1. k \in Opening /\ k.at = "classifying"
      BY <1>0, <1>7, Kinds DEF Classify
    <3>2. calls' = [calls EXCEPT ![c] = m] /\ UNCHANGED Store
      BY <1>7, <2>2 DEF Classify
    <3>3. calls'[c] = m /\ \A d \in Calls \ {c} : calls'[d] = calls[d]
      BY <1>0, <3>2 DEF Typed
    <3>4. CreatesStatement(c)
      BY <3>1, <3>3 DEF CreatesStatement, Key, InTransaction
    <3>5. ToStore(c) = k.fresh /\ ToStore(c)' = {l \in k.fresh : verdict[l] # "error"}
      BY <3>1, <3>3 DEF ToStore, Kept
    <3>6. k \notin Ended \union Looking
      BY <3>1 DEF Ended, Idle, Failed, Refused, Looking
    <3>7. \A l \in k.fresh : l \in ToStore(c)' \/ l \in m.rejected
      BY <3>5 DEF Reports, Failing
    <3>8. k.rejected \subseteq m.rejected
      BY DEF Reports
    <3>9. TracksLines(c)
      BY <3>3, <3>5, <3>6, <3>7, <3>8 DEF TracksLines, LinesTracked
    <3>10. calls'[c].at = "inserting" /\ calls'[c].done = {}
      BY <3>3
    <3>11. HashesOf(c)' = {} /\ InsertsByDay(c)'
      BY <3>10 DEF HashesOf, Inserted, InsertsByDay
    <3> QED  BY <3>2, <3>3, <3>4, <3>9, <3>10, <3>11
             DEF Moves, InsertsRows, TakesTrail, ReadsStatements, HoldsTrail
  <2> QED  BY <2>1, <2>2
<1>8. ASSUME NEW n, calls' = [calls EXCEPT ![c] = n], k.at \in {"inserting", "tracing"},
             n.at \in {"inserting", "tracing", "totalling"}, n.rejected = k.rejected,
             n.account = k.account, n.number = k.number, n.file = k.file,
             n.fresh = k.fresh, n.verdict = k.verdict
      PROVE  /\ \A d \in Calls \ {c} : calls'[d] = calls[d]
             /\ calls'[c] = n /\ SameCall(c)
             /\ CreatesStatement(c)
             /\ ReadsStatements(c)
             /\ TracksLines(c)
  <2>1. calls'[c] = n /\ \A d \in Calls \ {c} : calls'[d] = calls[d]
    BY <1>0, <1>8 DEF Typed
  <2>2. SameCall(c)
    BY <1>8, <2>1 DEF SameCall
  <2>3. Key(c)' = Key(c) /\ Kept(c)' = Kept(c)
    BY <2>2, Carried
  <2>4. CreatesStatement(c)
    BY <1>8, <2>3 DEF CreatesStatement, InTransaction
  <2>5. ToStore(c)' = ToStore(c)
    BY <1>8, <2>1, <2>3 DEF ToStore
  <2>6. k \notin Ended \union Looking
    BY <1>8 DEF Ended, Idle, Failed, Refused, Looking
  <2>7. TracksLines(c)
    BY <1>8, <2>1, <2>5, <2>6 DEF TracksLines, LinesTracked
  <2> QED  BY <1>8, <2>1, <2>2, <2>4, <2>7 DEF ReadsStatements
<1>9. ASSUME NEW l \in Kept(c), InsertRow(c, l)  PROVE Moves(c)
  <2> DEFINE m == [k EXCEPT !.done = @ \union {l}]
             w == [at |-> "tracing", file |-> k.file, account |-> k.account,
                   number |-> k.number, fresh |-> k.fresh, rejected |-> k.rejected,
                   verdict |-> k.verdict]
             h == Hash(k.number, l)
  <2>1. k \in Inserting /\ k.at = "inserting" /\ Turn(c, l) /\ Clear(c, l) /\ UNCHANGED Store
    BY <1>0, <1>9, Kinds DEF InsertRow
  <2>2. CASE ~ Unique(c, l)
    <3>1. calls' = [calls EXCEPT ![c] = Failed] /\ Failed \in Ended
      BY <1>9, <2>2 DEF InsertRow, Ended
    <3> QED  BY <1>3, <2>1, <3>1
  <2>3. ASSUME Unique(c, l), SameCall(c), HashesOf(c)' = HashesOf(c) \union {h},
               \A d \in Calls \ {c} : calls'[d] = calls[d],
               CreatesStatement(c), ReadsStatements(c), TracksLines(c), InsertsByDay(c)',
               calls'[c].at \in {"inserting", "tracing"}
        PROVE  Moves(c)
    <3>1. h \notin Stored
      BY <2>3 DEF Unique
    <3>2. \A d \in Calls \ {c} : h \notin HashesOf(d)
      BY <2>1 DEF Clear, InsertedBy, HashesOf
    <3>3. InsertsRows(c)
      <4> HIDE DEF h
      <4> QED  BY <2>3, <3>1, <3>2 DEF InsertsRows
    <3>4. TakesTrail(c)
      BY <2>3 DEF TakesTrail, HoldsTrail
    <3> QED  BY <2>1, <2>3, <3>3, <3>4 DEF Moves
  <2>4. k.done \subseteq Lines /\ Kept(c) \subseteq Lines /\ \A j \in Lines : Day[j] \in Int
    BY <1>0, <2>1, KeptTyped, IntakeAssumption DEF Inserting, Judged
  <2>5. CASE Unique(c, l) /\ k.done \union {l} # Kept(c)
    <3>1. calls' = [calls EXCEPT ![c] = m]
      BY <1>9, <2>5 DEF InsertRow
    <3>2. /\ m.at = "inserting" /\ m.file = k.file /\ m.fresh = k.fresh /\ m.rejected = k.rejected
          /\ m.account = k.account /\ m.number = k.number
          /\ m.verdict = k.verdict /\ m.done = k.done \union {l}
      BY <2>1 DEF Inserting
    <3> HIDE DEF m
    <3>3. /\ \A d \in Calls \ {c} : calls'[d] = calls[d]
          /\ calls'[c] = m /\ SameCall(c)
          /\ CreatesStatement(c) /\ ReadsStatements(c) /\ TracksLines(c)
      BY <1>8, <2>1, <3>1, <3>2
    <3>4. Inserted(c)' = Inserted(c) \union {l}
      BY <2>1, <3>2, <3>3 DEF Inserted
    <3>5. HashesOf(c)' = HashesOf(c) \union {h}
      <4>1. HashesOf(c)' = {Hash(k.number, j) : j \in Inserted(c)'}
        BY <3>2, <3>3 DEF HashesOf
      <4> QED  BY <3>4, <4>1 DEF HashesOf
    <3>6. Kept(c)' = Kept(c)
      BY <3>3, Carried
    <3>7. ASSUME NEW i \in m.done, NEW j \in Kept(c) \ m.done  PROVE Day[i] <= Day[j]
      <4>1. j \in Kept(c) \ k.done /\ j \in Lines /\ i \in Lines
        BY <2>4, <3>2, <3>7
      <4>2. CASE i = l
        <5>1. ~ Sooner(k.file, j, l)
          BY <2>1, <4>1 DEF Turn
        <5>2. ~ (Day[j] < Day[l])
          BY <5>1 DEF Sooner
        <5>3. Day[j] \in Int /\ Day[l] \in Int
          BY <2>4, <4>1, <4>2
        <5> QED  BY <4>2, <5>2, <5>3
      <4>3. CASE i \in k.done
        BY <2>1, <4>1, <4>3 DEF RowsInOrder, InsertsByDay
      <4> QED  BY <3>2, <4>2, <4>3
    <3>8. InsertsByDay(c)'
      BY <3>3, <3>6, <3>7 DEF InsertsByDay
    <3> QED  BY <2>3, <2>5, <3>2, <3>3, <3>5, <3>8
  <2>6. CASE Unique(c, l) /\ k.done \union {l} = Kept(c)
    <3>1. calls' = [calls EXCEPT ![c] = w]
      BY <1>9, <2>6 DEF InsertRow
    <3>2. /\ \A d \in Calls \ {c} : calls'[d] = calls[d]
          /\ calls'[c] = w /\ SameCall(c)
          /\ CreatesStatement(c) /\ ReadsStatements(c) /\ TracksLines(c)
      BY <1>8, <2>1, <3>1
    <3>3. Kept(c)' = Kept(c) /\ calls'[c].at = "tracing" /\ calls'[c].number = k.number
      BY <3>2, Carried
    <3>4. Inserted(c)' = Inserted(c) \union {l}
      BY <2>1, <2>6, <3>3 DEF Inserted, HasInserted
    <3>5. HashesOf(c)' = HashesOf(c) \union {h}
      <4>1. HashesOf(c)' = {Hash(k.number, j) : j \in Inserted(c)'}
        BY <3>3 DEF HashesOf
      <4> QED  BY <3>4, <4>1 DEF HashesOf
    <3>6. InsertsByDay(c)'
      BY <3>3 DEF InsertsByDay
    <3> QED  BY <2>3, <2>6, <3>2, <3>3, <3>5, <3>6
  <2> QED  BY <2>2, <2>5, <2>6
<1>10. ASSUME TraceAndPost(c)  PROVE Moves(c)
  <2> DEFINE n == [k EXCEPT !.at = "totalling"]
  <2>1. /\ calls' = [calls EXCEPT ![c] = n]
        /\ UNCHANGED Store /\ (NewStatement(c).traced => TrailFree(c))
        /\ k.at = "tracing" /\ k \in Writing
    BY <1>0, <1>10, Kinds DEF TraceAndPost
  <2>2. /\ n.at = "totalling" /\ n.file = k.file /\ n.fresh = k.fresh /\ n.rejected = k.rejected
        /\ n.account = k.account /\ n.number = k.number /\ n.verdict = k.verdict
    BY <2>1 DEF Writing
  <2> HIDE DEF n
  <2>3. /\ \A d \in Calls \ {c} : calls'[d] = calls[d]
        /\ calls'[c] = n /\ SameCall(c)
        /\ CreatesStatement(c) /\ ReadsStatements(c) /\ TracksLines(c)
    BY <1>8, <2>1, <2>2
  <2>4. Kept(c)' = Kept(c) /\ NewStatement(c)' = NewStatement(c)
    BY <2>3, Carried
  <2>5. Inserted(c)' = Inserted(c)
    BY <2>1, <2>2, <2>3, <2>4 DEF Inserted, HasInserted
  <2>6. HashesOf(c)' = HashesOf(c)
    BY <2>2, <2>3, <2>5 DEF HashesOf
  <2>7. InsertsRows(c) /\ InsertsByDay(c)'
    BY <2>2, <2>3, <2>6 DEF InsertsRows, InsertsByDay
  <2>8. TakesTrail(c)
    BY <2>1, <2>4 DEF TakesTrail, HoldsTrail
  <2> QED  BY <2>1, <2>3, <2>7, <2>8 DEF Moves
<1>11. ASSUME ReadStatements(c)  PROVE Moves(c)
  <2> DEFINE n == [at |-> "closing", file |-> k.file, account |-> k.account,
                   number |-> k.number, fresh |-> k.fresh, rejected |-> k.rejected,
                   verdict |-> k.verdict,
                   initial |-> Oldest(Seen(c)).opening, balance |-> Newest(Seen(c)).closing]
  <2>1. calls' = [calls EXCEPT ![c] = n] /\ UNCHANGED Store /\ k.at = "totalling"
    BY <1>11 DEF ReadStatements, Seen
  <2>2. calls'[c] = n /\ \A d \in Calls \ {c} : calls'[d] = calls[d]
    BY <1>0, <2>1 DEF Typed
  <2>3. /\ calls'[c].at = "closing" /\ SameCall(c) /\ calls'[c].rejected = k.rejected
        /\ calls'[c].balance = Newest(Seen(c)).closing
        /\ calls'[c].initial = Oldest(Seen(c)).opening
    BY <2>2 DEF SameCall
  <2> HIDE DEF n
  <2>4. /\ Key(c)' = Key(c) /\ Kept(c)' = Kept(c)
        /\ NewStatement(c)' = NewStatement(c)
    BY <2>3, Carried
  <2>10. Inserted(c)' = Inserted(c)
    BY <2>1, <2>3, <2>4 DEF Inserted, HasInserted
  <2>11. HashesOf(c)' = HashesOf(c) /\ InsertsByDay(c)'
    BY <2>3, <2>10 DEF HashesOf, SameCall, InsertsByDay
  <2>5. CreatesStatement(c) /\ InsertsRows(c) /\ TakesTrail(c)
    BY <2>1, <2>4, <2>11 DEF CreatesStatement, InsertsRows, TakesTrail, InTransaction, HoldsTrail
  <2>6. ToStore(c)' = ToStore(c)
    BY <2>1, <2>3, <2>4 DEF ToStore
  <2>7. k \notin Ended \union Looking
    BY <2>1 DEF Ended, Idle, Failed, Refused, Looking
  <2>8. TracksLines(c)
    BY <2>3, <2>6, <2>7 DEF TracksLines, LinesTracked, SameCall
  <2>9. ReadsStatements(c)
    BY <2>3, <2>4 DEF ReadsStatements, SameCall
  <2> QED  BY <2>1, <2>2, <2>5, <2>8, <2>9, <2>11 DEF Moves
<1>12. ASSUME Abort(c)  PROVE Moves(c)
  <2>1. calls' = [calls EXCEPT ![c] = Failed] /\ UNCHANGED Store /\ Failed \in Ended
    BY <1>12 DEF Abort, Ended
  <2> QED  BY <1>3, <2>1
<1> QED  BY <1>4, <1>5, <1>6, <1>7, <1>9, <1>10, <1>11, <1>12

-----------------------------------------------------------------------------
(* Steps of people and rules.                                              *)

\* A row takes another classification.
Replaces(r, q) ==
    /\ rows' = (rows \ {r}) \union {q}
    /\ q.hash = r.hash /\ q.line = r.line /\ KeyOf(q) = KeyOf(r)

\* A row that is classified again keeps its hash, its line and its statement.
LEMMA Retyped ==
  ASSUME Typed, NEW r \in rows
  PROVE  /\ ByPerson(r).hash = r.hash /\ ByPerson(r).line = r.line
         /\ KeyOf(ByPerson(r)) = KeyOf(r) /\ ByPerson(r).by = "person"
         /\ ByRule(r).hash = r.hash /\ ByRule(r).line = r.line /\ KeyOf(ByRule(r)) = KeyOf(r)
  BY DEF Typed, RowType, ByPerson, ByRule, KeyOf

\* Hence every statement keeps the lines of its rows.
LEMMA ReplacedRows ==
  ASSUME NEW r \in rows, NEW q, Replaces(r, q), UNCHANGED <<statements, calls>>
  PROVE  /\ Stored' = Stored
         /\ \A s : RowsOf(s)' = {} <=> RowsOf(s) = {}
         /\ \A s : {t.line : t \in RowsOf(s)'} = {t.line : t \in RowsOf(s)}
<1>1. Stored' = Stored
  BY DEF Replaces, Stored
<1>2. \A s : q \in RowsOf(s)' <=> r \in RowsOf(s)
  BY DEF Replaces, RowsOf
<1>3. \A s, t : t # r /\ t # q => (t \in RowsOf(s)' <=> t \in RowsOf(s))
  BY DEF Replaces, RowsOf
<1>4. \A s : RowsOf(s) \subseteq rows /\ RowsOf(s)' \subseteq rows'
  BY DEF RowsOf
<1>5. q \in rows' /\ (r \in rows' => r = q \/ FALSE) /\ q.line = r.line
  BY DEF Replaces
<1>6. \A s : q \in RowsOf(s) => q = r \/ q \in RowsOf(s)'
  BY DEF Replaces, RowsOf
<1>7. \A s : r \in RowsOf(s)' => r = q
  BY <1>4, <1>5
<1>8. ASSUME NEW s  PROVE \A t \in RowsOf(s) : \E u \in RowsOf(s)' : u.line = t.line
  <2>1. SUFFICES ASSUME NEW t \in RowsOf(s)  PROVE \E u \in RowsOf(s)' : u.line = t.line
    OBVIOUS
  <2>2. CASE t = r
    BY <1>2, <1>5, <2>1, <2>2
  <2>3. CASE t = q /\ t # r
    BY <1>6, <2>1, <2>3
  <2>4. CASE t # r /\ t # q
    BY <1>3, <2>1, <2>4
  <2> QED  BY <2>2, <2>3, <2>4
<1>9. ASSUME NEW s  PROVE \A u \in RowsOf(s)' : \E t \in RowsOf(s) : u.line = t.line
  <2>1. SUFFICES ASSUME NEW u \in RowsOf(s)'  PROVE \E t \in RowsOf(s) : u.line = t.line
    OBVIOUS
  <2>2. CASE u = q
    BY <1>2, <1>5, <2>1, <2>2
  <2>3. CASE u = r
    BY <1>2, <1>5, <1>7, <2>1, <2>3
  <2>4. CASE u # r /\ u # q
    BY <1>3, <2>1, <2>4
  <2> QED  BY <2>2, <2>3, <2>4
<1>10. \A s : RowsOf(s)' = {} <=> RowsOf(s) = {}
  BY <1>8, <1>9
<1>11. \A s : {t.line : t \in RowsOf(s)'} = {t.line : t \in RowsOf(s)}
  <2>1. SUFFICES ASSUME NEW s  PROVE {t.line : t \in RowsOf(s)'} = {t.line : t \in RowsOf(s)}
    OBVIOUS
  <2>2. \A t \in RowsOf(s) : \E u \in RowsOf(s)' : u.line = t.line
    BY <1>8
  <2>3. \A u \in RowsOf(s)' : \E t \in RowsOf(s) : u.line = t.line
    BY <1>9
  <2> DEFINE A == RowsOf(s)
             B == RowsOf(s)'
  <2> HIDE DEF A, B
  <2>4. {t.line : t \in B} = {t.line : t \in A}
    BY <2>2, <2>3 DEF A, B
  <2> QED  BY <2>4 DEF A, B
<1> QED  BY <1>1, <1>10, <1>11

\* Nothing else changes that the imports rely on.
Decides ==
    /\ UNCHANGED <<statements, calls>>
    /\ rows' = rows \/ \E r \in rows : \E q : Replaces(r, q)

\* No balance changes, nor what is known of it.
SameBalances ==
    /\ UNCHANGED <<statements, edits, outdated>>
    /\ \A a \in BankAccounts :
         accounts'[a].balance = accounts[a].balance /\ accounts'[a].initial = accounts[a].initial

\* Then balances and edits agree with the statements as before.
LEMMA BalancesKept ==
  ASSUME BalanceIsNewestClosing, EditsStand, SameBalances
  PROVE  BalanceIsNewestClosing' /\ EditsStand'
<1>1. \A a : StatementsOf(a)' = StatementsOf(a)
  BY DEF SameBalances, StatementsOf
<1>2. BalanceIsNewestClosing'
  BY <1>1 DEF BalanceIsNewestClosing, FollowsStatements, SameBalances
<1> QED  BY <1>2 DEF SameBalances, EditsStand

\* Such a step keeps all but the proposals and the balances.
LEMMA DecidesKeep ==
  ASSUME IInv, Decides
  PROVE  /\ HashesKept' /\ KeysKept' /\ StatementsAddUp' /\ LinesTracked' /\ TrailIsAlone'
         /\ ReadingsStand' /\ RowsInOrder'
<1>1. UNCHANGED <<statements, calls>>
  BY DEF Decides
<1>2. /\ Stored' = Stored
      /\ \A s : RowsOf(s)' = {} <=> RowsOf(s) = {}
      /\ \A s : {t.line : t \in RowsOf(s)'} = {t.line : t \in RowsOf(s)}
  <2>1. CASE rows' = rows
    BY <2>1 DEF Stored, RowsOf
  <2>2. CASE \E r \in rows : \E q : Replaces(r, q)
    BY <1>1, <2>2, ReplacedRows
  <2> QED  BY <2>1, <2>2 DEF Decides
<1>3. \A d \in Calls :
        /\ HashesOf(d)' = HashesOf(d) /\ InsertsByDay(d)' = InsertsByDay(d)
        /\ Key(d)' = Key(d) /\ InTransaction(d)' = InTransaction(d)
        /\ ToStore(d)' = ToStore(d) /\ HoldsTrail(d)' = HoldsTrail(d)
        /\ NewStatement(d)' = NewStatement(d)
  BY <1>1, Unmoved
<1>4. \A a : StatementsOf(a)' = StatementsOf(a)
  BY <1>1 DEF StatementsOf
<1>5. HashesAreUnique'
  <2>1. CASE rows' = rows
    BY <2>1 DEF IInv, HashesKept, HashesAreUnique
  <2>2. CASE \E r \in rows : \E q : Replaces(r, q)
    BY <2>2 DEF IInv, HashesKept, HashesAreUnique, Replaces
  <2> QED  BY <2>1, <2>2 DEF Decides
<1>6. HashesKept'
  BY <1>2, <1>3, <1>5 DEF IInv, HashesKept, InsertedIsNew, InsertedApart
<1>7. KeysKept'
  BY <1>1, <1>3 DEF IInv, KeysKept, KeysAreUnique, CreatedIsNew, CreatedApart, Taken
<1>8. \A r \in rows' : \E s \in statements : KeyOf(s) = KeyOf(r)
  <2>1. CASE rows' = rows
    BY <2>1 DEF IInv, StatementsAddUp
  <2>2. CASE \E r \in rows : \E q : Replaces(r, q)
    BY <2>2 DEF IInv, StatementsAddUp, Replaces
  <2> QED  BY <2>1, <2>2 DEF Decides
<1>9. StatementsAddUp'
  <2>1. ASSUME NEW s \in statements
        PROVE  /\ RowsOf(s)' # {}
               /\ s.credits = Credits({r.line : r \in RowsOf(s)'})
               /\ s.debits = Debits({r.line : r \in RowsOf(s)'})
    BY <1>2 DEF IInv, StatementsAddUp
  <2> QED  BY <1>1, <1>8, <2>1 DEF StatementsAddUp
<1>10. LinesTracked'
  BY <1>1, <1>2, <1>3 DEF IInv, LinesTracked
<1>11. TrailIsAlone'
  BY <1>3 DEF IInv, TrailIsAlone
<1>12. ReadingsStand'
  <2>1. \A d \in Calls : Seen(d)' = Seen(d)
    BY <1>1, <1>3, <1>4 DEF Seen
  <2> QED  BY <1>1, <2>1 DEF IInv, ReadingsStand
<1>13. RowsInOrder'
  BY <1>3 DEF IInv, RowsInOrder
<1> QED  BY <1>6, <1>7, <1>9, <1>10, <1>11, <1>12, <1>13

\* What people and rules do is such a step, and leaves accepted proposals with their rows.
LEMMA PeopleDecide ==
  ASSUME IInv
  PROVE  /\ \A p \in proposals, r \in rows, decision \in {"accepted", "rejected"} :
               Decide(p, r, decision) => Decides /\ SameBalances /\ ProposalsHaveRows'
         /\ \A r \in rows : Reclassify(r) \/ ApplyRule(r)
               => Decides /\ SameBalances /\ ProposalsHaveRows'
<1>2. ASSUME NEW p \in proposals, NEW r \in rows, NEW decision \in {"accepted", "rejected"},
             Decide(p, r, decision)
      PROVE  Decides /\ SameBalances /\ ProposalsHaveRows'
  <2>1. /\ UNCHANGED <<accounts, statements, calls, edits, outdated>>
        /\ p.status = "pending" /\ r.hash = p.hash
        /\ proposals' = (proposals \ {p}) \union {[p EXCEPT !.status = decision]}
        /\ rows' = IF decision = "rejected" THEN rows ELSE (rows \ {r}) \union {ByPerson(r)}
    BY <1>2 DEF Decide, Names
  <2>2. decision # "rejected" => Replaces(r, ByPerson(r))
    BY <2>1, Retyped DEF IInv, Replaces
  <2>3. Decides /\ SameBalances
    BY <2>1, <2>2 DEF Decides, SameBalances
  <2>4. [p EXCEPT !.status = decision].hash = p.hash /\ [p EXCEPT !.status = decision].status = decision
    BY DEF IInv, Typed, ProposalType
  <2>5. ByPerson(r).hash = r.hash /\ ByPerson(r).by = "person"
    BY Retyped DEF IInv
  <2>6. ASSUME NEW o \in proposals'
        PROVE  \E s \in rows' : s.hash = o.hash /\ (o.status = "accepted" => s.by = "person")
    <3>1. CASE o \in proposals
      <4>1. PICK s \in rows : s.hash = o.hash /\ (o.status = "accepted" => s.by = "person")
        BY <3>1 DEF IInv, ProposalsHaveRows
      <4>2. CASE s \in rows'
        BY <4>1, <4>2
      <4>3. CASE s \notin rows'
        BY <2>1, <2>5, <4>1, <4>3
      <4> QED  BY <4>2, <4>3
    <3>2. CASE o = [p EXCEPT !.status = decision]
      <4>1. CASE decision = "rejected"
        BY <2>1, <2>4, <3>2, <4>1
      <4>2. CASE decision = "accepted"
        BY <2>1, <2>4, <2>5, <3>2, <4>2
      <4> QED  BY <4>1, <4>2
    <3> QED  BY <2>1, <3>1, <3>2
  <2> QED  BY <2>3, <2>6 DEF ProposalsHaveRows
<1>3. ASSUME NEW r \in rows, Reclassify(r) \/ ApplyRule(r)
      PROVE  Decides /\ SameBalances /\ ProposalsHaveRows'
  <2>1. PICK q \in {ByPerson(r), ByRule(r)} :
          /\ rows' = (rows \ {r}) \union {q}
          /\ q = ByPerson(r) \/ r.by = "none"
          /\ UNCHANGED <<accounts, statements, proposals, calls, edits, outdated>>
    BY <1>3 DEF Reclassify, ApplyRule, Eligible
  <2>2. Replaces(r, q)
    BY <2>1, Retyped DEF IInv, Replaces
  <2>3. Decides /\ SameBalances
    BY <2>1, <2>2 DEF Decides, SameBalances
  <2>4. ASSUME NEW o \in proposals
        PROVE  \E s \in rows' : s.hash = o.hash /\ (o.status = "accepted" => s.by = "person")
    <3>1. PICK s \in rows : s.hash = o.hash /\ (o.status = "accepted" => s.by = "person")
      BY DEF IInv, ProposalsHaveRows
    <3>2. CASE s # r
      BY <2>1, <3>1, <3>2
    <3>3. CASE s = r
      <4>1. q.hash = o.hash
        BY <2>2, <3>1, <3>3 DEF Replaces
      <4>2. o.status = "accepted" => q.by = "person"
        BY <2>1, <3>1, <3>3, Retyped DEF IInv
      <4> QED  BY <2>1, <4>1, <4>2
    <3> QED  BY <3>2, <3>3
  <2> QED  BY <2>1, <2>3, <2>4 DEF ProposalsHaveRows
<1> QED  BY <1>2, <1>3

\* So are the edits of an account, but that they may write its balance: the one
\* of the statements they have read, if these are still all there are.
LEMMA EditsDecide ==
  ASSUME IInv
  PROVE  /\ \A a \in BankAccounts, n \in Numbers : EditNumber(a, n)
               => Decides /\ ProposalsHaveRows' /\ BalanceIsNewestClosing' /\ EditsStand'
         /\ \A e \in Editors, a \in BankAccounts, b \in Entered : ReadForEdit(e, a, b)
               => Decides /\ ProposalsHaveRows' /\ BalanceIsNewestClosing' /\ EditsStand'
         /\ \A e \in Editors, n \in Numbers : WriteEdit(e, n)
               => Decides /\ ProposalsHaveRows' /\ BalanceIsNewestClosing' /\ EditsStand'
         /\ \A e \in Editors : RefuseEdit(e)
               => Decides /\ ProposalsHaveRows' /\ BalanceIsNewestClosing' /\ EditsStand'
<1>1. ASSUME UNCHANGED <<statements, rows, proposals, calls>>
      PROVE  /\ Decides /\ ProposalsHaveRows'
             /\ \A a : StatementsOf(a)' = StatementsOf(a)
  BY <1>1 DEF IInv, Decides, ProposalsHaveRows, StatementsOf
<1>2. ASSUME NEW e \in Editors, edits' = [edits EXCEPT ![e] = Idle]  PROVE EditsStand'
  BY <1>2 DEF IInv, Typed, EditsStand
<1>3. ASSUME NEW a \in BankAccounts, NEW n \in Numbers, EditNumber(a, n)
      PROVE  Decides /\ ProposalsHaveRows' /\ BalanceIsNewestClosing' /\ EditsStand'
  <2>1. SameBalances
    BY <1>3 DEF IInv, Typed, EditNumber, SameBalances
  <2>2. UNCHANGED <<statements, rows, proposals, calls>>
    BY <1>3 DEF EditNumber
  <2> QED  BY <1>1, <2>1, <2>2, BalancesKept DEF IInv
<1>4. ASSUME UNCHANGED <<accounts, statements, rows, proposals, calls, outdated>>
      PROVE  BalanceIsNewestClosing'
  <2>1. \A a : StatementsOf(a)' = StatementsOf(a)
    BY <1>4 DEF StatementsOf
  <2> QED  BY <1>4, <2>1 DEF IInv, BalanceIsNewestClosing, FollowsStatements
<1>5. ASSUME NEW e \in Editors, NEW a \in BankAccounts, NEW b \in Entered, ReadForEdit(e, a, b)
      PROVE  Decides /\ ProposalsHaveRows' /\ BalanceIsNewestClosing' /\ EditsStand'
  <2>1. UNCHANGED <<accounts, statements, rows, proposals, calls, outdated>>
    BY <1>5 DEF ReadForEdit
  <2>2. EditsStand'
    <3> DEFINE seen == StatementsOf(a)
               x == [at |-> "read", account |-> a, seen |-> seen,
                     initial |-> IF seen = {} THEN b ELSE Oldest(seen).opening,
                     balance |-> IF seen = {} THEN b ELSE Newest(seen).closing]
    <3>1. edits' = [edits EXCEPT ![e] = x]
      BY <1>5 DEF ReadForEdit
    <3>2. x.seen # {} => /\ x.balance = Newest(x.seen).closing
                         /\ x.initial = Oldest(x.seen).opening
      OBVIOUS
    <3> HIDE DEF x
    <3>3. edits'[e] = x /\ \A f \in Editors \ {e} : edits'[f] = edits[f]
      BY <3>1 DEF IInv, Typed
    <3> QED  BY <3>2, <3>3 DEF IInv, EditsStand
  <2> QED  BY <1>1, <1>4, <2>1, <2>2
<1>6. ASSUME NEW e \in Editors, NEW n \in Numbers, WriteEdit(e, n)
      PROVE  Decides /\ ProposalsHaveRows' /\ BalanceIsNewestClosing' /\ EditsStand'
  <2> DEFINE a == edits[e].account
  <2>1. /\ UNCHANGED <<statements, rows, proposals, calls>>
        /\ edits[e] # Idle /\ edits' = [edits EXCEPT ![e] = Idle]
        /\ accounts' = [accounts EXCEPT ![a] = [number |-> n, initial |-> edits[e].initial,
                                                balance |-> edits[e].balance]]
        /\ outdated' = IF StatementsOf(a) = edits[e].seen THEN outdated \ {a}
                       ELSE outdated \union {a}
    BY <1>6 DEF WriteEdit
  <2>2. a \in BankAccounts
    BY <2>1 DEF IInv, Typed, EditType
  <2>3. /\ accounts'[a].balance = edits[e].balance /\ accounts'[a].initial = edits[e].initial
        /\ \A b \in BankAccounts \ {a} : accounts'[b] = accounts[b]
    BY <2>1, <2>2 DEF IInv, Typed
  <2>4. \A b : StatementsOf(b)' = StatementsOf(b)
    BY <1>1, <2>1
  <2>5. ASSUME NEW b \in BankAccounts, b \notin outdated'  PROVE FollowsStatements(b)'
    <3>1. CASE b = a
      <4>1. StatementsOf(a) = edits[e].seen
        BY <2>1, <2>5, <3>1
      <4>2. StatementsOf(a) # {} => /\ edits[e].balance = Newest(StatementsOf(a)).closing
                                    /\ edits[e].initial = Oldest(StatementsOf(a)).opening
        BY <2>1, <4>1 DEF IInv, EditsStand
      <4> QED  BY <2>3, <2>4, <3>1, <4>2 DEF FollowsStatements
    <3>2. CASE b # a
      <4>1. FollowsStatements(b)
        BY <2>1, <2>5, <3>2 DEF IInv, BalanceIsNewestClosing
      <4> QED  BY <2>3, <2>4, <3>2, <4>1 DEF FollowsStatements
    <3> QED  BY <3>1, <3>2
  <2>6. BalanceIsNewestClosing'
    BY <2>5 DEF BalanceIsNewestClosing
  <2> QED  BY <1>1, <1>2, <2>1, <2>6
<1>7. ASSUME NEW e \in Editors, RefuseEdit(e)
      PROVE  Decides /\ ProposalsHaveRows' /\ BalanceIsNewestClosing' /\ EditsStand'
  <2>1. /\ UNCHANGED <<accounts, statements, rows, proposals, calls, outdated>>
        /\ edits' = [edits EXCEPT ![e] = Idle]
    BY <1>7 DEF RefuseEdit
  <2> QED  BY <1>1, <1>2, <1>4, <2>1
<1> QED  BY <1>3, <1>5, <1>6, <1>7

-----------------------------------------------------------------------------
(* The commit of an import.                                                *)

\* Two lines under one number have two hashes.
LEMMA HashIsInjective ==
  ASSUME NEW n, NEW m, NEW l, NEW j, Hash(n, l) = Hash(m, j)
  PROVE  n = m /\ l = j
  BY DEF Hash

\* What a commit changes, put in the terms of the invariant.
LEMMA Committed ==
  ASSUME IInv, NEW c \in Calls, Commit(c)
  PROVE  /\ calls[c].at = "closing" /\ Judged(calls[c]) /\ CallType(calls[c])
         /\ calls[c].account \in BankAccounts
         /\ InTransaction(c) /\ HasInserted(c) /\ Inserted(c) = Kept(c)
         /\ \A d \in Calls \ {c} : calls'[d] = calls[d]
         /\ calls'[c] = Answer(calls[c], "imported")
         /\ ~ InTransaction(c)' /\ Inserted(c)' = {} /\ InsertsByDay(c)' /\ ~ HoldsTrail(c)'
         /\ statements' = statements \union {NewStatement(c)}
         /\ rows' = rows \union {NewRow(c, l) : l \in Kept(c)}
         /\ Stored' = Stored \union HashesOf(c)
         /\ \A l \in Kept(c) : NewRow(c, l).hash = Hash(calls[c].number, l)
<1>1. calls[c].at = "closing" /\ CallType(calls[c])
  BY DEF IInv, Typed, Commit
<1>2. Judged(calls[c]) /\ InTransaction(c) /\ HasInserted(c) /\ Inserted(c) = Kept(c)
  BY <1>1 DEF Judged, InTransaction, HasInserted, Inserted
<1>3. calls[c].account \in BankAccounts
  BY <1>1, Kinds DEF Closing
<1>4. /\ \A d \in Calls \ {c} : calls'[d] = calls[d]
      /\ calls'[c] = Answer(calls[c], "imported")
  BY DEF IInv, Typed, Commit
<1>5. ~ InTransaction(c)' /\ Inserted(c)' = {} /\ InsertsByDay(c)' /\ ~ HoldsTrail(c)'
  BY <1>4 DEF Answer, InTransaction, HasInserted, Inserted, InsertsByDay, HoldsTrail
<1>6. /\ statements' = statements \union {NewStatement(c)}
      /\ rows' = rows \union {NewRow(c, l) : l \in Kept(c)}
  BY DEF Commit
<1>7. \A l \in Kept(c) : NewRow(c, l).hash = Hash(calls[c].number, l)
  BY DEF NewRow
<1>8. Stored' = Stored \union HashesOf(c)
  <2>1. Stored' = {r.hash : r \in rows'}
    BY DEF Stored
  <2>2. HashesOf(c) = {NewRow(c, l).hash : l \in Kept(c)}
    BY <1>2, <1>7 DEF HashesOf
  <2> QED  BY <1>6, <2>1, <2>2 DEF Stored
<1> QED  BY <1>1, <1>2, <1>3, <1>4, <1>5, <1>6, <1>7, <1>8

\* A commit stores hashes that nobody has stored or inserted.
LEMMA CommitHashes ==
  ASSUME IInv, NEW c \in Calls, Commit(c)
  PROVE  HashesKept'
<1>1. \A d \in Calls \ {c} : HashesOf(d)' = HashesOf(d)
  BY Committed, Unmoved
<1>5. HashesOf(c)' = {}
  BY Committed DEF HashesOf
<1>2. ASSUME NEW r \in rows', NEW s \in rows', r.hash = s.hash  PROVE r = s
  <2>1. \A l \in Kept(c) : NewRow(c, l).hash \in HashesOf(c)
    BY Committed DEF HashesOf
  <2>2. \A t \in rows : t.hash \notin HashesOf(c)
    BY Committed DEF IInv, HashesKept, InsertedIsNew, Stored
  <2>3. CASE r \in rows /\ s \in rows
    BY <1>2, <2>3 DEF IInv, HashesKept, HashesAreUnique
  <2>4. CASE r \notin rows
    <3>1. PICK l \in Kept(c) : r = NewRow(c, l)
      BY Committed, <2>4
    <3>2. s \notin rows
      BY <1>2, <2>1, <2>2, <3>1
    <3>3. PICK j \in Kept(c) : s = NewRow(c, j)
      BY Committed, <3>2
    <3>4. Hash(calls[c].number, l) = Hash(calls[c].number, j)
      BY Committed, <1>2, <3>1, <3>3
    <3>5. l = j
      BY <3>4, HashIsInjective
    <3> QED  BY <3>1, <3>3, <3>5
  <2>5. CASE s \notin rows /\ r \in rows
    <3>1. PICK l \in Kept(c) : s = NewRow(c, l)
      BY Committed, <2>5
    <3> QED  BY <1>2, <2>1, <2>2, <2>5, <3>1
  <2> QED  BY <2>3, <2>4, <2>5
<1>3. ASSUME NEW d \in Calls  PROVE HashesOf(d)' \intersect Stored' = {}
  <2>1. CASE d = c
    BY <1>5, <2>1
  <2>2. CASE d # c
    <3>1. HashesOf(d) \intersect Stored = {} /\ HashesOf(d) \intersect HashesOf(c) = {}
      BY <2>2 DEF IInv, HashesKept, InsertedIsNew, InsertedApart
    <3> QED  BY <1>1, <2>2, <3>1, Committed
  <2> QED  BY <2>1, <2>2
<1>4. ASSUME NEW d \in Calls, NEW e \in Calls, d # e
      PROVE  HashesOf(d)' \intersect HashesOf(e)' = {}
  <2>1. CASE d = c \/ e = c
    BY <1>5, <2>1
  <2>2. CASE d # c /\ e # c
    BY <1>1, <1>4, <2>2 DEF IInv, HashesKept, InsertedApart
  <2> QED  BY <2>1, <2>2
<1> QED  BY <1>2, <1>3, <1>4 DEF HashesKept, HashesAreUnique, InsertedIsNew, InsertedApart

\* A commit stores a statement whose key nobody has.
LEMMA CommitKeys ==
  ASSUME IInv, NEW c \in Calls, Commit(c)
  PROVE  KeysKept'
<1>1. \A d \in Calls \ {c} : Key(d)' = Key(d) /\ InTransaction(d)' = InTransaction(d)
  BY Committed, Unmoved
<1>2. KeyOf(NewStatement(c)) = Key(c)
  BY Committed, NewStatementTyped
<1>3. \A s \in statements : KeyOf(s) # Key(c)
  BY Committed DEF IInv, KeysKept, CreatedIsNew, Taken
<1>4. KeysAreUnique'
  BY Committed, <1>2, <1>3 DEF IInv, KeysKept, KeysAreUnique
<1>5. ASSUME NEW d \in Calls, InTransaction(d)'  PROVE ~ Taken(d)'
  <2>1. d # c /\ InTransaction(d) /\ Key(d)' = Key(d)
    BY <1>1, <1>5, Committed
  <2>2. Key(d) # Key(c) /\ \A s \in statements : KeyOf(s) # Key(d)
    BY <2>1, Committed DEF IInv, KeysKept, CreatedIsNew, CreatedApart, Taken
  <2>3. \A s \in statements' : KeyOf(s) # Key(d)
    BY <1>2, <2>2, Committed
  <2> QED  BY <2>1, <2>3 DEF Taken
<1>6. ASSUME NEW d \in Calls, NEW e \in Calls, InTransaction(d)', InTransaction(e)', d # e
      PROVE  Key(d)' # Key(e)'
  <2>1. d # c /\ e # c
    BY <1>6, Committed
  <2> QED  BY <1>1, <1>6, <2>1 DEF IInv, KeysKept, CreatedApart
<1> QED  BY <1>4, <1>5, <1>6 DEF KeysKept, CreatedIsNew, CreatedApart

\* The statement stored comes with its rows, and no other row is of its key.
LEMMA CommitAddsUp ==
  ASSUME IInv, NEW c \in Calls, Commit(c)
  PROVE  StatementsAddUp'
<1> DEFINE N == {NewRow(c, l) : l \in Kept(c)}
           new == NewStatement(c)
<1>1. rows' = rows \union N /\ statements' = statements \union {new}
  BY Committed
<1>2. KeyOf(new) = Key(c)
  BY Committed, NewStatementTyped
<1>3. \A l \in Kept(c) : KeyOf(NewRow(c, l)) = Key(c) /\ NewRow(c, l).line = l
  BY Committed, NewRowTyped
<1>4. \A s \in statements : KeyOf(s) # Key(c)
  BY Committed DEF IInv, KeysKept, CreatedIsNew, Taken
<1>5. \A r \in rows : KeyOf(r) # Key(c)
  BY <1>4 DEF IInv, StatementsAddUp
<1>6. \A s \in statements : RowsOf(s)' = RowsOf(s)
  <2>1. SUFFICES ASSUME NEW s \in statements  PROVE RowsOf(s)' = RowsOf(s)
    OBVIOUS
  <2>2. RowsOf(s)' = {r \in rows' : KeyOf(r) = KeyOf(s)}
    BY DEF RowsOf
  <2>3. \A r \in N : KeyOf(r) # KeyOf(s)
    BY <1>3, <1>4
  <2> HIDE DEF N
  <2> QED  BY <1>1, <2>2, <2>3 DEF RowsOf
<1>7. {r \in rows' : KeyOf(r) = KeyOf(new)} = N
  <2>1. \A r \in N : KeyOf(r) = KeyOf(new)
    BY <1>2, <1>3
  <2>2. \A r \in rows : KeyOf(r) # KeyOf(new)
    BY <1>2, <1>5
  <2> HIDE DEF N, new
  <2> QED  BY <1>1, <2>1, <2>2
<1>8. {r.line : r \in N} = Kept(c)
  BY <1>3
<1>9. N # {}
  BY Committed, KeptTyped
<1>10. new.credits = Credits(Kept(c)) /\ new.debits = Debits(Kept(c))
  BY DEF NewStatement, Summed
<1>11. ASSUME NEW s \in statements'
       PROVE  /\ RowsOf(s)' # {}
              /\ s.credits = Credits({r.line : r \in RowsOf(s)'})
              /\ s.debits = Debits({r.line : r \in RowsOf(s)'})
  <2>1. CASE s \in statements
    BY <1>6, <2>1 DEF IInv, StatementsAddUp
  <2>2. CASE s = new
    <3>1. RowsOf(s)' = N
      BY <1>7, <2>2 DEF RowsOf
    <3> HIDE DEF N, new
    <3> QED  BY <1>8, <1>9, <1>10, <2>2, <3>1
  <2> QED  BY <1>1, <2>1, <2>2
<1>12. \A r \in rows' : \E s \in statements' : KeyOf(s) = KeyOf(r)
  <2>1. SUFFICES ASSUME NEW r \in rows'  PROVE \E s \in statements' : KeyOf(s) = KeyOf(r)
    OBVIOUS
  <2>2. CASE r \in rows
    BY <1>1, <2>2 DEF IInv, StatementsAddUp
  <2>3. CASE r \in N
    BY <1>1, <1>2, <1>3, <2>3
  <2> QED  BY <1>1, <2>2, <2>3
<1> QED  BY <1>11, <1>12 DEF StatementsAddUp

\* Proposals come with their rows, every line is stored, and whoever else read the account's
\* statements under the lock of the trail has not committed: there is no such call.
LEMMA CommitRest ==
  ASSUME IInv, NEW c \in Calls, Commit(c)
  PROVE  /\ ProposalsHaveRows' /\ LinesTracked' /\ TrailIsAlone' /\ ReadingsStand'
         /\ BalanceIsNewestClosing' /\ RowsInOrder' /\ EditsStand'
<1> DEFINE k == calls[c]
           a == k.account
           new == NewStatement(c)
<1>0. \A d \in Calls \ {c} :
        /\ calls'[d] = calls[d] /\ ToStore(d)' = ToStore(d)
        /\ HoldsTrail(d)' = HoldsTrail(d) /\ NewStatement(d)' = NewStatement(d)
        /\ InsertsByDay(d)' = InsertsByDay(d)
  BY Committed, Unmoved
<1>1. ProposalsHaveRows'
  <2>1. proposals' = proposals \union
                    {[hash |-> Hash(k.number, l), status |-> "pending"] : l \in Asked(c)}
    BY DEF Commit
  <2>2. rows \subseteq rows' /\ \A l \in Kept(c) : NewRow(c, l) \in rows'
    BY Committed
  <2>3. ASSUME NEW p \in proposals'
        PROVE  \E r \in rows' : r.hash = p.hash /\ (p.status = "accepted" => r.by = "person")
    <3>1. CASE p \in proposals
      BY <2>2, <3>1 DEF IInv, ProposalsHaveRows
    <3>2. CASE p \notin proposals
      <4>1. PICK l \in Asked(c) : p = [hash |-> Hash(k.number, l), status |-> "pending"]
        BY <2>1, <3>2
      <4>2. l \in Kept(c)
        BY DEF Asked
      <4> QED  BY <2>2, <4>1, <4>2, Committed
    <3> QED  BY <3>1, <3>2
  <2> QED  BY <2>3 DEF ProposalsHaveRows
<1>2. LinesTracked'
  <2>1. ASSUME NEW d \in Calls, calls'[d] \notin Ended \union Looking,
               NEW l \in LinesOf(calls'[d].file)
        PROVE  l \in calls'[d].rejected \/ l \in ToStore(d)'
               \/ Hash(calls'[d].number, l) \in Stored'
    <3>1. CASE d = c
      <4>5. calls'[c] = Answer(k, "imported")
        BY Committed
      <4>1. /\ calls'[c].file = k.file /\ calls'[c].number = k.number
            /\ calls'[c].rejected = k.rejected
        BY <4>5 DEF Answer
      <4>2. ToStore(c) = Kept(c) /\ k \notin Ended \union Looking
        BY Committed DEF ToStore, Ended, Idle, Failed, Refused, Looking
      <4>3. l \in k.rejected \/ l \in Kept(c) \/ Hash(k.number, l) \in Stored
        BY <2>1, <3>1, <4>1, <4>2 DEF IInv, LinesTracked
      <4>4. l \in Kept(c) => Hash(k.number, l) \in HashesOf(c)
        BY Committed DEF HashesOf
      <4> QED  BY <3>1, <4>1, <4>3, <4>4, Committed
    <3>2. CASE d # c
      <4>1. l \in calls[d].rejected \/ l \in ToStore(d) \/ Hash(calls[d].number, l) \in Stored
        BY <1>0, <2>1, <3>2 DEF IInv, LinesTracked
      <4> QED  BY <1>0, <3>2, <4>1, Committed
    <3> QED  BY <3>1, <3>2
  <2> QED  BY <2>1 DEF LinesTracked
<1>3. TrailIsAlone'
  BY <1>0, Committed DEF IInv, TrailIsAlone
<1>4. new.account = a
  BY DEF NewStatement
<1>5. \A b : b # a => StatementsOf(b)' = StatementsOf(b)
  BY <1>4, Committed DEF StatementsOf
<1>6. \A b : b = a => StatementsOf(b)' = Seen(c)
  <2>1. \A b : StatementsOf(b)' = {s \in statements' : s.account = b}
    BY DEF StatementsOf
  <2>2. statements' = statements \union {new}
    BY Committed
  <2>3. {s \in statements' : s.account = a} = StatementsOf(a) \union {new}
    BY <1>4, <2>2 DEF StatementsOf
  <2> HIDE DEF new, a
  <2>4. StatementsOf(a) \union {new} = Seen(c)
    BY DEF Seen, new, a, k
  <2> QED  BY <2>1, <2>3, <2>4
<1>7. ReadingsStand'
  <2>1. ASSUME NEW d \in Calls, calls'[d].at = "closing", \A s \in Seen(d)' : s.traced
        PROVE  /\ calls'[d].balance = Newest(Seen(d)').closing
               /\ calls'[d].initial = Oldest(Seen(d)').opening
    <3>1. d # c
      <4>1. calls'[c] = Answer(k, "imported")
        BY Committed
      <4>2. calls'[c].at = "imported"
        BY <4>1 DEF Answer
      <4> QED  BY <2>1, <4>2
    <3>2. calls'[d] = calls[d] /\ NewStatement(d)' = NewStatement(d)
      BY <1>0, <3>1
    <3>3. CASE calls[d].account = a
      <4>1. new \in Seen(d)' /\ NewStatement(d) \in Seen(d)'
        BY <1>4, <3>2, <3>3, Committed DEF Seen, StatementsOf
      <4>2. HoldsTrail(c) /\ HoldsTrail(d)
        BY <2>1, <3>2, <4>1, Committed DEF HoldsTrail
      <4> QED  BY <3>1, <4>2 DEF IInv, TrailIsAlone
    <3>4. CASE calls[d].account # a
      <4>1. Seen(d)' = Seen(d)
        BY <1>5, <3>2, <3>4 DEF Seen
      <4> QED  BY <2>1, <3>2, <4>1 DEF IInv, ReadingsStand
    <3> QED  BY <3>3, <3>4
  <2> QED  BY <2>1 DEF ReadingsStand
<1>8. BalanceIsNewestClosing'
  <2>1. accounts' = [accounts EXCEPT ![a].initial = k.initial, ![a].balance = k.balance]
    BY DEF Commit
  <2>2. /\ accounts'[a].balance = k.balance /\ accounts'[a].initial = k.initial
        /\ \A b \in BankAccounts \ {a} : accounts'[b] = accounts[b]
    BY <2>1, Committed DEF IInv, Typed
  <2>4. outdated' = outdated \ {a}
    BY DEF Commit
  <2>3. ASSUME NEW b \in BankAccounts, b \notin outdated',
               \A s \in StatementsOf(b)' : s.traced, StatementsOf(b)' # {}
        PROVE  /\ accounts'[b].balance = Newest(StatementsOf(b)').closing
               /\ accounts'[b].initial = Oldest(StatementsOf(b)').opening
    <3>1. CASE b = a
      <4>1. \A s \in Seen(c) : s.traced
        BY <1>6, <2>3, <3>1
      <4>2. k.balance = Newest(Seen(c)).closing /\ k.initial = Oldest(Seen(c)).opening
        BY <4>1, Committed DEF IInv, ReadingsStand
      <4> QED  BY <1>6, <2>2, <3>1, <4>2
    <3>2. CASE b # a
      BY <1>5, <2>2, <2>3, <2>4, <3>2 DEF IInv, BalanceIsNewestClosing, FollowsStatements
    <3> QED  BY <3>1, <3>2
  <2> QED  BY <2>3 DEF BalanceIsNewestClosing, FollowsStatements
<1>9. RowsInOrder'
  BY <1>0, Committed DEF IInv, RowsInOrder
<1>10. EditsStand'
  BY DEF IInv, EditsStand, Commit
<1> QED  BY <1>1, <1>2, <1>3, <1>7, <1>8, <1>9, <1>10

-----------------------------------------------------------------------------
(* The invariant is inductive.                                             *)

\* The invariant holds at the start.
LEMMA IntakeInit == Init => IInv
<1> SUFFICES ASSUME Init  PROVE IInv
  OBVIOUS
<1>1. Typed
  BY TypedInit
<1>2. \A c \in Calls : calls[c] = Idle
  BY DEF Init
<1>3. \A c \in Calls :
        /\ ~ InTransaction(c) /\ HashesOf(c) = {} /\ InsertsByDay(c) /\ ~ HoldsTrail(c)
        /\ calls[c].at # "closing"
  BY <1>2 DEF Idle, InTransaction, HashesOf, Inserted, HasInserted, InsertsByDay, HoldsTrail
<1>4. statements = {} /\ rows = {} /\ proposals = {}
  BY DEF Init
<1>5. HashesKept
  BY <1>3, <1>4 DEF HashesKept, HashesAreUnique, InsertedIsNew, InsertedApart
<1>6. KeysKept
  BY <1>3, <1>4 DEF KeysKept, KeysAreUnique, CreatedIsNew, CreatedApart
<1>7. StatementsAddUp /\ ProposalsHaveRows
  BY <1>4 DEF StatementsAddUp, ProposalsHaveRows
<1>8. LinesTracked
  BY <1>2 DEF LinesTracked, Ended
<1>9. TrailIsAlone /\ ReadingsStand
  BY <1>3 DEF TrailIsAlone, ReadingsStand
<1>10. BalanceIsNewestClosing
  BY <1>4 DEF BalanceIsNewestClosing, FollowsStatements, StatementsOf
<1>11. RowsInOrder /\ EditsStand
  BY <1>3 DEF RowsInOrder, EditsStand, Init
<1> QED  BY <1>1, <1>5, <1>6, <1>7, <1>8, <1>9, <1>10, <1>11 DEF IInv

\* Every step keeps it.
LEMMA IntakeStep == IInv /\ [Next]_vars => IInv'
<1> SUFFICES ASSUME IInv, [Next]_vars  PROVE IInv'
  OBVIOUS
<1>1. ASSUME NEW c \in Calls, Moves(c), Typed'  PROVE IInv'
  BY <1>1, MovesHashes, MovesKeys, MovesRest DEF IInv
<1>2. ASSUME Decides, ProposalsHaveRows', Typed', BalanceIsNewestClosing', EditsStand'
      PROVE  IInv'
  BY <1>2, DecidesKeep DEF IInv
<1>18. ASSUME Decides, ProposalsHaveRows', Typed', SameBalances  PROVE IInv'
  BY <1>2, <1>18, BalancesKept DEF IInv
<1>3. Typed /\ LinesTracked /\ RowsInOrder
  BY DEF IInv
<1>4. ASSUME NEW c \in Calls, NEW f \in Files, NEW a \in BankAccounts, Receive(c, f, a)
      PROVE  IInv'
  BY <1>1, <1>3, <1>4, CallsMove, TypedCalls
<1>5. ASSUME NEW c \in Calls, LookUp(c)  PROVE IInv'
  BY <1>1, <1>3, <1>5, CallsMove, TypedCalls
<1>6. ASSUME NEW c \in Calls, OpenStatement(c)  PROVE IInv'
  BY <1>1, <1>3, <1>6, CallsMove, TypedCalls
<1>7. ASSUME NEW c \in Calls, NEW verdict \in Judgements(c), Classify(c, verdict)
      PROVE  IInv'
  <2>1. verdict \in [calls[c].fresh -> Verdicts]
    BY DEF Judgements
  <2> QED  BY <1>1, <1>3, <1>7, <2>1, CallsMove, TypedCalls
<1>8. ASSUME NEW c \in Calls, NEW l \in Kept(c), InsertRow(c, l)  PROVE IInv'
  BY <1>1, <1>3, <1>8, CallsMove, TypedCalls
<1>9. ASSUME NEW c \in Calls, TraceAndPost(c)  PROVE IInv'
  BY <1>1, <1>3, <1>9, CallsMove, TypedCalls
<1>10. ASSUME NEW c \in Calls, ReadStatements(c)  PROVE IInv'
  BY <1>1, <1>3, <1>10, CallsMove, TypedReads
<1>11. ASSUME NEW c \in Calls, Commit(c)  PROVE IInv'
  <2>1. Typed'
    BY <1>3, <1>11, TypedCommit
  <2>2. HashesKept' /\ KeysKept' /\ StatementsAddUp'
    BY <1>11, CommitHashes, CommitKeys, CommitAddsUp
  <2>3. /\ ProposalsHaveRows' /\ LinesTracked' /\ TrailIsAlone' /\ ReadingsStand'
        /\ BalanceIsNewestClosing' /\ RowsInOrder' /\ EditsStand'
    BY <1>11, CommitRest
  <2> QED  BY <2>1, <2>2, <2>3 DEF IInv
<1>12. ASSUME NEW c \in Calls, Abort(c)  PROVE IInv'
  BY <1>1, <1>3, <1>12, CallsMove, TypedCalls
<1>13. ASSUME NEW a \in BankAccounts, NEW n \in Numbers, EditNumber(a, n)  PROVE IInv'
  BY <1>2, <1>3, <1>13, EditsDecide, TypedEdits
<1>19. ASSUME NEW e \in Editors, NEW a \in BankAccounts, NEW b \in Entered, ReadForEdit(e, a, b)
       PROVE  IInv'
  BY <1>2, <1>3, <1>19, EditsDecide, TypedEdits
<1>20. ASSUME NEW e \in Editors, NEW n \in Numbers, WriteEdit(e, n)  PROVE IInv'
  BY <1>2, <1>3, <1>20, EditsDecide, TypedEdits
<1>21. ASSUME NEW e \in Editors, RefuseEdit(e)  PROVE IInv'
  BY <1>2, <1>3, <1>21, EditsDecide, TypedEdits
<1>14. ASSUME NEW p \in proposals, NEW r \in rows, NEW decision \in {"accepted", "rejected"},
              Decide(p, r, decision)
       PROVE  IInv'
  BY <1>18, <1>3, <1>14, PeopleDecide, TypedPeople
<1>15. ASSUME NEW r \in rows, Reclassify(r) \/ ApplyRule(r)  PROVE IInv'
  BY <1>18, <1>3, <1>15, PeopleDecide, TypedPeople
<1>16. CASE UNCHANGED vars
  <2>1. UNCHANGED <<accounts, statements, rows, proposals, calls, edits, outdated>>
    BY <1>16 DEF vars
  <2>2. Decides /\ SameBalances
    BY <2>1 DEF Decides, SameBalances
  <2>3. ProposalsHaveRows' /\ Typed'
    BY <2>1 DEF IInv, ProposalsHaveRows, Typed, EditType
  <2> QED  BY <1>18, <2>2, <2>3
<1>17. CASE Next
  BY <1>4, <1>5, <1>6, <1>7, <1>8, <1>9, <1>10, <1>11, <1>12, <1>13, <1>14, <1>15, <1>17,
     <1>19, <1>20, <1>21
     DEF Next, Step, People
<1> QED  BY <1>16, <1>17

\* The inductive invariant holds in every reachable state, for any imports, files
\* and accounts.
THEOREM IntakeInv == Spec => []IInv
<1>1. Init => IInv
  BY IntakeInit
<1>2. IInv /\ [Next]_vars => IInv'
  BY IntakeStep
<1> QED  BY <1>1, <1>2, PTL DEF Spec

-----------------------------------------------------------------------------
(* What follows from it.                                                   *)

\* The type of a call implies the one the runs check.
LEMMA CallTypeImplies == ASSUME NEW k, CallType(k) PROVE CallTypeOK(k)
<1>1. CASE k \in Ended
  BY <1>1 DEF Ended, CallTypeOK
<1>2. CASE k \in Looking
  BY <1>2 DEF Looking, CallTypeOK
<1>3. CASE k \in Opening
  BY <1>3 DEF CallType, Opening, CallTypeOK
<1>7. CASE k \in Inserting
  BY <1>7 DEF CallType, Inserting, CallTypeOK
<1>4. CASE k \in Writing
  BY <1>4 DEF CallType, Writing, CallTypeOK
<1>5. CASE k \in Closing
  BY <1>5 DEF CallType, Closing, CallTypeOK
<1>6. CASE k \in Answered
  BY <1>6 DEF CallType, Answered, CallTypeOK
<1> QED  BY <1>1, <1>2, <1>3, <1>4, <1>5, <1>6, <1>7 DEF CallType

\* The types: an account's balance is a sum of amounts, and a proposal is about
\* a row that is stored.
THEOREM IntakeTypes == Spec => []TypeOK
<1>1. IInv => TypeOK
  <2> SUFFICES ASSUME IInv  PROVE TypeOK
    OBVIOUS
  <2>1. \A c \in Calls : CallTypeOK(calls[c])
    BY CallTypeImplies DEF IInv, Typed
  <2>2. \A s \in statements :
          /\ DOMAIN s = {"account", "from", "to", "opening", "closing", "credits", "debits", "traced"}
          /\ s.account \in BankAccounts
          /\ s.from \in Days /\ s.to \in Days
    BY DEF IInv, Typed, StatementType
  <2>3. \A r \in rows :
          /\ DOMAIN r = {"hash", "account", "line", "from", "to", "by", "booked"}
          /\ r.hash \in Numbers \X Lines
          /\ r.by \in {"none", "engine", "person"}
          /\ r.booked \in BOOLEAN
    BY DEF IInv, Typed, RowType
  <2>4. /\ accounts \in [BankAccounts -> [number : Numbers, initial : Int, balance : Int]]
        /\ proposals \subseteq [hash : Numbers \X Lines, status : {"pending", "accepted", "rejected"}]
        /\ ProposalsHaveRows
        /\ DOMAIN calls = Calls
    BY DEF IInv, Typed, ProposalType
  <2>5. /\ DOMAIN edits = Editors
        /\ \A e \in Editors : edits[e] # Idle =>
            /\ edits[e].account \in BankAccounts
            /\ edits[e].seen \subseteq statements
            /\ edits[e].initial \in Int /\ edits[e].balance \in Int
        /\ outdated \subseteq BankAccounts
    BY DEF IInv, Typed, EditType
  <2> QED  BY <2>1, <2>2, <2>3, <2>4, <2>5 DEF TypeOK
<1> QED  BY <1>1, IntakeInv, PTL

\* No line is stored twice under one number, whatever imports overlap.
THEOREM NoDuplicateLine == Spec => []OneRowPerLine
<1>1. IInv => OneRowPerLine
  BY DEF IInv, HashesKept, HashesAreUnique, OneRowPerLine
<1> QED  BY <1>1, IntakeInv, PTL

\* Every line of an imported file is reported or stored, and a statement's totals
\* are those of its rows.
THEOREM EveryLineAccountedFor == Spec => []LinesAreAccountedFor
<1>1. IInv => LinesAreAccountedFor
  <2> SUFFICES ASSUME IInv  PROVE LinesAreAccountedFor
    OBVIOUS
  <2>1. ASSUME NEW c \in Calls, calls[c].at \in {"imported", "skipped"},
               NEW l \in LinesOf(calls[c].file)
        PROVE  l \in calls[c].rejected \/ \E r \in rows : r.hash = Hash(calls[c].number, l)
    <3>1. calls[c] \notin Ended \union Looking
      BY <2>1 DEF Ended, Idle, Failed, Refused, Looking
    <3>2. l \in calls[c].rejected \/ l \in ToStore(c) \/ Hash(calls[c].number, l) \in Stored
      BY <2>1, <3>1 DEF IInv, LinesTracked
    <3>3. ToStore(c) = {}
      BY <2>1 DEF ToStore
    <3> QED  BY <3>2, <3>3 DEF Stored
  <2> QED  BY <2>1 DEF IInv, LinesAreAccountedFor
<1> QED  BY <1>1, IntakeInv, PTL

\* The balance of an account whose imports all classified something is what its
\* newest statement closes with, in whatever order they commit and whatever is
\* edited meanwhile, unless the last edit wrote what it had read too early.
THEOREM BalanceFollowsStatements == Spec => []BalanceIsNewestClosing
<1>1. IInv => BalanceIsNewestClosing
  BY DEF IInv
<1> QED  BY <1>1, IntakeInv, PTL

\* Of finitely many calls to which days are given, one has the latest.
LEMMA LatestExists ==
  ASSUME NEW S, IsFiniteSet(S), S # {}, NEW f, \A c \in S : f[c] \in Int
  PROVE  \E c \in S : \A d \in S : f[d] <= f[c]
<1> DEFINE U == {T \in SUBSET S : T = {} \/ \E c \in T : \A d \in T : f[d] <= f[c]}
<1>1. SUFFICES ASSUME S \notin U  PROVE FALSE
  OBVIOUS
<1>2. PICK M \in SUBSET S : M \notin U /\ \A R \in SUBSET M : R # M => R \in U
  <2> HIDE DEF U
  <2> QED  BY <1>1, LeastSubset
<1>3. PICK x \in M : TRUE
  BY <1>2
<1> DEFINE R == M \ {x}
<1>4. R \in U
  BY <1>2
<1>5. CASE R = {}
  <2>1. \A d \in M : f[d] <= f[x]
    BY <1>5
  <2> QED  BY <1>2, <2>1
<1>6. CASE R # {}
  <2>1. PICK y \in R : \A d \in R : f[d] <= f[y]
    BY <1>4, <1>6
  <2>2. \A d \in M : f[d] \in Int
    OBVIOUS
  <2>3. CASE f[x] <= f[y]
    <3>1. \A d \in M : f[d] <= f[y]
      BY <2>1, <2>3
    <3> QED  BY <1>2, <3>1
  <2>4. CASE f[y] <= f[x]
    <3>1. \A d \in M : f[d] <= f[x]
      BY <2>1, <2>2, <2>4
    <3> QED  BY <1>2, <3>1
  <2> QED  BY <2>2, <2>3, <2>4
<1> QED  BY <1>5, <1>6

\* Calls that wait for each other's rows: what one waits for, another has inserted
\* before a row of that day or of a later one.
LEMMA OneDay ==
  ASSUME IInv, NEW W \in SUBSET Calls, W # {},
         \A c \in W : \E l \in Kept(c) : WaitsToInsert(c, l),
         \A c \in Calls : HashesOf(c) # {} => c \in W
  PROVE  \E D \in SUBSET Calls, day \in {Day[l] : l \in Lines} :
            /\ D # {}
            /\ \A c \in D : \E l \in Kept(c) :
                /\ WaitsToInsert(c, l)
                /\ Day[l] = day
                /\ \E d \in D \ {c} : InsertedBy(d, Hash(calls[c].number, l))
<1> DEFINE line == [c \in W |-> CHOOSE l \in Kept(c) : WaitsToInsert(c, l)]
           f == [c \in W |-> Day[line[c]]]
<1>1. ASSUME NEW c \in W
      PROVE  /\ line[c] \in Kept(c) /\ WaitsToInsert(c, line[c]) /\ f[c] = Day[line[c]]
             /\ Kept(c) \subseteq Lines /\ calls[c].at = "inserting"
  <2>1. PICK l \in Kept(c) : WaitsToInsert(c, l)
    OBVIOUS
  <2>2. line[c] \in Kept(c) /\ WaitsToInsert(c, line[c])
    BY <2>1
  <2>3. calls[c].at = "inserting"
    BY <2>1 DEF WaitsToInsert
  <2>4. Kept(c) \subseteq Lines
    BY <2>3, KeptTyped DEF IInv, Typed, Judged
  <2> QED  BY <2>2, <2>3, <2>4
<1>2. \A l \in Lines : Day[l] \in Int
  BY IntakeAssumption
<1>3. \A c \in W : f[c] \in Int
  BY <1>1, <1>2
<1>4. IsFiniteSet(W)
  BY IntakeAssumption, FS_Subset
<1> HIDE DEF f, line
<1>5. PICK m \in W : \A d \in W : f[d] <= f[m]
  BY <1>3, <1>4, LatestExists
<1> DEFINE D == {c \in W : f[c] = f[m]}
<1>6. D \in SUBSET Calls /\ D # {} /\ f[m] \in {Day[l] : l \in Lines}
  BY <1>1
<1>7. ASSUME NEW c \in D
      PROVE  \E d \in D \ {c} : InsertedBy(d, Hash(calls[c].number, line[c]))
  <2>1. PICK d \in Calls \ {c} : InsertedBy(d, Hash(calls[c].number, line[c]))
    BY <1>1 DEF WaitsToInsert, Clear
  <2>2. PICK j \in Inserted(d) : Hash(calls[d].number, j) = Hash(calls[c].number, line[c])
    BY <2>1 DEF InsertedBy
  <2>3. j = line[c]
    BY <2>2, HashIsInjective
  <2>4. d \in W
    BY <2>2 DEF HashesOf
  <2>5. j \in calls[d].done /\ line[d] \in Kept(d) \ calls[d].done
    BY <1>1, <2>2, <2>4 DEF Inserted, WaitsToInsert, Turn
  <2>6. Day[j] <= Day[line[d]]
    BY <1>1, <2>4, <2>5 DEF IInv, RowsInOrder, InsertsByDay
  <2>7. f[c] <= f[d] /\ f[d] <= f[m] /\ f[c] = f[m]
    BY <1>1, <1>5, <2>3, <2>4, <2>6
  <2>8. f[d] = f[m]
    BY <1>3, <2>4, <2>7
  <2> QED  BY <2>1, <2>4, <2>8
<1>8. \A c \in D : \E l \in Kept(c) :
        /\ WaitsToInsert(c, l)
        /\ Day[l] = f[m]
        /\ \E d \in D \ {c} : InsertedBy(d, Hash(calls[c].number, l))
  <2>1. SUFFICES ASSUME NEW c \in D
                 PROVE  /\ line[c] \in Kept(c) /\ WaitsToInsert(c, line[c])
                        /\ Day[line[c]] = f[m]
                        /\ \E d \in D \ {c} : InsertedBy(d, Hash(calls[c].number, line[c]))
    OBVIOUS
  <2> QED  BY <1>1, <1>7
<1> HIDE DEF D
<1> QED  BY <1>6, <1>8

\* Imports wait for each other in a circle only over lines of one day: statement,
\* rows and trail are taken in one order, and who holds the trail waits for nothing.
THEOREM DeadlocksOfOneDay == Spec => []DeadlocksAreOfOneDay
<1>1. IInv => DeadlocksAreOfOneDay
  <2> SUFFICES ASSUME IInv, NEW c \in Calls, Waits(c),
                      \A d \in Calls : InTransaction(d) => Waits(d)
               PROVE  \E D \in SUBSET Calls, day \in {Day[l] : l \in Lines} :
                        /\ D # {}
                        /\ \A e \in D : \E l \in Kept(e) :
                            /\ WaitsToInsert(e, l)
                            /\ Day[l] = day
                            /\ \E d \in D \ {e} : InsertedBy(d, Hash(calls[e].number, l))
    BY DEF DeadlocksAreOfOneDay
  <2>1. \A e \in Calls : calls[e].at \notin {"classifying", "totalling", "closing"}
    BY DEF InTransaction, Waits
  <2>2. \A e \in Calls : ~ HoldsTrail(e)
    BY <2>1 DEF HoldsTrail
  <2>3. \A e \in Calls : calls[e].at # "tracing"
    BY <2>2 DEF InTransaction, Waits, TrailFree
  <2> DEFINE W == {e \in Calls : calls[e].at = "inserting"}
  <2>4. \A e \in W : \E l \in Kept(e) : WaitsToInsert(e, l)
    BY DEF InTransaction, Waits
  <2>5. \A e \in Calls : HashesOf(e) # {} => e \in W
    BY <2>1, <2>3 DEF HashesOf, Inserted, HasInserted
  <2>6. W # {}
    <3>1. \E d \in Calls : InTransaction(d)
      BY DEF Waits, Vacant, InTransaction
    <3> QED  BY <2>1, <2>3, <3>1 DEF InTransaction
  <2> HIDE DEF W
  <2>7. W \in SUBSET Calls
    BY DEF W
  <2> QED  BY <2>4, <2>5, <2>6, <2>7, OneDay
<1> QED  BY <1>1, IntakeInv, PTL

====
