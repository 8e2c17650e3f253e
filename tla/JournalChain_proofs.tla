------------------------- MODULE JournalChain_proofs -------------------------
(***************************************************************************)
(* The hash chain never forks, for any number of requests and entries:     *)
(* proofs of ChainIsLinear and SealsAreForever.                            *)
(***************************************************************************)
EXTENDS JournalLedger_proofs, FiniteSetTheorems

-----------------------------------------------------------------------------
(* Chains as data. *)

\* Rows with the same seals make the same chain.
LEMMA LinearSameSeals ==
    ASSUME NEW rows \in [Entries -> Rows], NEW rows2 \in [Entries -> Rows],
           NEW h \in Heads \union {Null}, Linear(rows, h),
           \A e \in Entries : SameSeal(rows2[e], rows[e]),
           \A e \in Sealed(rows2) : rows2[e].status \in {"posted", "void"}
    PROVE  Linear(rows2, h)
<1>1. Sealed(rows2) = Sealed(rows)
  BY DEF Sealed, SameSeal
<1>2. /\ Sealed(rows) \subseteq Entries
      /\ \A e \in Sealed(rows) : rows2[e].hash = rows[e].hash /\ rows2[e].prev = rows[e].prev
  BY <1>1 DEF Sealed, SameSeal
<1>3. Chained(rows2, Sealed(rows2))
  <2>1. \A e, f \in Sealed(rows) : rows2[e].prev = rows2[f].prev => e = f
    BY <1>2 DEF Linear, Chained
  <2>2. ASSUME NEW S \in SUBSET Sealed(rows),
               \A e \in Sealed(rows) :
                 (rows2[e].prev = Null \/ \E f \in S : rows2[e].prev = rows2[f].hash) => e \in S
        PROVE  S = Sealed(rows)
    <3>1. \A e \in Sealed(rows) :
            (rows[e].prev = Null \/ \E f \in S : rows[e].prev = rows[f].hash) => e \in S
      BY <1>2, <2>2
    <3>2. QED  BY <3>1 DEF Linear, Chained
  <2>3. QED  BY <1>1, <2>1, <2>2 DEF Chained
<1>4. h # Null => rows2[h.entry].hash = h.hash
  <2>1. SUFFICES ASSUME h # Null PROVE rows2[h.entry].hash = h.hash
    OBVIOUS
  <2>2. rows[h.entry].hash = h.hash /\ h.entry \in Entries /\ h.hash # Null
    BY <2>1, NullAssumption DEF Linear, Heads
  <2>3. QED  BY <2>2, <1>2 DEF Sealed
<1>5. QED  BY <1>1, <1>2, <1>3, <1>4 DEF Linear

\* A link of a chain leads to one of its members.
LEMMA PrevIsMember ==
    ASSUME NEW rows \in [Entries -> Rows], NEW h, Linear(rows, h), NEW e \in Sealed(rows)
    PROVE  rows[e].prev = Null \/ \E f \in Sealed(rows) : rows[e].prev = rows[f].hash
<1> DEFINE M == Sealed(rows)
           S == {x \in M : rows[x].prev = Null \/ \E f \in M : rows[x].prev = rows[f].hash}
<1>1. S \in SUBSET M
  OBVIOUS
<1>2. \A x \in M : (rows[x].prev = Null \/ \E f \in S : rows[x].prev = rows[f].hash) => x \in S
  OBVIOUS
<1>3. S = M
  <2> HIDE DEF S, M
  <2>1. Chained(rows, M)
    BY DEF Linear, M
  <2>2. QED  BY <1>1, <1>2, <2>1 DEF Chained
<1>4. QED  BY <1>3

\* A chain grows at its tail: sealing e on the seal of a member t that nobody
\* follows gives a chain with e at its head.
LEMMA ExtendTail ==
    ASSUME NEW rows \in [Entries -> Rows], NEW h, Linear(rows, h),
           NEW e \in Entries, rows[e].hash = Null, rows[e].status = "posted",
           NEW t \in Sealed(rows), \A f \in Sealed(rows) : rows[f].prev # rows[t].hash,
           NEW s \in Seals, s.entry = e,
           NEW rows2 \in [Entries -> Rows],
           rows2[e].hash = s, rows2[e].prev = rows[t].hash, rows2[e].status = "posted",
           \A f \in Entries \ {e} : rows2[f] = rows[f],
           NEW h2, h2 # Null, h2.hash = s, h2.entry = e
    PROVE  Linear(rows2, h2)
<1> DEFINE M == Sealed(rows)
<1>1. /\ M \subseteq Entries /\ e \notin M /\ t \in M /\ rows[t].hash # Null
      /\ s # Null
  BY NullAssumption DEF Sealed
<1>2. /\ rows2[e].hash = s /\ rows2[e].prev = rows[t].hash /\ rows2[e].status = "posted"
      /\ \A f \in M : rows2[f] = rows[f]
  BY <1>1
<1>3. Sealed(rows2) = M \union {e}
  BY <1>1, <1>2 DEF Sealed
<1>4. \A x, y \in M \union {e} : rows2[x].prev = rows2[y].prev => x = y
  BY <1>1, <1>2 DEF Linear, Chained
<1>5. ASSUME NEW S \in SUBSET (M \union {e}),
             \A x \in M \union {e} :
               (rows2[x].prev = Null \/ \E f \in S : rows2[x].prev = rows2[f].hash) => x \in S
      PROVE  S = M \union {e}
  <2>1. S \intersect M \in SUBSET M
    OBVIOUS
  <2>2. \A x \in M : (\/ rows[x].prev = Null
                      \/ \E f \in S \intersect M : rows[x].prev = rows[f].hash)
                         => x \in S \intersect M
    <3> HIDE DEF M
    <3>1. SUFFICES ASSUME NEW x \in M,
                          \/ rows[x].prev = Null
                          \/ \E f \in S \intersect M : rows[x].prev = rows[f].hash
                   PROVE  x \in S
      OBVIOUS
    <3>2. rows2[x].prev = Null \/ \E f \in S : rows2[x].prev = rows2[f].hash
      BY <1>2, <3>1
    <3>3. QED  BY <1>5, <3>2
  <2>3. S \intersect M = M
    <3> HIDE DEF M
    <3>1. Chained(rows, M)
      BY DEF Linear, M
    <3>2. QED  BY <2>1, <2>2, <3>1 DEF Chained
  <2>4. e \in S
    BY <1>1, <1>2, <1>5, <2>3
  <2>5. QED  BY <2>3, <2>4
<1>6. Chained(rows2, Sealed(rows2))
  <2> HIDE DEF M
  <2> DEFINE N == M \union {e}
  <2>1. Chained(rows2, N)
    <3>1. \A x, y \in N : rows2[x].prev = rows2[y].prev => x = y
      BY <1>4
    <3>2. \A S \in SUBSET N :
            (\A x \in N :
               (rows2[x].prev = Null \/ \E f \in S : rows2[x].prev = rows2[f].hash) => x \in S)
                 => S = N
      BY <1>5
    <3> HIDE DEF N
    <3>3. QED  BY <3>1, <3>2 DEF Chained
  <2>2. QED  BY <1>3, <2>1
<1>7. \A f \in M \union {e} : rows2[f].prev # s
  <2>1. \A g \in M : rows[g].hash.entry = g
    BY DEF Linear
  <2>2. \A g \in M : rows[g].hash # s
    BY <1>1, <2>1
  <2>3. \A f \in M : rows[f].prev # s
    BY <1>1, <2>2, PrevIsMember
  <2>4. QED  BY <1>1, <1>2, <2>2, <2>3
<1>8. \A f \in M \union {e} : /\ rows2[f].hash.entry = f
                              /\ rows2[f].status \in {"posted", "void"}
  BY <1>2 DEF Linear
<1>9. QED
  <2> HIDE DEF M
  <2>1. QED  BY <1>2, <1>3, <1>6, <1>7, <1>8 DEF Linear

\* Whatever the primitive accepts as previousHash keeps the chain linear.
LEMMA AppendKeepsLinear ==
    ASSUME NEW rows \in [Entries -> Rows], NEW h \in Heads \union {Null}, Linear(rows, h),
           NEW e \in Entries, Appendable(rows[e]),
           NEW p \in Previous(rows, h, e),
           NEW s \in Seals, s = Seal("v2", e, rows[e], p),
           NEW rows2 \in [Entries -> Rows],
           rows2 = [rows EXCEPT ![e] = [rows[e] EXCEPT !.hash = s, !.prev = p]]
    PROVE  Linear(rows2, [hash |-> s, entry |-> e])
<1> SUFFICES ASSUME NEW h2, h2 = [hash |-> s, entry |-> e]
             PROVE  Linear(rows2, h2)
  OBVIOUS
<1>0. /\ rows \in [Entries -> Rows] /\ rows2 \in [Entries -> Rows]
      /\ Linear(rows, h) /\ e \in Entries /\ s \in Seals
  OBVIOUS
<1>1. rows[e].hash = Null /\ rows[e].status = "posted" /\ s.entry = e
  BY DEF Appendable, Seal
<1>2. h2 # Null /\ h2.hash = s /\ h2.entry = e
  BY NullAssumption DEF Heads
<1>3. /\ rows2[e].hash = s /\ rows2[e].prev = p /\ rows2[e].status = "posted"
       /\ \A f \in Entries \ {e} : rows2[f] = rows[f]
  BY <1>1 DEF Rows
<1>4. CASE h # Null
  <2>1. p = h.hash /\ rows[h.entry].hash = h.hash
    BY <1>4 DEF Previous
  <2>2. h.entry \in Sealed(rows)
    BY <1>4, <2>1, NullAssumption DEF Sealed, Heads
  <2>3. \A f \in Sealed(rows) : rows[f].prev # rows[h.entry].hash
    BY <1>4, <2>1 DEF Linear
  <2>4. rows2[e].prev = rows[h.entry].hash
    BY <1>3, <2>1
  <2>5. QED  BY ONLY <1>0, <1>1, <1>2, <1>3, <2>2, <2>3, <2>4, ExtendTail
<1>5. CASE h = Null /\ LegacyMembers(rows) # {}
  <2>1. Sealed(rows) = LegacyMembers(rows)
    BY <1>5 DEF Linear, Sealed, LegacyMembers
  <2>2. PICK t \in LegacyMembers(rows) : IsLegacyTail(rows, t) /\ p = rows[t].hash
    BY <1>5 DEF Previous
  <2>3. \A f \in Sealed(rows) : rows[f].prev # rows[t].hash
    BY <2>1, <2>2 DEF IsLegacyTail
  <2>4. t \in Sealed(rows) /\ rows2[e].prev = rows[t].hash
    BY <1>3, <2>1, <2>2
  <2>5. QED  BY ONLY <1>0, <1>1, <1>2, <1>3, <2>3, <2>4, ExtendTail
<1>6. CASE h = Null /\ LegacyMembers(rows) = {}
  <2>1. Sealed(rows) = {}
    BY <1>6 DEF Linear, Sealed, LegacyMembers
  <2>2. p = Null
    BY <1>6 DEF Previous
  <2>3. s # Null
    BY NullAssumption
  <2>4. Sealed(rows2) = {e}
    BY <1>3, <2>1, <2>3 DEF Sealed
  <2>5. Chained(rows2, {e})
    BY <1>3, <2>2 DEF Chained
  <2>6. Chained(rows2, Sealed(rows2))
    BY <2>4, <2>5
  <2>7. rows2[e].prev # s
    BY <1>3, <2>2, <2>3
  <2>8. \A x \in Sealed(rows2) : x = e
    BY <2>4
  <2>9. \A x \in Sealed(rows2) : rows2[x].hash.entry = x
    BY <1>1, <1>3, <2>8
  <2>10. \A x \in Sealed(rows2) : rows2[x].status \in {"posted", "void"}
    BY <1>1, <1>3, <2>8
  <2>11. \A x \in Sealed(rows2) : rows2[x].prev # h2.hash
    BY <1>2, <2>7, <2>8
  <2>12. rows2[h2.entry].hash = h2.hash
    BY <1>2, <1>3
  <2>14. QED  BY ONLY <1>2, <2>6, <2>9, <2>10, <2>11, <2>12 DEF Linear
<1>7. QED  BY <1>4, <1>5, <1>6

-----------------------------------------------------------------------------
(* Locks and views. *)

\* Row e as r sees it: its own version before the committed one.
LEMMA ViewOf ==
    ASSUME NEW r \in Requests, NEW e \in Entries
    PROVE  View(r)[e] = IF tx[r].rows[e] # Null THEN tx[r].rows[e] ELSE entry[e]
  BY DEF View

\* After the end of a transaction nothing of it is uncommitted.
LEMMA NoTxIsBlank == NoTx.head = Null /\ \A e \in Entries : NoTx.rows[e] = Null
  BY DEF NoTx

\* The chain head and every entry row can be locked.
LEMMA LockNames ==
    /\ <<"head">> \in Resources
    /\ \A e \in Entries : <<"row", e>> \in Resources
  BY DEF Resources

\* A lock is only taken when free or already one's own, so nobody loses one.
LEMMA TakeHolds ==
    ASSUME Typed, NEW r \in Requests, NEW X \in SUBSET Resources,
           \A x \in X : holder[x] \in {Null, r}, Take(r, X)
    PROVE  /\ \A q \in Requests : \A x \in Resources : holder[x] = q => holder'[x] = q
           /\ \A x \in X : holder'[x] = r
  BY NullAssumption DEF Take, Typed

\* In particular a statement that runs holds the locks it wanted.
LEMMA WantsHeld ==
    ASSUME Typed, NEW r \in Requests, Granted(r), Take(r, Wants(r))
    PROVE  /\ \A q \in Requests : \A x \in Resources : holder[x] = q => holder'[x] = q
           /\ \A x \in Wants(r) : holder'[x] = r
  BY WantsType, TakeHolds DEF Granted

\* The end of one transaction takes no lock from another.
LEMMA ReleaseHolds ==
    ASSUME Typed, NEW r \in Requests, Release(r)
    PROVE  \A q \in Requests \ {r} : \A x \in Resources : holder[x] = q => holder'[x] = q
  BY DEF Release, Typed

-----------------------------------------------------------------------------
(* What a step does to the chain, by kind of step. *)

\* A step that writes rows of r under their locks and leaves their seals alone.
LEMMA WriteKeepsChain ==
    ASSUME Typed, Typed', ChainInv, NEW r \in Requests,
           entry' = entry, head' = head,
           \A q \in Requests \ {r} : tx'[q] = tx[q],
           tx'[r].head = tx[r].head,
           \A q \in Requests : \A x \in Resources : holder[x] = q => holder'[x] = q,
           \A e \in Entries :
             \/ tx'[r].rows[e] = tx[r].rows[e]
             \/ /\ tx'[r].rows[e] # Null
                /\ holder'[<<"row", e>>] = r
                /\ SameSeal(tx'[r].rows[e], View(r)[e])
                /\ tx'[r].rows[e].hash # Null => tx'[r].rows[e].status \in {"posted", "void"}
    PROVE  ChainInv'
<1>1. WritesAreLocked'
  BY LockNames DEF ChainInv, WritesAreLocked
<1>2. SealsAreKept'
  <2>1. SUFFICES ASSUME NEW q \in Requests, NEW e \in Entries, tx'[q].rows[e] # Null,
                        tx'[q].head = Null \/ entry[e].hash # Null
                 PROVE  SameSeal(tx'[q].rows[e], entry[e])
    BY DEF SealsAreKept
  <2>2. CASE tx'[q].rows[e] = tx[q].rows[e]
    BY <2>1, <2>2 DEF ChainInv, SealsAreKept
  <2>3. CASE tx'[q].rows[e] # tx[q].rows[e]
    <3>1. q = r /\ SameSeal(tx'[r].rows[e], View(r)[e])
      BY <2>3
    <3>2. SameSeal(View(r)[e], entry[e])
      BY <2>1, <3>1, ViewOf DEF ChainInv, SealsAreKept, SameSeal
    <3>3. QED  BY <3>1, <3>2 DEF SameSeal
  <2>4. QED  BY <2>2, <2>3
<1>3. ChainIsLinear'
  BY DEF ChainInv, ChainIsLinear
<1>4. ViewsAreLinear'
  <2>1. SUFFICES ASSUME NEW q \in Requests PROVE Linear(View(q)', HeadOf(q)')
    BY DEF ViewsAreLinear
  <2>2. CASE q # r
    <3>1. View(q)' = View(q) /\ HeadOf(q)' = HeadOf(q)
      BY <2>2 DEF View, HeadOf
    <3>2. QED  BY <3>1 DEF ChainInv, ViewsAreLinear
  <2>3. CASE q = r
    <3>1. HeadOf(r)' = HeadOf(r)
      BY DEF HeadOf
    <3>2. /\ View(r) \in [Entries -> Rows] /\ View(r)' \in [Entries -> Rows]
          /\ HeadOf(r) \in Heads \union {Null}
      BY ViewType, TxFields DEF Typed, View
    <3>3. \A e \in Entries :
            View(r)'[e] = IF tx'[r].rows[e] # Null THEN tx'[r].rows[e] ELSE entry[e]
      BY DEF View
    <3>4. \A e \in Entries :
            \/ View(r)'[e] = View(r)[e]
            \/ /\ SameSeal(View(r)'[e], View(r)[e])
               /\ View(r)'[e].hash # Null => View(r)'[e].status \in {"posted", "void"}
      BY ZenonT(30), <3>3, ViewOf
    <3>5. Linear(View(r), HeadOf(r))
      BY DEF ChainInv, ViewsAreLinear
    <3>6. \A e \in Entries : SameSeal(View(r)'[e], View(r)[e])
      BY <3>4 DEF SameSeal
    <3>7. \A e \in Sealed(View(r)') : View(r)'[e].status \in {"posted", "void"}
      BY <3>4, <3>5 DEF Sealed, Linear
    <3>8. QED  BY ONLY <2>3, <3>1, <3>2, <3>5, <3>6, <3>7, LinearSameSeals
  <2>4. QED  BY <2>2, <2>3
<1>5. QED  BY <1>1, <1>2, <1>3, <1>4 DEF ChainInv

\* A step that writes no entry and takes or keeps locks.
LEMMA QuietKeepsChain ==
    ASSUME Typed, Typed', ChainInv, NEW r \in Requests,
           entry' = entry, head' = head,
           \A q \in Requests \ {r} : tx'[q] = tx[q],
           tx'[r].head = tx[r].head, tx'[r].rows = tx[r].rows,
           \A q \in Requests : \A x \in Resources : holder[x] = q => holder'[x] = q
    PROVE  ChainInv'
  BY WriteKeepsChain

\* A rollback leaves the committed chain and the other views as they were.
LEMMA AbortKeepsChain ==
    ASSUME Typed, ChainInv, NEW r \in Requests, NEW rest, Abort(r, rest)
    PROVE  ChainInv'
<1>1. /\ entry' = entry /\ head' = head
      /\ tx'[r] = NoTx /\ \A q \in Requests \ {r} : tx'[q] = tx[q]
  BY DEF Abort, Typed, db
<1>2. WritesAreLocked'
  BY <1>1, NoTxIsBlank, ReleaseHolds, LockNames DEF ChainInv, WritesAreLocked, Abort
<1>3. SealsAreKept'
  BY <1>1, NoTxIsBlank DEF ChainInv, SealsAreKept
<1>4. ChainIsLinear'
  BY <1>1 DEF ChainInv, ChainIsLinear
<1>5. ViewsAreLinear'
  <2>1. SUFFICES ASSUME NEW q \in Requests PROVE Linear(View(q)', HeadOf(q)')
    BY DEF ViewsAreLinear
  <2>2. CASE q # r
    <3>1. View(q)' = View(q) /\ HeadOf(q)' = HeadOf(q)
      BY <1>1, <2>2 DEF View, HeadOf
    <3>2. QED  BY <3>1 DEF ChainInv, ViewsAreLinear
  <2>3. CASE q = r
    <3>1. View(r)' = entry
      BY <1>1, NoTxIsBlank DEF View, Typed
    <3>2. HeadOf(r)' = head
      BY <1>1, NoTxIsBlank DEF HeadOf
    <3>3. QED  BY <2>3, <3>1, <3>2 DEF ChainInv, ChainIsLinear
  <2>4. QED  BY <2>2, <2>3
<1>6. QED  BY <1>2, <1>3, <1>4, <1>5 DEF ChainInv

\* appendEntryToJournalChain: only the holder of the head adds a seal.
LEMMA SealKeepsChain ==
    ASSUME Typed, Typed', ChainInv, NEW r \in Requests, SealAppend(r)
    PROVE  ChainInv'
<1> DEFINE e == Appended(r)
           row == View(r)[e]
<1>1. /\ e \in Entries /\ Appendable(row) /\ Granted(r) /\ Take(r, Wants(r))
      /\ entry' = entry /\ head' = head
  BY JobType DEF SealAppend, db
<1>2. PICK p \in Previous(View(r), HeadOf(r), e) :
         tx' = [tx EXCEPT ![r].rows[e] =
                            [row EXCEPT !.hash = Seal("v2", e, row, p), !.prev = p],
                          ![r].head = [hash |-> Seal("v2", e, row, p), entry |-> e]]
  BY DEF SealAppend
<1>3. PICK s : s = Seal("v2", e, row, p)
  OBVIOUS
<1>4. /\ View(r) \in [Entries -> Rows] /\ HeadOf(r) \in Heads \union {Null}
      /\ row \in Rows /\ p \in Seals \union {Null} /\ s \in Seals
  BY <1>1, <1>3, ViewType, PreviousType, SealType
<1> HIDE DEF e
<1>5. /\ tx'[r].rows = [tx[r].rows EXCEPT ![e] = [row EXCEPT !.hash = s, !.prev = p]]
      /\ tx'[r].head = [hash |-> s, entry |-> e]
      /\ \A q \in Requests \ {r} : tx'[q] = tx[q]
  <2>1. tx \in [Requests -> TxType]
    BY DEF Typed
  <2>2. tx[r] = [rows |-> tx[r].rows, head |-> tx[r].head, gl |-> tx[r].gl,
                 audit |-> tx[r].audit, corr |-> tx[r].corr, linked |-> tx[r].linked]
    BY <2>1 DEF TxType
  <2>3. QED  BY <1>2, <1>3, <2>1, <2>2
<1>6. [row EXCEPT !.hash = s, !.prev = p] \in Rows /\ [hash |-> s, entry |-> e] \in Heads
  BY <1>1, <1>4 DEF Rows, Heads
<1>7. /\ tx'[r].rows[e] = [row EXCEPT !.hash = s, !.prev = p]
      /\ \A f \in Entries \ {e} : tx'[r].rows[f] = tx[r].rows[f]
      /\ tx'[r].rows[e] # Null /\ tx'[r].head # Null
  BY <1>1, <1>5, <1>6, JobType, TxFields, NullAssumption
<1>8. /\ \A q \in Requests : \A x \in Resources : holder[x] = q => holder'[x] = q
      /\ holder'[<<"head">>] = r /\ holder'[<<"row", e>>] = r
  <2>1. <<"head">> \in Wants(r) /\ <<"row", e>> \in Wants(r)
    BY DEF SealAppend, AtAppend, At, Wants, e
  <2>2. QED  BY <1>1, <2>1, WantsHeld
<1>9. WritesAreLocked'
  <2>1. SUFFICES ASSUME NEW q \in Requests
                 PROVE  /\ tx'[q].head # Null => holder'[<<"head">>] = q
                        /\ \A f \in Entries : tx'[q].rows[f] # Null => holder'[<<"row", f>>] = q
    BY DEF WritesAreLocked
  <2>2. /\ tx[q].head # Null => holder'[<<"head">>] = q
        /\ \A f \in Entries : tx[q].rows[f] # Null => holder'[<<"row", f>>] = q
    BY <1>8, LockNames DEF ChainInv, WritesAreLocked
  <2>3. CASE q # r
    BY <1>5, <2>2, <2>3
  <2>4. CASE q = r
    BY <1>7, <1>8, <2>2, <2>4
  <2>5. QED  BY <2>3, <2>4
<1>10. SealsAreKept'
  <2>1. SUFFICES ASSUME NEW q \in Requests, NEW f \in Entries, tx'[q].rows[f] # Null,
                        tx'[q].head = Null \/ entry[f].hash # Null
                 PROVE  SameSeal(tx'[q].rows[f], entry[f])
    BY <1>1 DEF SealsAreKept
  <2>2. CASE tx'[q].rows[f] = tx[q].rows[f] /\ (q = r => entry[f].hash # Null)
    BY <1>5, <2>1, <2>2 DEF ChainInv, SealsAreKept
  <2>3. CASE q = r /\ f = e
    <3>1. View(r)[e].hash = Null
      BY <1>1 DEF Appendable
    <3>2. entry[e].hash # Null
      BY <1>7, <2>1, <2>3
    <3>3. tx[r].rows[e] # Null /\ tx[r].rows[e].hash = Null
      BY <1>1, <3>1, <3>2, ViewOf
    <3>4. SameSeal(tx[r].rows[e], entry[e])
      BY <1>1, <3>2, <3>3 DEF ChainInv, SealsAreKept
    <3>5. QED  BY <3>2, <3>3, <3>4 DEF SameSeal
  <2>4. QED  BY <1>5, <1>7, <2>1, <2>2, <2>3
<1>11. ChainIsLinear'
  BY <1>1 DEF ChainInv, ChainIsLinear
<1>12. ViewsAreLinear'
  <2>1. SUFFICES ASSUME NEW q \in Requests PROVE Linear(View(q)', HeadOf(q)')
    BY DEF ViewsAreLinear
  <2>2. CASE q # r
    <3>1. View(q)' = View(q) /\ HeadOf(q)' = HeadOf(q)
      BY <1>1, <1>5, <2>2 DEF View, HeadOf
    <3>2. QED  BY <3>1 DEF ChainInv, ViewsAreLinear
  <2>3. CASE q = r
    <3>1. HeadOf(r)' = [hash |-> s, entry |-> e]
      BY <1>5, <1>7 DEF HeadOf
    <3>2. View(r)' = [View(r) EXCEPT ![e] = [row EXCEPT !.hash = s, !.prev = p]]
      BY <1>1, <1>7 DEF View
    <3>3. View(r)' \in [Entries -> Rows]
      BY <1>4, <1>6, <3>2
    <3>4. Linear(View(r), HeadOf(r))
      BY DEF ChainInv, ViewsAreLinear
    <3>5. Linear(View(r)', [hash |-> s, entry |-> e])
      BY <1>1, <1>2, <1>3, <1>4, <3>2, <3>3, <3>4, AppendKeepsLinear
    <3>6. QED  BY <2>3, <3>1, <3>5
  <2>4. QED  BY <2>2, <2>3
<1>13. QED  BY <1>9, <1>10, <1>11, <1>12 DEF ChainInv

\* A commit publishes a view that was linear, and no other view loses its chain:
\* either the transaction sealed nothing, or the others hold no head.
LEMMA CommitKeepsChain ==
    ASSUME Typed, Typed', ChainInv, NEW r \in Requests, Commit(r)
    PROVE  ChainInv'
<1>1. /\ entry' = View(r) /\ head' = HeadOf(r) /\ Release(r)
      /\ tx'[r] = NoTx /\ \A q \in Requests \ {r} : tx'[q] = tx[q]
  BY DEF Commit, Typed
<1>2. WritesAreLocked'
  BY <1>1, NoTxIsBlank, ReleaseHolds, LockNames DEF ChainInv, WritesAreLocked
<1>3. \A q \in Requests \ {r} : \A e \in Entries :
         tx[q].rows[e] # Null => tx[r].rows[e] = Null /\ View(r)[e] = entry[e]
  BY ViewOf DEF ChainInv, WritesAreLocked
<1>4. SealsAreKept'
  <2>1. SUFFICES ASSUME NEW q \in Requests, NEW e \in Entries, tx'[q].rows[e] # Null,
                        tx'[q].head = Null \/ entry'[e].hash # Null
                 PROVE  SameSeal(tx'[q].rows[e], entry'[e])
    BY DEF SealsAreKept
  <2>2. q # r
    BY <1>1, <2>1, NoTxIsBlank
  <2>3. QED  BY <1>1, <1>3, <2>1, <2>2 DEF ChainInv, SealsAreKept
<1>5. ChainIsLinear'
  BY <1>1 DEF ChainInv, ChainIsLinear, ViewsAreLinear
<1>6. ViewsAreLinear'
  <2>1. SUFFICES ASSUME NEW q \in Requests PROVE Linear(View(q)', HeadOf(q)')
    BY DEF ViewsAreLinear
  <2>2. CASE q = r
    <3>1. View(r)' = entry'
      BY <1>1, NoTxIsBlank DEF View, Typed
    <3>2. HeadOf(r)' = head'
      BY <1>1, NoTxIsBlank DEF HeadOf
    <3>3. QED  BY <1>5, <2>2, <3>1, <3>2 DEF ChainIsLinear
  <2>3. CASE q # r
    <3>1. \A e \in Entries :
            View(q)'[e] = IF tx[q].rows[e] # Null THEN tx[q].rows[e] ELSE View(r)[e]
      BY <1>1, <2>3 DEF View
    <3>2. /\ View(q) \in [Entries -> Rows] /\ View(r) \in [Entries -> Rows]
          /\ View(q)' \in [Entries -> Rows]
          /\ HeadOf(q) \in Heads \union {Null} /\ HeadOf(r) \in Heads \union {Null}
      <4>1. /\ View(q) \in [Entries -> Rows] /\ View(r) \in [Entries -> Rows]
            /\ HeadOf(q) \in Heads \union {Null} /\ HeadOf(r) \in Heads \union {Null}
        BY ViewType
      <4>2. entry' \in [Entries -> Rows] /\ tx'[q].rows \in [Entries -> Rows \union {Null}]
        BY TxFields DEF Typed
      <4>3. QED  BY <4>1, <4>2 DEF View
    <3>3. Linear(View(q), HeadOf(q)) /\ Linear(View(r), HeadOf(r))
      BY DEF ChainInv, ViewsAreLinear
    <3>4. \A e \in Entries : View(q)'[e] = View(q)[e] \/ View(q)'[e] = View(r)[e]
      BY <3>1, ViewOf
    <3>5. \A e \in Sealed(View(q)') : View(q)'[e].status \in {"posted", "void"}
      BY <3>3, <3>4 DEF Sealed, Linear
    <3>6. CASE tx[r].head = Null
      <4>1. HeadOf(q)' = HeadOf(q)
        BY <1>1, <2>3, <3>6 DEF HeadOf
      <4>2. \A e \in Entries : SameSeal(View(r)[e], entry[e])
        BY <3>6, ViewOf DEF ChainInv, SealsAreKept, SameSeal
      <4>3. \A e \in Entries : SameSeal(View(q)'[e], View(q)[e])
        BY <3>1, <4>2, ViewOf DEF SameSeal
      <4>4. QED  BY ONLY <3>2, <3>3, <3>5, <4>1, <4>3, LinearSameSeals
    <3>7. CASE tx[r].head # Null
      <4>1. tx[q].head = Null
        BY <2>3, <3>7 DEF ChainInv, WritesAreLocked
      <4>2. HeadOf(q)' = HeadOf(r)
        BY <1>1, <2>3, <4>1 DEF HeadOf
      <4>3. \A e \in Entries : SameSeal(View(q)'[e], View(r)[e])
        BY <1>3, <2>3, <3>1, <4>1 DEF ChainInv, SealsAreKept, SameSeal
      <4>4. QED  BY ONLY <3>2, <3>3, <3>5, <4>2, <4>3, LinearSameSeals
    <3>8. QED  BY <3>6, <3>7
  <2>4. QED  BY <2>2, <2>3
<1>7. QED  BY <1>2, <1>4, <1>5, <1>6 DEF ChainInv

\* Post, void and edit rewrite a row and leave its seal alone.
LEMMA UpdateKeepsChain ==
    ASSUME Typed, Typed', ChainInv, NEW r \in Requests, NEW row \in Rows, Update(r, row),
           SameSeal(row, View(r)[job[r].entry]),
           row.hash # Null => row.status \in {"posted", "void"}
    PROVE  ChainInv'
<1> DEFINE e == job[r].entry
<1>1. /\ entry' = entry /\ head' = head /\ Granted(r) /\ Take(r, Wants(r)) /\ e \in Entries
  BY JobType DEF Update, db
<1>2. /\ tx' = [tx EXCEPT ![r] = [tx[r] EXCEPT !.rows = [tx[r].rows EXCEPT ![e] = row]]]
  BY DEF Update
<1>3. /\ tx'[r].head = tx[r].head
      /\ tx'[r].rows = [tx[r].rows EXCEPT ![e] = row]
      /\ \A q \in Requests \ {r} : tx'[q] = tx[q]
  BY <1>2 DEF Typed, TxType
<1>4. tx'[r].rows[e] = row /\ \A f \in Entries \ {e} : tx'[r].rows[f] = tx[r].rows[f]
  BY <1>1, <1>3, JobType, TxFields
<1>5. /\ \A q \in Requests : \A x \in Resources : holder[x] = q => holder'[x] = q
      /\ holder'[<<"row", e>>] = r
  <2>1. <<"row", e>> \in Wants(r)
    BY DEF Update, At, Wants
  <2>2. QED  BY <1>1, <2>1, WantsHeld
<1>6. row # Null
  BY NullAssumption
<1>7. QED
  <2> HIDE DEF e
  <2>1. SameSeal(row, View(r)[e])
    BY DEF e
  <2>2. QED  BY ZenonT(30), <1>1, <1>3, <1>4, <1>5, <1>6, <2>1, WriteKeepsChain

\* An id that no row has holds no seal, for r either.
LEMMA UnusedIsUnsealed ==
    ASSUME Typed, ChainInv, NEW r \in Requests, NEW e \in Entries, Unused(r, e)
    PROVE  tx[r].rows[e] = Null /\ View(r)[e].hash = Null
<1>1. tx[r].rows[e] = Null
  BY NullAssumption DEF Unused, ChainInv, WritesAreLocked
<1>2. entry[e].hash = Null
  BY DEF Unused, ChainInv, ChainIsLinear, Linear, Sealed
<1>3. QED  BY <1>1, <1>2, ViewOf

-----------------------------------------------------------------------------
(* Every step. *)

\* A statement that only reads keeps the invariant.
LEMMA NothingKept ==
    ASSUME Typed, Typed', ChainInv, NEW r \in Requests,
           UNCHANGED <<entry, head, holder, tx>>
    PROVE  ChainInv'
  BY QuietKeepsChain

\* A database whose chain verifies satisfies the inductive invariant.
THEOREM ChainInit == Init => ChainInv
<1> SUFFICES ASSUME Init PROVE ChainInv
  OBVIOUS
<1>1. Typed
  BY TypeInit
<1>2. Linear(entry, head)
  BY StartsAssumption DEF Init
<1>3. \A r \in Requests : tx[r].head = Null /\ \A e \in Entries : tx[r].rows[e] = Null
  BY NoTxIsBlank DEF Init
<1>4. \A r \in Requests : View(r) = entry /\ HeadOf(r) = head
  BY <1>1, <1>3 DEF View, HeadOf, Typed
<1>5. QED
  BY <1>2, <1>3, <1>4
     DEF ChainInv, WritesAreLocked, SealsAreKept, ChainIsLinear, ViewsAreLinear

\* Every statement of every handler keeps the inductive invariant.
THEOREM ChainNext == Typed /\ ChainInv /\ [Next]_vars => ChainInv'
<1> SUFFICES ASSUME Typed, ChainInv, [Next]_vars PROVE ChainInv'
  OBVIOUS
<1>1. Typed'
  BY TypeNext
<1>2. CASE UNCHANGED vars
  BY <1>2 DEF vars, db, ChainInv, WritesAreLocked, SealsAreKept, ChainIsLinear,
              ViewsAreLinear, View, HeadOf
<1>3. ASSUME NEW r \in Requests, Lookup(r) PROVE ChainInv'
  BY <1>3, <1>1, NothingKept DEF Lookup, db
<1>4. ASSUME NEW r \in Requests, Read(r) PROVE ChainInv'
  BY <1>4, <1>1, NothingKept DEF Read, db
<1>5. ASSUME NEW r \in Requests, LinkCheck(r) PROVE ChainInv'
  BY <1>5, <1>1, NothingKept DEF LinkCheck, db
<1>6. ASSUME NEW r \in Requests, FiscalPass(r) PROVE ChainInv'
  BY <1>6, <1>1, NothingKept DEF FiscalPass, db
<1>7. ASSUME NEW r \in Requests, FiscalRefuse(r) PROVE ChainInv'
  BY <1>7, AbortKeepsChain DEF FiscalRefuse
<1>8. ASSUME NEW r \in Requests, InsertOne(r) PROVE ChainInv'
  <2> DEFINE e == job[r].entry
             s == IF job[r].op = "bank" \/ job[r].posted THEN "posted" ELSE "draft"
             row == NewRow(s, job[r].content, KeyUse(r))
             l == IF job[r].op = "bank" THEN {e} ELSE {}
  <2>1. /\ e \in Entries /\ Unused(r, e) /\ entry' = entry /\ head' = head
        /\ Granted(r) /\ Take(r, Wants(r) \union {<<"row", e>>})
    BY <1>8, JobType DEF InsertOne, db
  <2>2. tx' = [tx EXCEPT ![r] = [tx[r] EXCEPT !.rows = [tx[r].rows EXCEPT ![e] = row],
                                             !.linked = l]]
    BY <1>8 DEF InsertOne
  <2> HIDE DEF e, l
  <2>3. /\ tx'[r].head = tx[r].head
        /\ tx'[r].rows = [tx[r].rows EXCEPT ![e] = row]
        /\ \A q \in Requests \ {r} : tx'[q] = tx[q]
    BY <2>2 DEF Typed, TxType
  <2>4. row # Null /\ row.hash = Null
    <3>1. KeyUse(r) \in KeyUses \union {Null} /\ s \in Statuses
      BY JobType DEF KeyUse, KeyUses, Statuses
    <3>2. QED  BY <3>1, JobType, NewRowType, NullAssumption DEF NewRow
  <2>5. tx'[r].rows[e] = row /\ \A f \in Entries \ {e} : tx'[r].rows[f] = tx[r].rows[f]
    BY <2>1, <2>3, JobType, TxFields
  <2>6. SameSeal(row, View(r)[e])
    BY <2>1, <2>4, UnusedIsUnsealed DEF SameSeal
  <2>7. /\ \A q \in Requests : \A x \in Resources : holder[x] = q => holder'[x] = q
        /\ holder'[<<"row", e>>] = r
    <3> DEFINE X == Wants(r) \union {<<"row", e>>}
    <3>1. X \in SUBSET Resources
      BY <2>1, WantsType, LockNames
    <3>2. \A x \in X : holder[x] \in {Null, r}
      BY <2>1 DEF Unused, Granted
    <3>3. QED  BY <2>1, <3>1, <3>2, TakeHolds
  <2> HIDE DEF row
  <2>8. QED  BY <1>1, <2>1, <2>3, <2>4, <2>5, <2>6, <2>7, WriteKeepsChain
<1>9. ASSUME NEW r \in Requests, InsertDuplicate(r) PROVE ChainInv'
  BY <1>9, AbortKeepsChain DEF InsertDuplicate
<1>10. ASSUME NEW r \in Requests, Winner(r) PROVE ChainInv'
  BY <1>10, <1>1, NothingKept DEF Winner, db
<1>11. ASSUME NEW r \in Requests, InsertPair(r) PROVE ChainInv'
  <2> DEFINE c == job[r].counter
             p == job[r].replacement
             row1 == NewRow("posted", Reversal[pre[r]], Null)
             row2 == NewRow("posted", job[r].content, Null)
  <2>1. /\ c \in Entries /\ p \in Entries /\ c # p /\ Unused(r, c) /\ Unused(r, p)
        /\ entry' = entry /\ head' = head /\ Take(r, {<<"row", c>>, <<"row", p>>})
    BY <1>11, JobType DEF InsertPair, db
  <2>2. tx' = [tx EXCEPT ![r] = [tx[r] EXCEPT
                 !.rows = [[tx[r].rows EXCEPT ![c] = row1] EXCEPT ![p] = row2]]]
    BY ZenonT(40), <1>11 DEF InsertPair, Typed, TxType
  <2> HIDE DEF c, p
  <2>3. /\ tx'[r].head = tx[r].head
        /\ tx'[r].rows = [[tx[r].rows EXCEPT ![c] = row1] EXCEPT ![p] = row2]
        /\ \A q \in Requests \ {r} : tx'[q] = tx[q]
    BY <2>2 DEF Typed, TxType
  <2>4. /\ row1 # Null /\ row1.hash = Null
        /\ row2 # Null /\ row2.hash = Null
    <3>1. "posted" \in Statuses /\ Reversal[pre[r]] \in Contents /\ job[r].content \in Contents
      BY JobType, ContentsAssumption DEF Statuses, Typed
    <3>2. QED  BY <3>1, NewRowType, NullAssumption DEF NewRow
  <2> HIDE DEF row1, row2
  <2>5. /\ tx'[r].rows[c] = row1 /\ tx'[r].rows[p] = row2
        /\ \A f \in Entries \ {c, p} : tx'[r].rows[f] = tx[r].rows[f]
    BY <2>1, <2>3, JobType, TxFields
  <2>6. SameSeal(row1, View(r)[c]) /\ SameSeal(row2, View(r)[p])
    BY <2>1, <2>4, UnusedIsUnsealed DEF SameSeal
  <2>7. /\ \A q \in Requests : \A x \in Resources : holder[x] = q => holder'[x] = q
        /\ holder'[<<"row", c>>] = r /\ holder'[<<"row", p>>] = r
    <3> DEFINE X == {<<"row", c>>, <<"row", p>>}
    <3>1. X \in SUBSET Resources
      BY <2>1, LockNames
    <3>2. \A x \in X : holder[x] \in {Null, r}
      BY <2>1 DEF Unused
    <3>3. QED  BY <2>1, <3>1, <3>2, TakeHolds
  <2>8. QED  BY <1>1, <2>1, <2>3, <2>4, <2>5, <2>6, <2>7, WriteKeepsChain
<1>12. ASSUME NEW r \in Requests, Reread(r) PROVE ChainInv'
  <2>1. CASE Abort(r, <<>>)
    BY <2>1, AbortKeepsChain
  <2>2. CASE ~Abort(r, <<>>)
    BY <1>12, <1>1, <2>2, NothingKept DEF Reread, db
  <2>3. QED  BY <2>1, <2>2
<1>13. ASSUME NEW r \in Requests, PostUpdate(r) PROVE ChainInv'
  <2> DEFINE old == View(r)[job[r].entry]
             row == [old EXCEPT !.status = "posted"]
  <2>1. old \in Rows /\ "posted" \in Statuses
    BY JobType, ViewType DEF Statuses
  <2>2. row \in Rows
    BY <2>1 DEF Rows
  <2>3. SameSeal(row, old)
    BY <2>1 DEF SameSeal, Rows
  <2>4. row.status \in {"posted", "void"}
    BY <2>1 DEF Rows
  <2>5. Update(r, row)
    BY <1>13 DEF PostUpdate
  <2> HIDE DEF row
  <2>6. QED  BY <1>1, <2>2, <2>3, <2>4, <2>5, UpdateKeepsChain
<1>14. ASSUME NEW r \in Requests, VoidUpdate(r) PROVE ChainInv'
  <2> DEFINE old == View(r)[job[r].entry]
             row == [old EXCEPT !.status = "void"]
  <2>1. old \in Rows /\ "void" \in Statuses
    BY JobType, ViewType DEF Statuses
  <2>2. row \in Rows
    BY <2>1 DEF Rows
  <2>3. SameSeal(row, old)
    BY <2>1 DEF SameSeal, Rows
  <2>4. row.status \in {"posted", "void"}
    BY <2>1 DEF Rows
  <2>5. Update(r, row)
    BY <1>14 DEF VoidUpdate
  <2> HIDE DEF row
  <2>6. QED  BY <1>1, <2>2, <2>3, <2>4, <2>5, UpdateKeepsChain
<1>15. ASSUME NEW r \in Requests, EditUpdate(r) PROVE ChainInv'
  <2> DEFINE old == View(r)[job[r].entry]
             row == [old EXCEPT !.content = job[r].content]
  <2>1. old \in Rows /\ job[r].content \in Contents
    BY JobType, ViewType DEF Statuses
  <2>2. row \in Rows
    BY <2>1 DEF Rows
  <2>3. SameSeal(row, old)
    BY <2>1 DEF SameSeal, Rows
  <2>4. row.hash # Null => row.status \in {"posted", "void"}
    <3>1. row.hash = old.hash /\ row.status = old.status
      BY <2>1 DEF Rows
    <3>2. old.hash # Null => old.status \in {"posted", "void"}
      BY JobType DEF ChainInv, ViewsAreLinear, Linear, Sealed
    <3>3. QED  BY <3>1, <3>2
  <2>5. Update(r, row)
    BY <1>15 DEF EditUpdate
  <2> HIDE DEF row
  <2>6. QED  BY <1>1, <2>2, <2>3, <2>4, <2>5, UpdateKeepsChain
<1>16. ASSUME NEW r \in Requests, SealAppend(r) PROVE ChainInv'
  BY <1>16, <1>1, SealKeepsChain
<1>17. ASSUME NEW r \in Requests, AppendRefused(r) PROVE ChainInv'
  BY <1>17, AbortKeepsChain DEF AppendRefused
<1>18. ASSUME NEW r \in Requests, AppendBlocked(r) PROVE ChainInv'
  BY <1>18, AbortKeepsChain DEF AppendBlocked
<1>19. ASSUME NEW r \in Requests, Certify(r) PROVE ChainInv'
  BY <1>19, <1>1, NothingKept DEF Certify, db
<1>20. ASSUME NEW r \in Requests, Audit(r) PROVE ChainInv'
  <2>1. /\ entry' = entry /\ head' = head /\ Granted(r) /\ Take(r, Wants(r))
    BY <1>20 DEF Audit, db
  <2>2. /\ tx'[r].head = tx[r].head /\ tx'[r].rows = tx[r].rows
        /\ \A q \in Requests \ {r} : tx'[q] = tx[q]
    BY <1>20 DEF Audit, Typed, TxType
  <2>3. QED  BY <1>1, <2>1, <2>2, WantsHeld, QuietKeepsChain
<1>21. ASSUME NEW r \in Requests, LinkCorrection(r) PROVE ChainInv'
  <2>1. CASE Abort(r, <<>>)
    BY <2>1, AbortKeepsChain
  <2>2. CASE ~Abort(r, <<>>)
    <3>1. /\ entry' = entry /\ head' = head /\ Granted(r) /\ Take(r, Wants(r))
      BY <1>21, <2>2 DEF LinkCorrection, db
    <3>2. /\ tx'[r].head = tx[r].head /\ tx'[r].rows = tx[r].rows
          /\ \A q \in Requests \ {r} : tx'[q] = tx[q]
      BY <1>21, <2>2 DEF LinkCorrection, Typed, TxType
    <3>3. QED  BY <1>1, <3>1, <3>2, WantsHeld, QuietKeepsChain
  <2>3. QED  BY <2>1, <2>2
<1>22. ASSUME NEW r \in Requests, RecalcRead(r) PROVE ChainInv'
  BY <1>22, <1>1, NothingKept DEF RecalcRead, db
<1>23. ASSUME NEW r \in Requests, RecalcWrite(r) PROVE ChainInv'
  <2>1. /\ entry' = entry /\ head' = head /\ Granted(r) /\ Take(r, Wants(r))
    BY <1>23 DEF RecalcWrite, db
  <2>2. /\ tx'[r].head = tx[r].head /\ tx'[r].rows = tx[r].rows
        /\ \A q \in Requests \ {r} : tx'[q] = tx[q]
    BY <1>23 DEF RecalcWrite, Typed, TxType
  <2>3. QED  BY <1>1, <2>1, <2>2, WantsHeld, QuietKeepsChain
<1>24. ASSUME NEW r \in Requests, Commit(r) PROVE ChainInv'
  BY <1>24, <1>1, CommitKeepsChain
<1>25. ASSUME NEW r \in Requests, DeadlockVictim(r) PROVE ChainInv'
  BY <1>25, AbortKeepsChain DEF DeadlockVictim
<1>26. ASSUME NEW r \in Requests, ReadPeriod(r) PROVE ChainInv'
  BY <1>26, <1>1, NothingKept DEF ReadPeriod, db
<1>27. ASSUME NEW r \in Requests, LockPeriod(r) PROVE ChainInv'
  BY <1>27, <1>1, NothingKept DEF LockPeriod, db
<1>28. ASSUME NEW r \in Requests, Fail(r) PROVE ChainInv'
  BY <1>28, AbortKeepsChain DEF Fail
<1>29. ASSUME NEW r \in Requests, MatchUpdate(r) PROVE ChainInv'
  <2>1. CASE Abort(r, <<>>)
    BY <2>1, AbortKeepsChain
  <2>2. CASE ~Abort(r, <<>>)
    <3>1. /\ entry' = entry /\ head' = head /\ Granted(r) /\ Take(r, Wants(r))
      BY <1>29, <2>2 DEF MatchUpdate, db
    <3>2. /\ tx'[r].head = tx[r].head /\ tx'[r].rows = tx[r].rows
          /\ \A q \in Requests \ {r} : tx'[q] = tx[q]
      BY <1>29, <2>2 DEF MatchUpdate, Typed, TxType
    <3>3. QED  BY <1>1, <3>1, <3>2, WantsHeld, QuietKeepsChain
  <2>3. QED  BY <2>1, <2>2
<1>30. QED
  BY <1>2, <1>3, <1>4, <1>5, <1>6, <1>7, <1>8, <1>9, <1>10, <1>11, <1>12, <1>13, <1>14, <1>15,
     <1>16, <1>17, <1>18, <1>19, <1>20, <1>21, <1>22, <1>23, <1>24, <1>25, <1>26, <1>27, <1>28, <1>29 DEF Next, Step

\* The chain is linear in every committed state: it never forks, never skips an
\* entry and its head is the member nobody follows.
THEOREM ChainSafe == Spec => []ChainIsLinear
<1>1. ChainInv => ChainIsLinear
  BY DEF ChainInv
<1>2. Init => Typed /\ ChainInv
  BY TypeInit, ChainInit
<1>3. Typed /\ ChainInv /\ [Next]_vars => (Typed /\ ChainInv)'
  BY TypeNext, ChainNext
<1>4. QED  BY <1>1, <1>2, <1>3, PTL DEF Spec

\* Only a commit changes the journal.
LEMMA OnlyCommitWrites ==
    ASSUME [Next]_vars, entry' # entry
    PROVE  \E r \in Requests : Commit(r)
<1>1. PICK r \in Requests : Step(r) \/ Fail(r)
  BY DEF Next, vars, db
<1>2. \A rest : Abort(r, rest) => entry' = entry
  BY DEF Abort, db
<1>3. ~( \/ FiscalRefuse(r) \/ InsertDuplicate(r) \/ AppendRefused(r) \/ AppendBlocked(r)
         \/ DeadlockVictim(r) \/ Fail(r) \/ Reread(r) \/ LinkCorrection(r) \/ MatchUpdate(r))
  BY <1>2 DEF FiscalRefuse, InsertDuplicate, AppendRefused, AppendBlocked, DeadlockVictim,
              Fail, Reread, LinkCorrection, MatchUpdate, db
<1>4. ~( \/ Lookup(r) \/ Read(r) \/ LinkCheck(r) \/ FiscalPass(r) \/ Winner(r)
         \/ Certify(r) \/ Audit(r) \/ RecalcRead(r) \/ RecalcWrite(r)
         \/ ReadPeriod(r) \/ LockPeriod(r))
  BY DEF Lookup, Read, LinkCheck, FiscalPass, Winner, Certify, Audit, RecalcRead,
         RecalcWrite, ReadPeriod, LockPeriod, db
<1>5. ~( \/ InsertOne(r) \/ InsertPair(r) \/ SealAppend(r)
         \/ PostUpdate(r) \/ VoidUpdate(r) \/ EditUpdate(r))
  BY DEF InsertOne, InsertPair, SealAppend, PostUpdate, VoidUpdate, EditUpdate, Update, db
<1>6. QED  BY <1>1, <1>3, <1>4, <1>5 DEF Step

\* No commit changes a committed seal: whatever a request does to a sealed entry,
\* the hash and the link it was sealed with stay.
THEOREM SealsSafe == Spec => SealsAreForever
<1> DEFINE Kept == \A e \in Entries : entry[e].hash # Null =>
                     /\ entry'[e].hash = entry[e].hash
                     /\ entry'[e].prev = entry[e].prev
<1>1. Typed /\ ChainInv /\ [Next]_vars => [Kept]_entry
  <2>1. SUFFICES ASSUME Typed, ChainInv, [Next]_vars, entry' # entry PROVE Kept
    OBVIOUS
  <2>2. PICK r \in Requests : Commit(r)
    BY <2>1, OnlyCommitWrites
  <2>3. entry' = View(r)
    BY <2>2 DEF Commit
  <2>4. QED  BY <2>1, <2>3, ViewOf DEF ChainInv, SealsAreKept, SameSeal
<1>2. Init => Typed /\ ChainInv
  BY TypeInit, ChainInit
<1>3. Typed /\ ChainInv /\ [Next]_vars => (Typed /\ ChainInv)'
  BY TypeNext, ChainNext
<1>4. QED  BY <1>1, <1>2, <1>3, PTL DEF Spec, SealsAreForever

-----------------------------------------------------------------------------
(* The walk along a chain. *)

\* w goes from the root along the links of rows, and meets no entry twice.
IsPath(rows, w, n) ==
    /\ w \in [1..n -> Sealed(rows)]
    /\ \A i, k \in 1..n : w[i] = w[k] => i = k
    /\ \A i \in 1..n : rows[w[i]].prev = IF i = 1 THEN Null ELSE rows[w[i - 1]].hash

\* And it meets them all.
IsWalk(rows, w, n) ==
    n \in Nat /\ IsPath(rows, w, n) /\ \A e \in Sealed(rows) : \E i \in 1..n : w[i] = e

\* Every member of a chain is at the end of a path.
LEMMA PathTo ==
    ASSUME NEW rows, NEW h, Linear(rows, h), NEW t \in Sealed(rows)
    PROVE  \E n \in Nat \ {0} : \E w : IsPath(rows, w, n) /\ w[n] = t
<1> DEFINE M == Sealed(rows)
           S == {e \in M : \E n \in Nat \ {0} : \E w : IsPath(rows, w, n) /\ w[n] = e}
<1>1. ASSUME NEW e \in M, rows[e].prev = Null PROVE e \in S
  <2> DEFINE w == [i \in 1..1 |-> e]
  <2>1. IsPath(rows, w, 1) /\ w[1] = e
    BY <1>1 DEF IsPath
  <2>2. QED  BY <2>1
<1>2. ASSUME NEW e \in M, NEW f \in S, rows[e].prev = rows[f].hash PROVE e \in S
  <2>0. PICK n \in Nat \ {0} : \E w : IsPath(rows, w, n) /\ w[n] = f
    OBVIOUS
  <2>1. PICK w : IsPath(rows, w, n) /\ w[n] = f
    BY <2>0
  <2> DEFINE v == [i \in 1..(n + 1) |-> IF i = n + 1 THEN e ELSE w[i]]
  <2>2. \A x, y \in M : rows[x].hash = rows[y].hash => x = y
    BY DEF Linear
  <2>3. rows[f].hash # Null /\ f \in M
    BY DEF Sealed
  <2>4. ASSUME NEW i \in 1..n PROVE w[i] # e
    <3>1. ASSUME w[i] = e PROVE FALSE
      <4>1. i # 1 /\ rows[f].hash = rows[w[i - 1]].hash
        BY <1>2, <2>1, <2>3, <3>1 DEF IsPath
      <4>2. i - 1 \in 1..n /\ n \in 1..n
        BY <4>1
      <4>3. w[i - 1] = w[n]
        BY <2>1, <2>2, <4>1, <4>2 DEF IsPath
      <4>4. i - 1 = n
        BY <2>1, <4>2, <4>3 DEF IsPath
      <4>5. QED  BY <4>4
    <3>2. QED  BY <3>1
  <2>5. v \in [1..(n + 1) -> M]
    BY <2>1 DEF IsPath
  <2>6. \A i, k \in 1..(n + 1) : v[i] = v[k] => i = k
    BY <2>1, <2>4 DEF IsPath
  <2>7. ASSUME NEW i \in 1..(n + 1)
        PROVE  rows[v[i]].prev = IF i = 1 THEN Null ELSE rows[v[i - 1]].hash
    <3>1. CASE i = n + 1
      <4>1. v[i] = e /\ v[i - 1] = f /\ i # 1
        BY <2>1, <3>1
      <4>2. QED  BY <1>2, <4>1
    <3>2. CASE i # n + 1
      <4>1. i \in 1..n /\ v[i] = w[i] /\ (i # 1 => v[i - 1] = w[i - 1])
        BY <3>2
      <4>2. QED  BY <2>1, <4>1 DEF IsPath
    <3>3. QED  BY <3>1, <3>2
  <2>8. v[n + 1] = e /\ n + 1 \in Nat \ {0}
    OBVIOUS
  <2>9. IsPath(rows, v, n + 1)
    <3> HIDE DEF v
    <3> QED  BY <2>5, <2>6, <2>7 DEF IsPath
  <2>10. QED  BY <2>8, <2>9
<1>3. S = M
  <2> HIDE DEF S
  <2>1. S \in SUBSET M
    BY DEF S
  <2>2. QED  BY <1>1, <1>2, <2>1 DEF Linear, Chained
<1>4. QED  BY <1>3

\* A finite chain has a member nobody follows.
LEMMA TailExists ==
    ASSUME NEW rows, NEW h, Linear(rows, h), IsFiniteSet(Sealed(rows)), Sealed(rows) # {}
    PROVE  \E t \in Sealed(rows) : \A e \in Sealed(rows) : rows[e].prev # rows[t].hash
<1> DEFINE M == Sealed(rows)
<1>1. SUFFICES ASSUME \A t \in M : \E e \in M : rows[e].prev = rows[t].hash PROVE FALSE
  OBVIOUS
<1> DEFINE next == [t \in M |-> CHOOSE e \in M : rows[e].prev = rows[t].hash]
<1>2. \A t \in M : next[t] \in M /\ rows[next[t]].prev = rows[t].hash
  BY <1>1
<1>3. next \in [M -> M]
  BY <1>2
<1> HIDE DEF next
<1>4. next \in Surjection(M, M)
  <2>1. \A t, u \in M : rows[t].hash = rows[u].hash => t = u
    BY DEF Linear
  <2>2. \A t, u \in M : next[t] = next[u] => t = u
    BY <1>2, <2>1
  <2>3. next \in Injection(M, M)
    BY <1>3, <2>2 DEF Injection, IsInjective
  <2>4. QED  BY <2>3, FS_Injection
<1>5. \A e \in M : \E t \in M : rows[e].prev = rows[t].hash
  BY <1>2, <1>4 DEF Surjection
<1>6. \A e \in M : rows[e].prev # Null
  BY <1>5 DEF Sealed
<1>7. {} = M
  <2>1. \A e \in M : (rows[e].prev = Null \/ \E f \in {} : rows[e].prev = rows[f].hash) => e \in {}
    BY <1>6
  <2>2. {} \in SUBSET M /\ Chained(rows, M)
    BY DEF Linear
  <2>3. QED  BY <2>1, <2>2 DEF Chained
<1>8. QED  BY <1>7

\* So a finite chain is one walk.
LEMMA WalkExists ==
    ASSUME NEW rows, NEW h, Linear(rows, h), IsFiniteSet(Sealed(rows))
    PROVE  \E n, w : IsWalk(rows, w, n)
<1> DEFINE M == Sealed(rows)
<1>1. CASE M = {}
  <2>1. IsWalk(rows, [i \in 1..0 |-> Null], 0)
    BY <1>1 DEF IsWalk, IsPath
  <2>2. QED  BY <2>1
<1>2. CASE M # {}
  <2>1. PICK t \in M : \A e \in M : rows[e].prev # rows[t].hash
    BY <1>2, TailExists
  <2>0. PICK n \in Nat \ {0} : \E w : IsPath(rows, w, n) /\ w[n] = t
    BY PathTo
  <2>2. PICK w : IsPath(rows, w, n) /\ w[n] = t
    BY <2>0
  <2> DEFINE S == {w[i] : i \in 1..n}
  <2>3. S \in SUBSET M
    BY <2>2 DEF IsPath
  <2>4. ASSUME NEW e \in M, rows[e].prev = Null PROVE e \in S
    <3>1. 1 \in 1..n /\ w[1] \in M /\ rows[w[1]].prev = Null
      BY <2>2 DEF IsPath
    <3>2. e = w[1]
      BY <2>4, <3>1 DEF Linear, Chained
    <3>3. QED  BY <3>1, <3>2
  <2>5. ASSUME NEW e \in M, NEW i \in 1..n, rows[e].prev = rows[w[i]].hash PROVE e \in S
    <3>1. i # n
      BY <2>1, <2>2, <2>5
    <3>2. i + 1 \in 1..n /\ w[i + 1] \in M /\ rows[w[i + 1]].prev = rows[w[i]].hash
      <4>1. i + 1 \in 1..n /\ i + 1 # 1 /\ (i + 1) - 1 = i
        BY <2>2, <3>1
      <4>2. QED  BY <2>2, <4>1 DEF IsPath
    <3>3. e = w[i + 1]
      BY <2>5, <3>2 DEF Linear, Chained
    <3>4. QED  BY <3>2, <3>3
  <2>6. S = M
    <3>1. \A e \in M : (rows[e].prev = Null \/ \E f \in S : rows[e].prev = rows[f].hash) => e \in S
      BY <2>4, <2>5
    <3> HIDE DEF S
    <3>2. QED  BY <2>3, <3>1 DEF Linear, Chained
  <2>7. IsWalk(rows, w, n)
    BY <2>2, <2>6 DEF IsWalk
  <2>8. QED  BY <2>7
<1>3. QED  BY <1>1, <1>2

\* The length of the walk is the number of entries.
LEMMA WalkLength ==
    ASSUME NEW rows, NEW w, NEW n, IsWalk(rows, w, n)
    PROVE  IsFiniteSet(Sealed(rows)) /\ Cardinality(Sealed(rows)) = n
<1>1. w \in Bijection(1..n, Sealed(rows))
  BY DEF IsWalk, IsPath, Bijection, Injection, Surjection, IsInjective
<1>2. n \in Nat /\ ExistsBijection(1..n, Sealed(rows))
  BY <1>1 DEF IsWalk, ExistsBijection
<1>3. QED  BY <1>2, FS_CountingElements, FS_NatBijection

\* The levels of a chain are the entries of its walk, one by one.
LEMMA WalkLevels ==
    ASSUME NEW rows, NEW h, Linear(rows, h), NEW w, NEW n, IsWalk(rows, w, n)
    PROVE  LevelsOf(rows) = [i \in 1..n |-> {w[i]}]
<1> DEFINE M == Sealed(rows)
           Follow(g) == [i \in 1..Cardinality(M) |->
                           IF i = 1 THEN {e \in M : rows[e].prev = Null}
                           ELSE {e \in M : \E f \in g[i - 1] : rows[e].prev = rows[f].hash}]
           IsLevels(g) == g = Follow(g)
           F == [i \in 1..n |-> {w[i]}]
           L == LevelsOf(rows)
<1>1. /\ n \in Nat /\ Cardinality(M) = n
      /\ \A i \in 1..n : w[i] \in M
      /\ \A i, k \in 1..n : w[i] = w[k] => i = k
      /\ \A i \in 1..n : rows[w[i]].prev = IF i = 1 THEN Null ELSE rows[w[i - 1]].hash
      /\ \A e \in M : \E i \in 1..n : w[i] = e
      /\ \A e \in M : rows[e].hash # Null /\ rows[e].hash.entry = e
  <2>1. n \in Nat /\ Cardinality(M) = n
    BY WalkLength DEF IsWalk
  <2>2. \A e \in M : rows[e].hash # Null /\ rows[e].hash.entry = e
    BY DEF Linear, Sealed
  <2>3. QED  BY <2>1, <2>2 DEF IsWalk, IsPath
<1>2. \A i \in 1..n : i = 1 => {e \in M : rows[e].prev = Null} = {w[i]}
  BY <1>1
<1>3. ASSUME NEW i \in 1..n, i # 1
      PROVE  {e \in M : rows[e].prev = rows[w[i - 1]].hash} = {w[i]}
  <2>1. i - 1 \in 1..n /\ rows[w[i]].prev = rows[w[i - 1]].hash
    BY <1>1, <1>3
  <2>2. ASSUME NEW e \in M, rows[e].prev = rows[w[i - 1]].hash PROVE e = w[i]
    BY <1>1, <2>1, <2>2 DEF Linear, Chained
  <2>3. QED  BY <1>1, <2>1, <2>2
<1>4. IsLevels(F)
  <2>1. ASSUME NEW i \in 1..n
        PROVE  F[i] = IF i = 1 THEN {e \in M : rows[e].prev = Null}
                      ELSE {e \in M : \E f \in F[i - 1] : rows[e].prev = rows[f].hash}
    <3>1. CASE i = 1
      BY <1>2, <3>1
    <3>2. CASE i # 1
      <4>1. i - 1 \in 1..n /\ F[i - 1] = {w[i - 1]}
        BY <1>1, <3>2
      <4>2. QED  BY <1>3, <3>2, <4>1
    <3>3. QED  BY <3>1, <3>2
  <2>2. QED  BY ZenonT(40), <1>1, <2>1
<1>5. IsLevels(L)
  <2>1. L = CHOOSE g : IsLevels(g)
    BY DEF LevelsOf
  <2>2. HIDE DEF IsLevels, L, F
  <2>3. QED  BY <1>4, <2>1
<1>6. \A i \in 1..n : L[i] = IF i = 1 THEN {e \in M : rows[e].prev = Null}
                             ELSE {e \in M : \E f \in L[i - 1] : rows[e].prev = rows[f].hash}
  <2> HIDE DEF L
  <2>1. QED  BY <1>1, <1>5
<1> DEFINE S == {e \in M : \E i \in 1..n : e = w[i] /\ L[i] = {w[i]}}
<1>7. ASSUME NEW e \in M, rows[e].prev = Null PROVE e \in S
  <2>1. PICK i \in 1..n : w[i] = e
    BY <1>1
  <2>2. i = 1
    BY <1>1, <1>7, <2>1
  <2>3. L[i] = {w[i]}
    <3> HIDE DEF L
    <3> QED  BY <1>2, <1>6, <2>2
  <2>4. QED  BY <2>1, <2>3
<1>8. ASSUME NEW e \in M, NEW f \in S, rows[e].prev = rows[f].hash PROVE e \in S
  <2>1. PICK k \in 1..n : f = w[k] /\ L[k] = {w[k]}
    OBVIOUS
  <2>2. PICK i \in 1..n : w[i] = e
    BY <1>1
  <2>3. i # 1 /\ rows[w[i - 1]].hash = rows[w[k]].hash
    BY <1>1, <1>8, <2>1, <2>2
  <2>4. i - 1 \in 1..n
    BY <1>1, <2>3
  <2>5. k = i - 1
    BY <1>1, <2>3, <2>4
  <2>6. L[i] = {w[i]}
    <3> HIDE DEF L
    <3>1. L[i - 1] = {w[i - 1]}
      BY <2>1, <2>5
    <3>2. L[i] = {x \in M : \E y \in L[i - 1] : rows[x].prev = rows[y].hash}
      BY <1>6, <2>3
    <3>3. L[i] = {x \in M : rows[x].prev = rows[w[i - 1]].hash}
      BY <3>1, <3>2
    <3>4. QED  BY <1>3, <2>3, <3>3
  <2>7. QED  BY <2>2, <2>6
<1>9. S = M
  <2> HIDE DEF S
  <2>1. S \in SUBSET M
    BY DEF S
  <2>2. QED  BY <1>7, <1>8, <2>1 DEF Linear, Chained
<1>10. \A i \in 1..n : L[i] = {w[i]}
  <2> HIDE DEF L
  <2>1. SUFFICES ASSUME NEW i \in 1..n PROVE L[i] = {w[i]}
    OBVIOUS
  <2>2. w[i] \in S
    BY <1>1, <1>9
  <2>3. PICK k \in 1..n : w[i] = w[k] /\ L[k] = {w[k]}
    BY <2>2
  <2>4. QED  BY <1>1, <2>3
<1>11. L = [i \in 1..n |-> L[i]]
  <2> HIDE DEF L
  <2>1. QED  BY <1>1, <1>5
<1>12. QED
  <2> HIDE DEF L
  <2>1. L = F
    BY <1>10, <1>11
  <2>2. QED  BY <2>1 DEF L

\* What a reader sees are the entries of the walk with what was sealed.
LEMMA WalkIs ==
    ASSUME NEW rows, NEW h, Linear(rows, h), NEW w, NEW n, IsWalk(rows, w, n)
    PROVE  WalkOf(rows) = [i \in 1..n |-> <<w[i], rows[w[i]].hash.content>>]
<1>1. Cardinality(Sealed(rows)) = n
  BY WalkLength
<1>2. \A i \in 1..n : LevelsOf(rows)[i] = {w[i]}
  <2>1. LevelsOf(rows) = [i \in 1..n |-> {w[i]}]
    BY WalkLevels
  <2>2. QED  BY <2>1
<1>3. ASSUME NEW i \in 1..n
      PROVE  (IF LevelsOf(rows)[i] = {} THEN <<Null, Null>>
              ELSE LET e == CHOOSE e \in LevelsOf(rows)[i] : TRUE IN <<e, rows[e].hash.content>>)
                = <<w[i], rows[w[i]].hash.content>>
  <2>1. LevelsOf(rows)[i] # {} /\ (CHOOSE e \in LevelsOf(rows)[i] : TRUE) = w[i]
    BY <1>2
  <2>2. QED  BY <2>1
<1>4. QED  BY <1>1, <1>3 DEF WalkOf

\* A new seal goes to the end of the walk.
LEMMA WalkGrows ==
    ASSUME NEW rows, NEW h, Linear(rows, h), NEW w, NEW n, IsWalk(rows, w, n),
           NEW rows2, NEW h2, Linear(rows2, h2), NEW e, e \notin Sealed(rows),
           Sealed(rows2) = Sealed(rows) \union {e},
           \A f \in Sealed(rows) : rows2[f].hash = rows[f].hash /\ rows2[f].prev = rows[f].prev
    PROVE  IsWalk(rows2, [i \in 1..(n + 1) |-> IF i = n + 1 THEN e ELSE w[i]], n + 1)
<1> DEFINE v == [i \in 1..(n + 1) |-> IF i = n + 1 THEN e ELSE w[i]]
           M == Sealed(rows2)
<1>1. /\ n \in Nat
      /\ \A i \in 1..n : w[i] \in Sealed(rows) /\ w[i] \in M /\ w[i] # e
      /\ \A i, k \in 1..n : w[i] = w[k] => i = k
      /\ \A i \in 1..n : rows[w[i]].prev = IF i = 1 THEN Null ELSE rows[w[i - 1]].hash
      /\ \A f \in Sealed(rows) : \E i \in 1..n : w[i] = f
      /\ e \in M
  BY DEF IsWalk, IsPath
<1>2. \A i \in 1..n : rows2[w[i]].prev = IF i = 1 THEN Null ELSE rows2[w[i - 1]].hash
  BY <1>1
<1>3. rows2[e].prev = IF n = 0 THEN Null ELSE rows2[w[n]].hash
  <2>0. PICK m \in Nat \ {0} : \E u : IsPath(rows2, u, m) /\ u[m] = e
    BY <1>1, PathTo
  <2>1. PICK u : IsPath(rows2, u, m) /\ u[m] = e
    BY <2>0
  <2>2. CASE m = 1
    <3>1. rows2[e].prev = Null
      BY <2>1, <2>2 DEF IsPath
    <3>2. n = 0
      <4>1. ASSUME n # 0 PROVE FALSE
        <5>1. 1 \in 1..n /\ rows2[w[1]].prev = Null
          BY <1>1, <1>2, <4>1
        <5>2. QED  BY <1>1, <3>1, <5>1 DEF Linear, Chained
      <4>2. QED  BY <4>1
    <3>3. QED  BY <3>1, <3>2
  <2>3. CASE m # 1
    <3>1. /\ m - 1 \in 1..m /\ m \in 1..m /\ u[m - 1] \in M /\ u[m - 1] # e
          /\ rows2[e].prev = rows2[u[m - 1]].hash
      BY <2>1, <2>3 DEF IsPath
    <3>2. PICK k \in 1..n : w[k] = u[m - 1]
      BY <1>1, <3>1
    <3>3. ASSUME k # n PROVE FALSE
      <4>1. k + 1 \in 1..n /\ rows2[w[k + 1]].prev = rows2[w[k]].hash
        <5>1. k + 1 \in 1..n /\ k + 1 # 1 /\ (k + 1) - 1 = k
          BY <1>1, <3>3
        <5>2. QED  BY <1>2, <5>1
      <4>2. w[k + 1] = e
        BY <1>1, <3>1, <3>2, <4>1 DEF Linear, Chained
      <4>3. QED  BY <1>1, <4>1, <4>2
    <3>4. k = n /\ n # 0
      BY <1>1, <3>3
    <3>5. QED  BY <3>1, <3>2, <3>4
  <2>4. QED  BY <2>2, <2>3
<1>4. v \in [1..(n + 1) -> M]
  BY <1>1
<1>5. \A i, k \in 1..(n + 1) : v[i] = v[k] => i = k
  BY <1>1
<1>6. ASSUME NEW i \in 1..(n + 1)
      PROVE  rows2[v[i]].prev = IF i = 1 THEN Null ELSE rows2[v[i - 1]].hash
  <2>1. CASE i = n + 1
    <3>1. v[i] = e /\ (i = 1 <=> n = 0) /\ (n # 0 => v[i - 1] = w[n])
      BY <1>1, <2>1
    <3>2. QED  BY <1>3, <3>1
  <2>2. CASE i # n + 1
    <3>1. i \in 1..n /\ v[i] = w[i] /\ (i # 1 => v[i - 1] = w[i - 1])
      BY <1>1, <2>2
    <3>2. QED  BY <1>2, <3>1
  <2>3. QED  BY <2>1, <2>2
<1>7. \A f \in M : \E i \in 1..(n + 1) : v[i] = f
  <2>1. \A i \in 1..n : i \in 1..(n + 1) /\ v[i] = w[i]
    BY <1>1
  <2>2. n + 1 \in 1..(n + 1) /\ v[n + 1] = e
    BY <1>1
  <2>3. QED
    <3> HIDE DEF v
    <3> QED  BY <1>1, <2>1, <2>2
<1>8. QED  BY <1>1, <1>4, <1>5, <1>6, <1>7 DEF IsWalk, IsPath
=============================================================================
