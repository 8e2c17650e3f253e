-------------------------- MODULE AccountAccess_proofs --------------------------
(***************************************************************************)
(* Proofs that the locks of registrations and deletions keep what they are *)
(* for, for any number of calls, addresses and codes.                      *)
(***************************************************************************)
EXTENDS AccountAccessProps, TLAPS

Proving == {"proving", "serialising"}
Proved == {"serialising", "confirming"}
Naming == {"naming", "listing"}
Locking == {"checking", "removing"}
Installing == {"preparing", "closing", "restoring", "discarding"}

-----------------------------------------------------------------------------
(* Types. *)

\* What a call keeps is of its kind.
Shaped(c) ==
    /\ calls[c].at \in Proving =>
        /\ calls[c] = [at |-> calls[c].at, email |-> calls[c].email, code |-> calls[c].code]
        /\ calls[c].email \in Emails /\ calls[c].code \in Nat
    /\ calls[c].at = "confirming" =>
        calls[c].email \in Emails /\ calls[c].found \in Accounts /\ calls[c].first \in BOOLEAN
    /\ calls[c].at = "changing" => calls[c].target \in Emails /\ calls[c].change \in Changes
    /\ calls[c].at \in Naming =>
        /\ calls[c] = [at |-> calls[c].at, actor |-> calls[c].actor, target |-> calls[c].target]
        /\ calls[c].actor \in Emails /\ calls[c].target \in Emails
    /\ calls[c].at = "waiting" =>
        calls[c].actor \in Emails /\ calls[c].target \in Emails /\ calls[c].listed \subseteq Emails
    /\ calls[c].at \in Locking =>
        /\ calls[c].target \in Emails /\ calls[c].listed \subseteq Emails
        /\ calls[c].locked \subseteq Emails
    /\ calls[c].at \in Installing => calls[c] = [at |-> calls[c].at]

LEMMA Shapes == ASSUME TypeOK, NEW c \in Calls PROVE Shaped(c)
<1>1. calls[c] \in Places
  BY DEF TypeOK
<1>. QED  BY <1>1 DEF Places, Shaped, Proving, Naming, Locking, Installing

LEMMA Verified ==
    ASSUME NEW r \in Accounts, NEW x \in {"none", "user", "super_admin"}
    PROVE  /\ [r EXCEPT !.verified = TRUE, !.role = x] \in Accounts
           /\ [r EXCEPT !.verified = TRUE, !.role = x].verified
           /\ [r EXCEPT !.verified = TRUE, !.role = x].from = r.from
  BY DEF Accounts

LEMMA Changed ==
    ASSUME NEW r \in Accounts, NEW x \in Changes
    PROVE  /\ [r EXCEPT !.role = x.role, !.active = x.active] \in Accounts
           /\ [r EXCEPT !.role = x.role, !.active = x.active].verified = r.verified
           /\ [r EXCEPT !.role = x.role, !.active = x.active].from = r.from
  BY DEF Accounts, Changes

LEMMA NobodyIs ==
    NoOne \in Accounts /\ NoOne.from = "none" /\ ~ NoOne.verified /\ NoOne.role = "none"
  BY DEF NoOne, Accounts

LEMMA AccountIs ==
    ASSUME NEW role \in {"none", "user", "super_admin"}, NEW verified \in BOOLEAN,
           NEW from \in {"code", "invite", "archive"}
    PROVE  /\ Account(role, verified, from) \in Accounts
           /\ Account(role, verified, from).from = from
           /\ Account(role, verified, from).verified = verified
  BY DEF Account, Accounts

LEMMA RoleOfIs ==
    ASSUME TypeOK, NEW c \in Calls, calls[c].at = "confirming"
    PROVE  RoleOf(calls[c]) \in {"none", "user", "super_admin"}
<1>1. calls[c].found \in Accounts
  BY Shapes DEF Shaped
<1>. QED  BY <1>1 DEF RoleOf, Accounts

\* What a confirmation makes of the account.
LEMMA ConfirmedUser ==
    ASSUME TypeOK, NEW c \in Calls, Confirm(c)
    PROVE  \E u \in Accounts :
              /\ user' = [user EXCEPT ![calls[c].email] = u]
              /\ u.verified
              /\ u.from = IF Present(calls[c].email) THEN user[calls[c].email].from ELSE "code"
<1>. DEFINE e == calls[c].email
            r == RoleOf(calls[c])
            u == [user[e] EXCEPT !.verified = TRUE, !.role = r]
            v == Account(r, TRUE, "code")
<1>1. e \in Emails /\ user[e] \in Accounts /\ r \in {"none", "user", "super_admin"}
  BY Shapes, RoleOfIs DEF TypeOK, Shaped, Confirm, At
<1>2. user' = [user EXCEPT ![e] = IF Present(e) THEN u ELSE v]
  BY <1>1 DEF Confirm
<1>3. CASE Present(e)
  <2>1. u \in Accounts /\ u.verified /\ u.from = user[e].from
    BY <1>1, Verified
  <2>2. user' = [user EXCEPT ![e] = u]
    BY <1>2, <1>3
  <2>. QED  BY <1>3, <2>1, <2>2
<1>4. CASE ~ Present(e)
  <2>1. v \in Accounts /\ v.verified /\ v.from = "code"
    BY <1>1, AccountIs
  <2>2. user' = [user EXCEPT ![e] = v]
    BY <1>2, <1>4
  <2>. QED  BY <1>4, <2>1, <2>2
<1>. QED  BY <1>3, <1>4

\* What a change makes of it.
LEMMA ChangedUser ==
    ASSUME TypeOK, NEW c \in Calls, Change(c)
    PROVE  \E u \in Accounts :
              /\ user' = [user EXCEPT ![calls[c].target] = u]
              /\ u.verified = user[calls[c].target].verified
              /\ u.from = user[calls[c].target].from
              /\ ~ Present(calls[c].target) => u = NoOne
<1>. DEFINE t == calls[c].target
            x == calls[c].change
            u == [user[t] EXCEPT !.role = x.role, !.active = x.active]
<1>1. t \in Emails /\ x \in Changes /\ user[t] \in Accounts
  BY Shapes DEF TypeOK, Shaped, Change, At
<1>2. u \in Accounts /\ u.verified = user[t].verified /\ u.from = user[t].from
  BY <1>1, Changed
<1>3. user' = IF ~ Present(t) THEN user ELSE [user EXCEPT ![t] = u]
  BY <1>1 DEF Change
<1>4. CASE ~ Present(t)
  BY <1>1, <1>3, <1>4, NobodyIs DEF Present, TypeOK
<1>5. CASE Present(t)
  BY <1>1, <1>2, <1>3, <1>5
<1>. QED  BY <1>4, <1>5

Others == <<user, request, grants, issued, companies, marker>>

\* A step that only moves one call.
LEMMA MoveTypes ==
    ASSUME TypeOK, NEW c \in Calls, NEW k \in Places,
           calls' = [calls EXCEPT ![c] = k], UNCHANGED Others
    PROVE  TypeOK'
  BY DEF TypeOK, Others

LEMMA EndTypes ==
    ASSUME TypeOK, NEW c \in Calls, End(c) PROVE calls' \in [Calls -> Places]
  BY DEF TypeOK, End, Done, Places

LEMMA RequestTypes ==
    ASSUME TypeOK, NEW e \in Emails, NEW resend \in BOOLEAN,
           RequestCode(e, resend) \/ GrantToken(e) \/ Lapse(e)
    PROVE  TypeOK'
<1>1. CASE RequestCode(e, resend)
  BY <1>1, AccessAssumption DEF TypeOK, RequestCode, States
<1>2. CASE GrantToken(e)
  BY <1>2 DEF TypeOK, GrantToken
<1>3. CASE Lapse(e)
  <2>1. request[e] \in [code: 0 .. issued, state: States]
    BY DEF TypeOK
  <2>2. [request[e] EXCEPT !.state = "dead"] \in [code: 0 .. issued, state: States]
    BY <2>1 DEF States
  <2>3. request' \in [Emails -> [code: 0 .. issued, state: States]]
    BY <1>3, <2>2 DEF Lapse, TypeOK
  <2>. QED  BY <1>3, <2>3 DEF Lapse, TypeOK
<1>. QED  BY <1>1, <1>2, <1>3

LEMMA EnterTypes == ASSUME TypeOK, NEW c \in Calls, Enter(c) PROVE TypeOK'
<1>1. issued \in Nat
  BY AccessAssumption DEF TypeOK
<1>2. ASSUME NEW e \in Emails, NEW code \in 1 .. issued, BeginConfirmation(c, e, code)
      PROVE TypeOK'
  <2>1. [at |-> "proving", email |-> e, code |-> code] \in Places
    BY <1>1 DEF Places
  <2>. QED  BY <1>2, <2>1, MoveTypes DEF BeginConfirmation, Begin, Others
<1>3. ASSUME NEW e \in Emails, NEW change \in Changes, BeginChange(c, e, change)
      PROVE TypeOK'
  <2>1. [at |-> "changing", target |-> e, change |-> change] \in Places
    BY DEF Places
  <2>. QED  BY <1>3, <2>1, MoveTypes DEF BeginChange, Begin, Others
<1>4. ASSUME NEW actor \in Emails, NEW e \in Emails, BeginDeletion(c, actor, e)
      PROVE TypeOK'
  <2>1. [at |-> "naming", actor |-> actor, target |-> e] \in Places
    BY DEF Places
  <2>. QED  BY <1>4, <2>1, MoveTypes DEF BeginDeletion, Begin, Others
<1>5. CASE BeginFirstInstall(c)
  <2>1. [at |-> "preparing"] \in Places
    BY DEF Places
  <2>. QED  BY <1>5, <2>1, MoveTypes DEF BeginFirstInstall, Begin, Others
<1>. QED  BY <1>2, <1>3, <1>4, <1>5 DEF Enter

LEMMA DoneIsPlace == Done \in Places
  BY DEF Done, Places

LEMMA RegistrationTypes ==
    ASSUME TypeOK, NEW c \in Calls, ProveCode(c) \/ CountAccounts(c) \/ Confirm(c)
    PROVE  TypeOK'
<1>0. Shaped(c)
  BY Shapes
<1>1. CASE ProveCode(c)
  <2>1. [calls[c] EXCEPT !.at = "serialising"] \in Places
    <3>1. [calls[c] EXCEPT !.at = "serialising"] =
             [at |-> "serialising", email |-> calls[c].email, code |-> calls[c].code]
      BY <1>0, <1>1 DEF Shaped, Proving, ProveCode, At
    <3>. QED  BY <1>0, <1>1, <3>1 DEF Shaped, Proving, ProveCode, At, Places
  <2>. QED  BY <1>1, <2>1, DoneIsPlace, MoveTypes DEF ProveCode, Others
<1>2. CASE CountAccounts(c)
  <2>. DEFINE e == calls[c].email
              k == [at |-> "confirming", email |-> e, code |-> calls[c].code,
                    found |-> user[e], first |-> IsFirst(e)]
  <2>1. e \in Emails /\ calls[c].code \in Nat
    BY <1>0, <1>2 DEF Shaped, Proving, CountAccounts, At
  <2>2. user[e] \in Accounts /\ IsFirst(e) \in BOOLEAN
    BY <2>1 DEF TypeOK, IsFirst
  <2>3. k \in Places
    BY <2>1, <2>2 DEF Places
  <2>4. calls' = [calls EXCEPT ![c] = Done] \/ calls' = [calls EXCEPT ![c] = k]
    BY <1>2 DEF CountAccounts
  <2>. QED  BY <1>2, <2>3, <2>4, DoneIsPlace, MoveTypes DEF CountAccounts, Others
<1>3. CASE Confirm(c)
  <2>1. calls[c].email \in Emails
    BY <1>0, <1>3 DEF Shaped, Confirm, At
  <2>2. user' \in [Emails -> Accounts]
    BY <1>3, ConfirmedUser DEF TypeOK
  <2>3. request[calls[c].email] \in [code: 0 .. issued, state: States]
    BY <2>1 DEF TypeOK
  <2>4. [request[calls[c].email] EXCEPT !.state = "spent"] \in [code: 0 .. issued, state: States]
    BY <2>3 DEF States
  <2>5. request' \in [Emails -> [code: 0 .. issued, state: States]]
    BY <1>3, <2>4 DEF Confirm, TypeOK
  <2>6. companies' \subseteq Emails \union Archived
    <3>1. companies' = companies \/ companies' = companies \union {calls[c].email}
      BY <1>3 DEF Confirm
    <3>. QED  BY <2>1, <3>1 DEF TypeOK
  <2>7. grants' \subseteq Emails
    <3>1. grants' = grants \/ grants' = grants \ {calls[c].email}
      BY <1>3 DEF Confirm
    <3>. QED  BY <3>1 DEF TypeOK
  <2>8. calls' \in [Calls -> Places] /\ UNCHANGED <<issued, marker>>
    BY <1>3, EndTypes DEF Confirm
  <2>. QED  BY <2>2, <2>5, <2>6, <2>7, <2>8 DEF TypeOK
<1>. QED  BY <1>1, <1>2, <1>3

LEMMA AdministrationTypes ==
    ASSUME TypeOK, NEW c \in Calls,
           \/ Change(c) \/ NameIdentity(c) \/ ListAdmins(c) \/ LockRows(c)
           \/ CheckDeletion(c) \/ Remove(c) \/ Abort(c)
    PROVE  TypeOK'
<1>0. Shaped(c)
  BY Shapes
<1>1. CASE Change(c)
  <2>1. user' \in [Emails -> Accounts]
    BY <1>1, ChangedUser DEF TypeOK
  <2>. QED  BY <1>1, <2>1, EndTypes DEF TypeOK, Change
<1>2. CASE NameIdentity(c)
  <2>1. [calls[c] EXCEPT !.at = "listing"] \in Places
    <3>1. [calls[c] EXCEPT !.at = "listing"] =
             [at |-> "listing", actor |-> calls[c].actor, target |-> calls[c].target]
      BY <1>0, <1>2 DEF Shaped, Naming, NameIdentity, At
    <3>. QED  BY <1>0, <1>2, <3>1 DEF Shaped, Naming, NameIdentity, At, Places
  <2>2. \/ calls' = [calls EXCEPT ![c] = [calls[c] EXCEPT !.at = "listing"]]
        \/ calls' = [calls EXCEPT ![c] = Done]
    BY <1>2 DEF NameIdentity, TypeOK
  <2>. QED  BY <1>2, <2>1, <2>2, DoneIsPlace, MoveTypes DEF NameIdentity, Others
<1>3. CASE ListAdmins(c)
  <2>. DEFINE k == [at |-> "waiting", actor |-> calls[c].actor, target |-> calls[c].target,
                    listed |-> SuperAdmins]
  <2>1. k \in Places
    BY <1>0, <1>3 DEF Shaped, Naming, ListAdmins, At, Places, SuperAdmins
  <2>2. calls' = [calls EXCEPT ![c] = k]
    BY <1>3 DEF ListAdmins, TypeOK
  <2>. QED  BY <1>3, <2>1, <2>2, MoveTypes DEF ListAdmins, Others
<1>4. CASE LockRows(c)
  <2>. DEFINE k == [at |-> "checking", actor |-> calls[c].actor, target |-> calls[c].target,
                    listed |-> calls[c].listed, locked |-> Locked(calls[c])]
  <2>0. Locked(calls[c]) \subseteq Emails
    BY <1>0, <1>4 DEF Shaped, LockRows, At, Locked, SuperAdmins
  <2>1. k \in Places
    BY <1>0, <1>4, <2>0 DEF Shaped, LockRows, At, Places
  <2>2. calls' = [calls EXCEPT ![c] = k]
    BY <1>4 DEF LockRows
  <2>. QED  BY <1>4, <2>1, <2>2, MoveTypes DEF LockRows, Others
<1>5. CASE CheckDeletion(c)
  <2>. DEFINE k == [at |-> "removing", target |-> calls[c].target, listed |-> calls[c].listed,
                    locked |-> calls[c].locked, remaining |-> Remaining(calls[c].target)]
  <2>0. Remaining(calls[c].target) \subseteq Emails
    BY DEF Remaining, Admins
  <2>1. k \in Places
    BY <1>0, <1>5, <2>0 DEF Shaped, Locking, CheckDeletion, At, Places
  <2>2. calls' = [calls EXCEPT ![c] = k] \/ calls' = [calls EXCEPT ![c] = Done]
    BY <1>5 DEF CheckDeletion
  <2>. QED  BY <1>5, <2>1, <2>2, DoneIsPlace, MoveTypes DEF CheckDeletion, Others
<1>6. CASE Remove(c)
  <2>1. user' \in [Emails -> Accounts]
    BY <1>6, NobodyIs DEF TypeOK, Remove
  <2>2. request' \in [Emails -> [code: 0 .. issued, state: States]]
    <3>1. NoRequest \in [code: 0 .. issued, state: States]
      BY AccessAssumption DEF TypeOK, NoRequest, States
    <3>. QED  BY <1>6, <3>1 DEF TypeOK, Remove
  <2>. QED  BY <1>6, <2>1, <2>2, EndTypes DEF TypeOK, Remove
<1>7. CASE Abort(c)
  BY <1>7, DoneIsPlace, MoveTypes DEF Abort, End, Others
<1>. QED  BY <1>1, <1>2, <1>3, <1>4, <1>5, <1>6, <1>7

LEMMA PlacedTypes ==
    ASSUME TypeOK, NEW c \in Calls, NEW w \in Installing, calls[c].at \in Installing,
           calls' = [calls EXCEPT ![c].at = w]
    PROVE  calls' = [calls EXCEPT ![c] = [at |-> w]] /\ calls' \in [Calls -> Places]
<1>1. calls[c] = [at |-> calls[c].at]
  BY Shapes DEF Shaped
<1>2. [calls[c] EXCEPT !.at = w] = [at |-> w]
  BY <1>1
<1>3. [at |-> w] \in Places
  BY DEF Places, Installing
<1>. QED  BY <1>2, <1>3 DEF TypeOK

LEMMA InstallationTypes ==
    ASSUME TypeOK, NEW c \in Calls,
           \/ Prepare(c) \/ CloseInstallation(c) \/ Restore(c) \/ LeaveInDoubt(c)
           \/ RefuseArchive(c) \/ Discard(c)
    PROVE  TypeOK'
<1>1. CASE Prepare(c)
  <2>1. calls' \in [Calls -> Places]
    BY <1>1, PlacedTypes DEF Prepare, At, Installing
  <2>2. user' \in [Emails -> Accounts]
    BY <1>1, AccountIs, AccessAssumption DEF Prepare, TypeOK
  <2>3. companies' \subseteq Emails \union Archived
    BY <1>1 DEF Prepare, TypeOK, Archived
  <2>. QED  BY <1>1, <2>1, <2>2, <2>3 DEF TypeOK, Prepare
<1>2. CASE CloseInstallation(c)
  <2>1. calls' \in [Calls -> Places]
    BY <1>2, PlacedTypes DEF CloseInstallation, At, Installing
  <2>. QED  BY <1>2, <2>1 DEF TypeOK, CloseInstallation
<1>3. CASE Restore(c)
  BY <1>3, EndTypes DEF TypeOK, Restore, Archived
<1>4. CASE LeaveInDoubt(c)
  BY <1>4, EndTypes DEF TypeOK, LeaveInDoubt, Archived
<1>5. CASE RefuseArchive(c)
  <2>1. calls' \in [Calls -> Places]
    BY <1>5, PlacedTypes DEF RefuseArchive, At, Installing
  <2>. QED  BY <1>5, <2>1 DEF TypeOK, RefuseArchive
<1>6. CASE Discard(c)
  BY <1>6, EndTypes, NobodyIs DEF TypeOK, Discard
<1>. QED  BY <1>1, <1>2, <1>3, <1>4, <1>5, <1>6

LEMMA OtherTypes ==
    ASSUME TypeOK
    PROVE  /\ \A e \in Emails, role \in {"user", "super_admin"} : Invite(e, role) => TypeOK'
           /\ \A k \in companies : RemoveCompany(k) => TypeOK'
<1>1. ASSUME NEW e \in Emails, NEW role \in {"user", "super_admin"}, Invite(e, role)
      PROVE TypeOK'
  BY <1>1, AccountIs DEF TypeOK, Invite
<1>2. ASSUME NEW k \in companies, RemoveCompany(k) PROVE TypeOK'
  BY <1>2 DEF TypeOK, RemoveCompany
<1>. QED  BY <1>1, <1>2

\* Accounts, requests, grants, companies and calls keep their types: every step.
LEMMA AccessTypesStep == ASSUME TypeOK, [Next]_vars PROVE TypeOK'
<1>1. CASE UNCHANGED vars
  BY <1>1 DEF TypeOK, vars
<1>. QED
  BY <1>1, RequestTypes, EnterTypes, RegistrationTypes, AdministrationTypes, InstallationTypes,
     OtherTypes DEF Next, Step

LEMMA AccessTypesInit == ASSUME Init PROVE TypeOK
  BY AccessAssumption DEF Init, TypeOK, NoRequest, Idle, Places, States, Archived

\* Every variable of the installation keeps its type.
THEOREM AccessTypes == Spec => []TypeOK
  BY AccessTypesInit, AccessTypesStep, PTL DEF Spec

-----------------------------------------------------------------------------
(* Locks. *)

\* One call at a time has the lock of an address.
IdentityAlone ==
    \A c, d \in Calls : \A e \in Emails :
        HoldsIdentity(c, e) /\ HoldsIdentity(d, e) => c = d

ConfirmsAlone ==
    \A c, d \in Calls : calls[c].at = "confirming" /\ calls[d].at = "confirming" => c = d

\* An account is locked by one deletion, which has locked its target.
RowsAlone ==
    /\ \A c, d \in Calls :
        calls[c].at \in Locking /\ calls[d].at \in Locking /\ c # d
            => calls[c].locked \intersect calls[d].locked = {}
    /\ \A c \in Calls : calls[c].at \in Locking => calls[c].target \in calls[c].locked

\* Nobody installs a second archive over a restored one.
Undisturbed ==
    "restored" \in companies => \A c \in Calls : calls[c].at \notin Installing

LockInv == IdentityAlone /\ ConfirmsAlone /\ RowsAlone /\ Undisturbed

\* What the locks are about: where a call stands, and what it keeps.
LEMMA CallFacts == ASSUME TypeOK PROVE calls \in [Calls -> Places] /\ \A c \in Calls : Shaped(c)
  BY Shapes DEF TypeOK

\* A call that ends gives its locks back.
LEMMA EndLocks ==
    ASSUME TypeOK, LockInv, NEW c \in Calls, End(c),
           "restored" \in companies' =>
              "restored" \in companies \/ \A d \in Calls \ {c} : ~ Live(d)
    PROVE  LockInv'
  BY CallFacts DEF LockInv, IdentityAlone, ConfirmsAlone, RowsAlone, Undisturbed, HoldsIdentity,
     Locking, Installing, End, Done, Idle, Live

LEMMA StillLocks == ASSUME LockInv, UNCHANGED <<calls, companies>> PROVE LockInv'
  BY DEF LockInv, IdentityAlone, ConfirmsAlone, RowsAlone, Undisturbed, HoldsIdentity

LEMMA EndingLocks ==
    ASSUME TypeOK, LockInv, NEW c \in Calls,
           \/ Confirm(c) \/ Change(c) \/ Remove(c) \/ Restore(c) \/ LeaveInDoubt(c)
           \/ Discard(c) \/ Abort(c)
    PROVE  LockInv'
<1>1. CASE Confirm(c)
  <2>1. calls[c].email # "restored"
    BY <1>1, Shapes, AccessAssumption DEF Shaped, Confirm, At, Archived
  <2>. QED  BY <1>1, <2>1, EndLocks DEF Confirm
<1>2. CASE Restore(c)
  BY <1>2, EndLocks DEF Restore, Drained
<1>3. CASE LeaveInDoubt(c)
  BY <1>3, EndLocks DEF LeaveInDoubt, Drained
<1>4. CASE Discard(c)
  BY <1>4, EndLocks DEF Discard
<1>5. CASE Change(c) \/ Remove(c) \/ Abort(c)
  BY <1>5, EndLocks DEF Change, Remove, Abort
<1>. QED  BY <1>1, <1>2, <1>3, <1>4, <1>5

LEMMA EnterLocks == ASSUME TypeOK, LockInv, NEW c \in Calls, Enter(c) PROVE LockInv'
<1>1. PICK k : /\ calls' = [calls EXCEPT ![c] = k]
               /\ k.at \in {"proving", "changing", "naming", "preparing"}
               /\ k.at = "preparing" => companies = {}
               /\ companies' = companies
  BY DEF Enter, BeginConfirmation, BeginChange, BeginDeletion, BeginFirstInstall, Begin
<1>. QED
  BY <1>1, CallFacts DEF LockInv, IdentityAlone, ConfirmsAlone, RowsAlone, Undisturbed,
     HoldsIdentity, Locking, Installing

LEMMA TakingLocks ==
    ASSUME TypeOK, LockInv, NEW c \in Calls,
           \/ ProveCode(c) \/ CountAccounts(c) \/ NameIdentity(c) \/ ListAdmins(c)
           \/ LockRows(c) \/ CheckDeletion(c)
    PROVE  LockInv'
<1>. USE CallFacts DEF LockInv, IdentityAlone, ConfirmsAlone, RowsAlone, Undisturbed,
         HoldsIdentity, Locking, Installing, At, Done, Shaped, Proving, Naming
<1>1. CASE ProveCode(c)
  BY <1>1 DEF ProveCode, IdentityFree
<1>2. CASE CountAccounts(c)
  BY <1>2 DEF CountAccounts, FirstFree
<1>3. CASE NameIdentity(c)
  BY <1>3 DEF NameIdentity, IdentityFree
<1>4. CASE ListAdmins(c)
  BY <1>4 DEF ListAdmins
<1>5. CASE LockRows(c)
  BY <1>5 DEF LockRows, Locked, RowFree
<1>6. CASE CheckDeletion(c)
  BY <1>6 DEF CheckDeletion
<1>. QED  BY <1>1, <1>2, <1>3, <1>4, <1>5, <1>6

LEMMA InstallingLocks ==
    ASSUME TypeOK, LockInv, NEW c \in Calls, Prepare(c) \/ CloseInstallation(c) \/ RefuseArchive(c)
    PROVE  LockInv'
<1>1. PICK w \in Installing : calls' = [calls EXCEPT ![c] = [at |-> w]]
  BY PlacedTypes DEF Prepare, CloseInstallation, RefuseArchive, At, Installing
<1>2. calls[c].at \in Installing
  BY DEF Prepare, CloseInstallation, RefuseArchive, At, Installing
<1>3. "restored" \in companies' => "restored" \in companies
  <2>1. companies' = companies \/ companies' = companies \union {"archive"}
    BY DEF Prepare, CloseInstallation, RefuseArchive
  <2>. QED  BY <2>1
<1>. QED
  BY <1>1, <1>2, <1>3, CallFacts DEF LockInv, IdentityAlone, ConfirmsAlone, RowsAlone,
     Undisturbed, HoldsIdentity, Locking, Installing

LEMMA OtherLocks ==
    ASSUME TypeOK, LockInv
    PROVE  /\ \A e \in Emails, resend \in BOOLEAN : RequestCode(e, resend) => LockInv'
           /\ \A e \in Emails : GrantToken(e) \/ Lapse(e) => LockInv'
           /\ \A e \in Emails, role \in {"user", "super_admin"} : Invite(e, role) => LockInv'
           /\ \A k \in companies : RemoveCompany(k) => LockInv'
<1>1. ASSUME NEW k \in companies, RemoveCompany(k) PROVE LockInv'
  BY <1>1 DEF RemoveCompany, LockInv, IdentityAlone, ConfirmsAlone, RowsAlone, Undisturbed,
     HoldsIdentity
<1>. QED  BY <1>1, StillLocks DEF RequestCode, GrantToken, Lapse, Invite

LEMMA LockStep == ASSUME TypeOK, LockInv, [Next]_vars PROVE LockInv'
<1>1. CASE UNCHANGED vars
  BY <1>1, StillLocks DEF vars
<1>. QED
  BY <1>1, EndingLocks, EnterLocks, TakingLocks, InstallingLocks, OtherLocks DEF Next, Step

LEMMA LockInit == ASSUME Init PROVE LockInv
  BY AccessAssumption DEF Init, LockInv, IdentityAlone, ConfirmsAlone, RowsAlone, Undisturbed,
     HoldsIdentity, Locking, Installing, Idle, Archived

LEMMA LocksHold == Spec => [](TypeOK /\ LockInv)
<1>1. Init => TypeOK /\ LockInv
  BY AccessTypesInit, LockInit
<1>2. TypeOK /\ LockInv /\ [Next]_vars => (TypeOK /\ LockInv)'
  BY AccessTypesStep, LockStep
<1>. QED  BY <1>1, <1>2, PTL DEF Spec

\* A restored archive is not discarded: nobody who may discard runs beside it.
THEOREM RestoredStays == Spec => RestoredIsNotDiscarded
<1>. DEFINE Stays == \A c \in Calls :
              At(c, "discarding") /\ calls'[c] = Done /\ "restored" \in companies
                 => "restored" \in companies'
<1>1. LockInv => Stays
  BY DEF LockInv, Undisturbed, At, Installing
<1>. QED  BY <1>1, LocksHold, PTL DEF RestoredIsNotDiscarded

-----------------------------------------------------------------------------
(* Codes. *)

\* The code a confirmation has proved is the one that stands.
CodeStands ==
    \A c \in Calls : calls[c].at \in Proved =>
        /\ request[calls[c].email].code = calls[c].code
        /\ request[calls[c].email].state # "spent"

LEMMA CodesOfRequests ==
    ASSUME TypeOK, LockInv, CodeStands, NEW e \in Emails, NEW resend \in BOOLEAN,
           RequestCode(e, resend) \/ GrantToken(e) \/ Lapse(e)
    PROVE  CodeStands'
<1>. USE CallFacts DEF CodeStands, Shaped, Proved, Proving, TypeOK
<1>1. CASE RequestCode(e, resend)
  BY <1>1 DEF RequestCode, IdentityFree, HoldsIdentity
<1>2. CASE GrantToken(e)
  BY <1>2 DEF GrantToken
<1>3. CASE Lapse(e)
  <2>1. \A x \in Emails : /\ request'[x].code = request[x].code
                         /\ request'[x].state \in {request[x].state, "dead"}
    BY <1>3 DEF Lapse
  <2>. QED  BY <1>3, <2>1 DEF Lapse
<1>. QED  BY <1>1, <1>2, <1>3

\* A call that spends a request, or takes it away, holds the lock of its address.
LEMMA CodesOfHolders ==
    ASSUME TypeOK, LockInv, CodeStands, NEW c \in Calls, Confirm(c) \/ Remove(c)
    PROVE  CodeStands'
<1>1. PICK e \in Emails : /\ HoldsIdentity(c, e)
                         /\ \A x \in Emails \ {e} : request'[x] = request[x]
  <2>1. CASE Confirm(c)
    <3>1. calls[c].email \in Emails /\ HoldsIdentity(c, calls[c].email)
      BY <2>1, CallFacts DEF Confirm, At, HoldsIdentity, Shaped
    <3>2. request' = [request EXCEPT ![calls[c].email].state = "spent"]
      BY <2>1 DEF Confirm
    <3>. QED  BY <3>1, <3>2 DEF TypeOK
  <2>2. CASE Remove(c)
    <3>1. calls[c].target \in Emails /\ HoldsIdentity(c, calls[c].target)
      BY <2>2, CallFacts DEF Remove, At, HoldsIdentity, Shaped, Locking
    <3>2. request' = [request EXCEPT ![calls[c].target] = NoRequest]
      BY <2>2 DEF Remove
    <3>. QED  BY <3>1, <3>2 DEF TypeOK
  <2>. QED  BY <2>1, <2>2
<1>0. End(c)
  BY DEF Confirm, Remove
<1>2. \A d \in Calls \ {c} : calls'[d] = calls[d] /\ ~ HoldsIdentity(d, e)
  BY <1>0, <1>1, CallFacts DEF LockInv, IdentityAlone, End
<1>3. calls'[c].at = "done"
  BY <1>0, CallFacts DEF End, Done
<1>. QED
  BY <1>1, <1>2, <1>3, CallFacts DEF CodeStands, HoldsIdentity, Shaped, Proved, Proving

\* Every other step of a call leaves the requests alone.
LEMMA CodesOfCalls ==
    ASSUME TypeOK, CodeStands, NEW c \in Calls, request' = request, DOMAIN calls' = Calls,
           \A d \in Calls \ {c} : calls'[d] = calls[d],
           calls'[c].at \in Proved =>
              /\ request[calls'[c].email].code = calls'[c].code
              /\ request[calls'[c].email].state # "spent"
    PROVE  CodeStands'
  BY DEF CodeStands

LEMMA CodesOfProof == ASSUME TypeOK, CodeStands, NEW c \in Calls, ProveCode(c) PROVE CodeStands'
<1>1. Shaped(c)
  BY CallFacts
<1>2. CASE calls' = [calls EXCEPT ![c] = Done]
  BY <1>2, CallFacts, CodesOfCalls DEF ProveCode, Done, Proved
<1>3. CASE /\ request[calls[c].email] = [code |-> calls[c].code, state |-> "live"]
           /\ calls' = [calls EXCEPT ![c] = [calls[c] EXCEPT !.at = "serialising"]]
  <2>1. [calls[c] EXCEPT !.at = "serialising"] =
           [at |-> "serialising", email |-> calls[c].email, code |-> calls[c].code]
    BY <1>1 DEF Shaped, Proving, ProveCode, At
  <2>. QED  BY <1>3, <2>1, CallFacts, CodesOfCalls DEF ProveCode
<1>. QED  BY <1>2, <1>3 DEF ProveCode

LEMMA CodesOfCount ==
    ASSUME TypeOK, CodeStands, NEW c \in Calls, CountAccounts(c) PROVE CodeStands'
<1>1. \/ calls' = [calls EXCEPT ![c] = Done]
      \/ calls' = [calls EXCEPT ![c] =
            [at |-> "confirming", email |-> calls[c].email, code |-> calls[c].code,
             found |-> user[calls[c].email], first |-> IsFirst(calls[c].email)]]
  BY DEF CountAccounts
<1>2. calls[c].at \in Proved
  BY DEF CountAccounts, At, Proved
<1>. QED
  BY <1>1, <1>2, CallFacts, CodesOfCalls DEF CountAccounts, CodeStands, Done, Proved

\* Where the next two steps of a confirmation and the last of a deletion stand.
Gone == {"serialising", "confirming", "removing"}

\* Most steps bring their call to none of them.
LEMMA MovesOut ==
    ASSUME TypeOK, NEW c \in Calls,
           \/ Enter(c) \/ Abort(c) \/ Change(c) \/ NameIdentity(c) \/ ListAdmins(c) \/ LockRows(c)
           \/ Prepare(c) \/ CloseInstallation(c) \/ Restore(c) \/ LeaveInDoubt(c)
           \/ RefuseArchive(c) \/ Discard(c) \/ Confirm(c) \/ Remove(c)
    PROVE  /\ DOMAIN calls' = Calls /\ \A d \in Calls \ {c} : calls'[d] = calls[d]
           /\ calls'[c].at \notin Gone
<1>1. CASE Enter(c)
  BY <1>1, CallFacts DEF Enter, BeginConfirmation, BeginChange, BeginDeletion,
     BeginFirstInstall, Begin, Gone
<1>2. CASE \/ Abort(c) \/ Change(c) \/ Restore(c) \/ LeaveInDoubt(c) \/ Discard(c)
           \/ Confirm(c) \/ Remove(c)
  <2>1. End(c)
    BY <1>2 DEF Abort, Change, Restore, LeaveInDoubt, Discard, Confirm, Remove
  <2>. QED  BY <2>1, CallFacts DEF End, Done, Gone
<1>3. CASE NameIdentity(c)
  <2>1. [calls[c] EXCEPT !.at = "listing"] =
           [at |-> "listing", actor |-> calls[c].actor, target |-> calls[c].target]
    BY <1>3, CallFacts DEF Shaped, Naming, NameIdentity, At
  <2>2. calls' = [calls EXCEPT ![c] = [calls[c] EXCEPT !.at = "listing"]]
        \/ calls' = [calls EXCEPT ![c] = Done]
    BY <1>3, CallFacts DEF NameIdentity
  <2>. QED  BY <2>1, <2>2, CallFacts DEF Done, Gone
<1>4. CASE ListAdmins(c) \/ LockRows(c)
  BY <1>4, CallFacts DEF ListAdmins, LockRows, Done, Gone
<1>5. CASE Prepare(c) \/ CloseInstallation(c) \/ RefuseArchive(c)
  <2>1. PICK w \in Installing : calls' = [calls EXCEPT ![c] = [at |-> w]]
    BY <1>5, PlacedTypes DEF Prepare, CloseInstallation, RefuseArchive, At, Installing
  <2>. QED  BY <2>1, CallFacts DEF Installing, Gone
<1>. QED  BY <1>1, <1>2, <1>3, <1>4, <1>5

LEMMA CodesOfOthers ==
    ASSUME TypeOK, CodeStands, NEW c \in Calls,
           \/ Enter(c) \/ Abort(c) \/ Change(c) \/ NameIdentity(c) \/ ListAdmins(c) \/ LockRows(c)
           \/ CheckDeletion(c) \/ Prepare(c) \/ CloseInstallation(c) \/ Restore(c)
           \/ LeaveInDoubt(c) \/ RefuseArchive(c) \/ Discard(c)
    PROVE  CodeStands'
<1>1. request' = request
  BY DEF Enter, BeginConfirmation, BeginChange, BeginDeletion, BeginFirstInstall, Abort, Change,
     NameIdentity, ListAdmins, LockRows, CheckDeletion, Prepare, CloseInstallation, Restore,
     LeaveInDoubt, RefuseArchive, Discard
<1>2. CASE CheckDeletion(c)
  BY <1>1, <1>2, CallFacts, CodesOfCalls DEF CheckDeletion, Done, Proved
<1>. QED  BY <1>1, <1>2, MovesOut, CodesOfCalls DEF Gone, Proved

LEMMA CodeStep == ASSUME TypeOK, LockInv, CodeStands, [Next]_vars PROVE CodeStands'
<1>1. CASE UNCHANGED vars
  BY <1>1 DEF CodeStands, vars
<1>2. CASE \/ \E e \in Emails, role \in {"user", "super_admin"} : Invite(e, role)
           \/ \E k \in companies : RemoveCompany(k)
  BY <1>2 DEF CodeStands, Invite, RemoveCompany
<1>. QED
  BY <1>1, <1>2, CodesOfRequests, CodesOfHolders, CodesOfProof, CodesOfCount, CodesOfOthers
  DEF Next, Step

LEMMA CodeInit == ASSUME Init PROVE CodeStands
  BY DEF Init, CodeStands, Idle, Proved

\* No code that was replaced, or mailed before its account was deleted, makes an
\* account, for any number of confirmations, deletions and codes.
THEOREM OnlyStandingRequests == Spec => AccountsComeFromStandingRequests
<1>. DEFINE Stands == \A c \in Calls :
              At(c, "confirming") /\ calls'[c] = Done /\ user' # user
                 => /\ request[calls[c].email].code = calls[c].code
                    /\ request[calls[c].email].state # "spent"
<1>1. Init => CodeStands
  BY CodeInit
<1>2. TypeOK /\ LockInv /\ CodeStands /\ [Next]_vars => CodeStands'
  BY CodeStep
<1>3. CodeStands => Stands
  BY DEF CodeStands, At, Proved
<1>. QED  BY <1>1, <1>2, <1>3, LocksHold, PTL DEF Spec, AccountsComeFromStandingRequests

-----------------------------------------------------------------------------
(* The first administrator. *)

\* A call confirms or removes because it did before, or comes from its check.
LEMMA MovedCalls ==
    ASSUME TypeOK, [Next]_vars, NEW d \in Calls, calls'[d].at \in {"confirming", "removing"}
    PROVE  \/ calls'[d] = calls[d]
           \/ CountAccounts(d) \/ CheckDeletion(d)
<1>1. ASSUME NEW c \in Calls, ProveCode(c) PROVE calls'[d] = calls[d]
  <2>1. calls' = [calls EXCEPT ![c] = Done]
        \/ calls' = [calls EXCEPT ![c] = [calls[c] EXCEPT !.at = "serialising"]]
    BY <1>1 DEF ProveCode
  <2>2. [calls[c] EXCEPT !.at = "serialising"] =
           [at |-> "serialising", email |-> calls[c].email, code |-> calls[c].code]
    BY <1>1, CallFacts DEF Shaped, Proving, ProveCode, At
  <2>. QED  BY <2>1, <2>2, CallFacts DEF Done
<1>2. ASSUME NEW c \in Calls, CountAccounts(c) \/ CheckDeletion(c)
      PROVE  calls'[d] = calls[d] \/ CountAccounts(d) \/ CheckDeletion(d)
  <2>1. CASE c = d
    BY <1>2, <2>1
  <2>2. CASE c # d
    BY <1>2, <2>2, CallFacts DEF CountAccounts, CheckDeletion
  <2>. QED  BY <2>1, <2>2
<1>3. ASSUME NEW c \in Calls, Enter(c) \/ Step(c) \/ Abort(c)
      PROVE  calls'[d] = calls[d] \/ CountAccounts(d) \/ CheckDeletion(d)
  BY <1>1, <1>2, <1>3, MovesOut DEF Step, Gone
<1>4. CASE UNCHANGED vars
  BY <1>4 DEF vars
<1>. QED
  BY <1>3, <1>4 DEF Next, RequestCode, GrantToken, Lapse, Invite, RemoveCompany

\* Who registered is confirmed.
Rooted ==
    \A e \in Emails :
        /\ user[e].from = "none" => user[e] = NoOne
        /\ user[e].from \in {"start", "code"} => user[e].verified

\* While the first registration is confirmed nobody else has registered.
NobodyElse ==
    \A c \in Calls : calls[c].at = "confirming" /\ calls[c].first =>
        \A e \in Emails : user[e].from \notin {"start", "code"}

FirstInv == Rooted /\ NobodyElse

\* How a step may change the accounts: one of them, which is removed, keeps its
\* origin, or comes from an invitation or an archive.
Replaces(e, u) ==
    /\ user' = [user EXCEPT ![e] = u]
    /\ \/ u = NoOne
       \/ u.from \in {"invite", "archive"}
       \/ user[e] # NoOne /\ u.from = user[e].from /\ (user[e].verified => u.verified)

LEMMA ReplacedKeepsFirst ==
    ASSUME TypeOK, FirstInv, [Next]_vars, NEW e \in Emails, NEW u \in Accounts, Replaces(e, u),
           \A c \in Calls : ~ CountAccounts(c)
    PROVE  FirstInv'
<1>1. Rooted'
  BY NobodyIs DEF FirstInv, Rooted, Replaces, TypeOK
<1>2. \A x \in Emails : user'[x].from \in {"start", "code"} => user[x].from = user'[x].from
  BY NobodyIs DEF Replaces, TypeOK
<1>3. \A d \in Calls : calls'[d].at = "confirming" => calls'[d] = calls[d]
  <2>1. ASSUME NEW d \in Calls, CheckDeletion(d) PROVE calls'[d].at # "confirming"
    BY <2>1, CallFacts DEF CheckDeletion, Done
  <2>. QED  BY <2>1, MovedCalls
<1>. QED  BY <1>1, <1>2, <1>3 DEF FirstInv, NobodyElse

LEMMA FirstOfConfirm ==
    ASSUME TypeOK, LockInv, FirstInv, [Next]_vars, NEW c \in Calls, Confirm(c) PROVE FirstInv'
<1>1. PICK u \in Accounts :
        /\ user' = [user EXCEPT ![calls[c].email] = u]
        /\ u.verified
        /\ u.from = IF Present(calls[c].email) THEN user[calls[c].email].from ELSE "code"
  BY ConfirmedUser
<1>2. calls[c].email \in Emails
  BY CallFacts DEF Shaped, Confirm, At
<1>3. Rooted'
  BY <1>1, <1>2 DEF FirstInv, Rooted, Present, TypeOK
<1>4. \A d \in Calls : calls'[d].at # "confirming"
  <2>1. End(c) /\ calls[c].at = "confirming"
    BY DEF Confirm, At
  <2>. QED  BY <2>1, CallFacts DEF End, Done, LockInv, ConfirmsAlone
<1>. QED  BY <1>3, <1>4 DEF FirstInv, NobodyElse

LEMMA FirstOfCount ==
    ASSUME TypeOK, FirstInv, NEW c \in Calls, CountAccounts(c) PROVE FirstInv'
<1>1. Rooted'
  BY DEF CountAccounts, FirstInv, Rooted
<1>2. \A d \in Calls \ {c} : calls'[d] = calls[d]
  BY CallFacts DEF CountAccounts
<1>3. calls'[c].at = "confirming" /\ calls'[c].first => Established = {}
  BY CallFacts DEF CountAccounts, Done, IsFirst
<1>4. Established = {} => \A e \in Emails : user[e].from \notin {"start", "code"}
  BY DEF Established, FirstInv, Rooted
<1>5. user' = user
  BY DEF CountAccounts
<1>. QED  BY <1>1, <1>2, <1>3, <1>4, <1>5 DEF FirstInv, NobodyElse

\* These steps leave the accounts alone.
LEMMA StillUsers ==
    ASSUME NEW c \in Calls,
           \/ Enter(c) \/ Abort(c) \/ ProveCode(c) \/ CountAccounts(c) \/ NameIdentity(c)
           \/ ListAdmins(c) \/ LockRows(c) \/ CheckDeletion(c) \/ CloseInstallation(c)
           \/ Restore(c) \/ LeaveInDoubt(c) \/ RefuseArchive(c)
    PROVE  user' = user
  BY DEF Enter, BeginConfirmation, BeginChange, BeginDeletion, BeginFirstInstall, Abort,
     ProveCode, CountAccounts, NameIdentity, ListAdmins, LockRows, CheckDeletion,
     CloseInstallation, Restore, LeaveInDoubt, RefuseArchive

\* Every other step replaces an account at most.
LEMMA OthersReplace ==
    ASSUME TypeOK, [Next]_vars, \A c \in Calls : ~ Confirm(c)
    PROVE  user' = user \/ \E e \in Emails, u \in Accounts : Replaces(e, u)
<1>1. ASSUME NEW c \in Calls, Change(c)
      PROVE  \E e \in Emails, u \in Accounts : Replaces(e, u)
  <2>1. PICK u \in Accounts :
          /\ user' = [user EXCEPT ![calls[c].target] = u]
          /\ u.verified = user[calls[c].target].verified
          /\ u.from = user[calls[c].target].from
          /\ ~ Present(calls[c].target) => u = NoOne
    BY <1>1, ChangedUser
  <2>2. calls[c].target \in Emails
    BY <1>1, CallFacts DEF Shaped, Change, At
  <2>3. Replaces(calls[c].target, u)
    BY <2>1 DEF Replaces, Present
  <2>. QED  BY <2>2, <2>3
<1>2. ASSUME NEW c \in Calls, Remove(c)
      PROVE  \E e \in Emails, u \in Accounts : Replaces(e, u)
  BY <1>2, NobodyIs, CallFacts DEF Shaped, Locking, Remove, At, Replaces
<1>3. ASSUME NEW c \in Calls, Prepare(c)
      PROVE  user' = user \/ \E e \in Emails, u \in Accounts : Replaces(e, u)
  BY <1>3, AccountIs, AccessAssumption DEF Prepare, Replaces
<1>4. ASSUME NEW c \in Calls, Discard(c)
      PROVE  user' = user \/ \E e \in Emails, u \in Accounts : Replaces(e, u)
  BY <1>4, NobodyIs, AccessAssumption DEF Discard, Replaces
<1>5. ASSUME NEW e \in Emails, NEW role \in {"user", "super_admin"}, Invite(e, role)
      PROVE  \E x \in Emails, u \in Accounts : Replaces(x, u)
  BY <1>5, AccountIs DEF Invite, Replaces
<1>6. ASSUME NEW c \in Calls,
             \/ Enter(c) \/ Abort(c) \/ ProveCode(c) \/ CountAccounts(c) \/ NameIdentity(c)
             \/ ListAdmins(c) \/ LockRows(c) \/ CheckDeletion(c) \/ CloseInstallation(c)
             \/ Restore(c) \/ LeaveInDoubt(c) \/ RefuseArchive(c)
      PROVE  user' = user
  BY <1>6, StillUsers
<1>7. CASE UNCHANGED vars
  BY <1>7 DEF vars
<1>8. CASE \/ \E e \in Emails, resend \in BOOLEAN : RequestCode(e, resend)
           \/ \E e \in Emails : GrantToken(e) \/ Lapse(e)
           \/ \E k \in companies : RemoveCompany(k)
  BY <1>8 DEF RequestCode, GrantToken, Lapse, RemoveCompany
<1>. QED  BY <1>1, <1>2, <1>3, <1>4, <1>5, <1>6, <1>7, <1>8 DEF Next, Step

LEMMA FirstStep == ASSUME TypeOK, LockInv, FirstInv, [Next]_vars PROVE FirstInv'
<1>1. CASE \E c \in Calls : CountAccounts(c)
  BY <1>1, FirstOfCount
<1>2. CASE \E c \in Calls : Confirm(c)
  BY <1>2, FirstOfConfirm
<1>3. CASE \A c \in Calls : ~ CountAccounts(c) /\ ~ Confirm(c)
  <2>1. CASE \E e \in Emails, u \in Accounts : Replaces(e, u)
    BY <1>3, <2>1, ReplacedKeepsFirst
  <2>2. CASE user' = user
    <3>1. \A d \in Calls : calls'[d].at = "confirming" => calls'[d] = calls[d]
      <4>1. ASSUME NEW d \in Calls, CheckDeletion(d) PROVE calls'[d].at # "confirming"
        BY <4>1, CallFacts DEF CheckDeletion, Done
      <4>. QED  BY <1>3, <4>1, MovedCalls
    <3>. QED  BY <2>2, <3>1 DEF FirstInv, Rooted, NobodyElse
  <2>. QED  BY <1>3, <2>1, <2>2, OthersReplace
<1>. QED  BY <1>1, <1>2, <1>3

LEMMA FirstInit == ASSUME Init PROVE FirstInv
  BY AccessAssumption DEF Init, FirstInv, Rooted, NobodyElse, Idle

\* One registration at most becomes the first administrator, for any number that
\* are confirmed at the same time.
THEOREM OneFirstAdmin == Spec => FirstAdminIsAlone
<1>. DEFINE Alone == \A c \in Calls :
              At(c, "confirming") /\ calls'[c] = Done /\ calls[c].first /\ user' # user
                 => \A e \in Established : OfRestore(e)
<1>1. Init => FirstInv
  BY FirstInit
<1>2. TypeOK /\ LockInv /\ FirstInv /\ [Next]_vars => FirstInv'
  BY FirstStep
<1>3. TypeOK /\ FirstInv => Alone
  <2>1. ASSUME TypeOK, FirstInv, NEW e \in Established, user[e].from \notin {"start", "code"}
        PROVE  OfRestore(e)
    BY <2>1, NobodyIs DEF TypeOK, Accounts, FirstInv, Rooted, Established, OfRestore
  <2>. QED  BY <2>1 DEF FirstInv, NobodyElse, At, Established
<1>. QED  BY <1>1, <1>2, <1>3, LocksHold, PTL DEF Spec, FirstAdminIsAlone

-----------------------------------------------------------------------------
(* The last administrator. *)

\* The administrators a deletion has locked and counted remain.
Guarded ==
    \A c \in Calls : calls[c].at = "removing" =>
        \A e \in calls[c].remaining \intersect calls[c].locked :
            e \in Admins /\ e # calls[c].target

\* No step changes their accounts, the deletion itself included.
LEMMA GuardedRows ==
    ASSUME TypeOK, LockInv, Guarded, [Next]_vars, NEW c \in Calls, calls[c].at = "removing",
           NEW e \in calls[c].remaining \intersect calls[c].locked
    PROVE  user'[e] = user[e]
<1>1. e \in Admins /\ e # calls[c].target /\ e \in Emails /\ Present(e)
  BY NobodyIs DEF Guarded, Admins, Present
<1>2. \A x : RowFree(x) => x # e
  BY DEF RowFree
<1>3. ASSUME NEW b \in Calls, Confirm(b) PROVE user'[e] = user[e]
  <2>1. RowFree(calls[b].email)
    BY <1>3 DEF Confirm
  <2>. QED  BY <1>1, <1>2, <1>3, <2>1, ConfirmedUser DEF TypeOK
<1>4. ASSUME NEW b \in Calls, Change(b) PROVE user'[e] = user[e]
  <2>1. RowFree(calls[b].target)
    BY <1>4 DEF Change
  <2>. QED  BY <1>1, <1>2, <1>4, <2>1, ChangedUser DEF TypeOK
<1>5. ASSUME NEW b \in Calls, Discard(b) PROVE user'[e] = user[e]
  BY <1>1, <1>2, <1>5 DEF Discard, TypeOK
<1>6. ASSUME NEW b \in Calls, Remove(b) PROVE user'[e] = user[e]
  <2>1. e # calls[b].target
    BY <1>1, <1>6 DEF LockInv, RowsAlone, Remove, At, Locking
  <2>. QED  BY <1>1, <1>6, <2>1 DEF Remove, TypeOK
<1>7. ASSUME NEW b \in Calls, Prepare(b) PROVE user'[e] = user[e]
  <2>1. user' = user \/ (e # ArchiveOwner /\ \E u : user' = [user EXCEPT ![ArchiveOwner] = u])
    BY <1>1, <1>7 DEF Prepare, Prepared
  <2>. QED  BY <1>1, <2>1 DEF TypeOK
<1>8. ASSUME NEW x \in Emails, NEW role \in {"user", "super_admin"}, Invite(x, role)
      PROVE  user'[e] = user[e]
  BY <1>1, <1>8 DEF Invite, TypeOK
<1>9. CASE user' = user
  BY <1>9
<1>10. \/ user' = user
       \/ \E b \in Calls : \/ Confirm(b) \/ Change(b) \/ Discard(b) \/ Remove(b) \/ Prepare(b)
       \/ \E x \in Emails, role \in {"user", "super_admin"} : Invite(x, role)
  <2>1. ASSUME NEW b \in Calls,
               \/ Enter(b) \/ Abort(b) \/ ProveCode(b) \/ CountAccounts(b) \/ NameIdentity(b)
               \/ ListAdmins(b) \/ LockRows(b) \/ CheckDeletion(b) \/ CloseInstallation(b)
               \/ Restore(b) \/ LeaveInDoubt(b) \/ RefuseArchive(b)
        PROVE  user' = user
    BY <2>1, StillUsers
  <2>2. CASE \/ \E x \in Emails, resend \in BOOLEAN : RequestCode(x, resend)
             \/ \E x \in Emails : GrantToken(x) \/ Lapse(x)
             \/ \E k \in companies : RemoveCompany(k)
             \/ UNCHANGED vars
    BY <2>2 DEF RequestCode, GrantToken, Lapse, RemoveCompany, vars
  <2>. QED  BY <2>1, <2>2 DEF Next, Step
<1>. QED  BY <1>3, <1>4, <1>5, <1>6, <1>7, <1>8, <1>9, <1>10

LEMMA GuardStep == ASSUME TypeOK, LockInv, Guarded, [Next]_vars PROVE Guarded'
<1>1. ASSUME NEW c \in Calls, calls'[c].at = "removing", calls'[c] = calls[c],
             NEW e \in calls'[c].remaining \intersect calls'[c].locked
      PROVE  e \in Admins' /\ e # calls'[c].target
  <2>1. user'[e] = user[e] /\ e \in Admins /\ e # calls[c].target
    BY <1>1, GuardedRows DEF Guarded
  <2>. QED  BY <1>1, <2>1 DEF Admins, Enters
<1>2. ASSUME NEW c \in Calls, calls'[c].at = "removing", CheckDeletion(c),
             NEW e \in calls'[c].remaining \intersect calls'[c].locked
      PROVE  e \in Admins' /\ e # calls'[c].target
  <2>1. calls'[c].remaining = Admins \ {calls[c].target} /\ calls'[c].target = calls[c].target
    BY <1>2, CallFacts DEF CheckDeletion, Done, Remaining
  <2>2. user' = user
    BY <1>2 DEF CheckDeletion
  <2>. QED  BY <1>2, <2>1, <2>2 DEF Admins, Enters
<1>3. ASSUME NEW c \in Calls, CountAccounts(c) PROVE calls'[c].at # "removing"
  BY <1>3, CallFacts DEF CountAccounts, Done
<1>. QED  BY <1>1, <1>2, <1>3, MovedCalls DEF Guarded

LEMMA GuardInit == ASSUME Init PROVE Guarded
  BY DEF Init, Guarded, Idle

\* A deletion leaves one of the administrators it has locked and counted, for any
\* number of deletions and changes at the same time.
THEOREM LastAdminStays == Spec => LastAdminKept
<1>. DEFINE Kept == \A c \in Calls :
              (/\ At(c, "removing") /\ calls'[c] = Done /\ user' # user /\ companies # {}
               /\ user[calls[c].target].role = "super_admin"
               /\ calls[c].remaining \intersect calls[c].locked # {})
                 => Admins' # {}
<1>1. Init => Guarded
  BY GuardInit
<1>2. TypeOK /\ LockInv /\ Guarded /\ [Next]_vars => Guarded'
  BY GuardStep
<1>3. TypeOK /\ LockInv /\ Guarded /\ [Next]_vars => Kept
  <2>1. ASSUME TypeOK, LockInv, Guarded, [Next]_vars, NEW c \in Calls, calls[c].at = "removing",
               NEW e \in calls[c].remaining \intersect calls[c].locked
        PROVE  e \in Admins'
    <3>1. user'[e] = user[e] /\ e \in Admins
      BY <2>1, GuardedRows DEF Guarded
    <3>. QED  BY <3>1 DEF Admins, Enters
  <2>. QED  BY <2>1 DEF At
<1>. QED  BY <1>1, <1>2, <1>3, LocksHold, PTL DEF Spec, LastAdminKept
================================================================================
