----------------------------- MODULE AccountAccess -----------------------------
(***************************************************************************)
(* Who may enter the installation: registrations confirmed by a mailed     *)
(* code, the first of which becomes the platform administrator; accounts   *)
(* created, changed and deleted by administrators; and the restore of an   *)
(* archive into an installation that has no company yet.                   *)
(*                                                                         *)
(* A call runs in steps.  What an open transaction has read is in its      *)
(* call; its locks follow from where it stands, and the guards of the      *)
(* others wait for them.  Passwords and sessions are left out, as are the  *)
(* budgets that limit how often codes are sent and tried: a code lapses.   *)
(***************************************************************************)
EXTENDS Naturals, FiniteSets

CONSTANTS
    Calls,         \* the calls that take more than one step
    Emails,        \* addresses; at most one account has each
    ArchiveOwner,  \* the address of the administrator in the archive
    TokenRequired, \* BOOTSTRAP_SETUP_TOKEN is set
    MaxCodes,      \* how many codes are mailed
    Starts         \* the accounts and companies an installation may begin with

VARIABLES
    user,      \* the account of each address
    request,   \* the registration request of each address and its code
    grants,    \* addresses registered with the setup token
    issued,    \* how many codes were mailed: they are all different
    companies, \* companies by who registered them, or how far the archive's is
    marker,    \* the restore that closed the installation, if one did
    calls      \* where each call stands

vars == <<user, request, grants, issued, companies, marker, calls>>

NoOne == [role |-> "none", active |-> FALSE, verified |-> FALSE, from |-> "none"]
NoRequest == [code |-> 0, state |-> "none"]
Open == "open"
Idle == [at |-> "idle"]
Done == [at |-> "done"]

Account(role, verified, from) ==
    [role |-> role, active |-> TRUE, verified |-> verified, from |-> from]

\* An account remembers how it came into being.
Accounts ==
    [role: {"none", "user", "super_admin"}, active: BOOLEAN, verified: BOOLEAN,
     from: {"none", "start", "code", "invite", "archive"}]

\* The archive's company has one id, before its rows are restored and after.
Archived == {"archive", "restored"}

ASSUME AccessAssumption ==
    /\ ArchiveOwner \in Emails
    /\ TokenRequired \in BOOLEAN
    /\ MaxCodes \in Nat
    /\ Open \notin Calls
    /\ Emails \intersect Archived = {}
    \* what an installation begins with is confirmed, or was invited
    /\ \A s \in Starts :
        /\ s.companies \subseteq Emails
        /\ s.user \in [Emails -> Accounts]
        /\ \A e \in Emails :
            /\ s.user[e].from = "none" => s.user[e] = NoOne
            /\ s.user[e].from \in {"start", "code"} => s.user[e].verified

-----------------------------------------------------------------------------
Present(e) == user[e] # NoOne

\* The session guard lets them in.
Enters(e) == user[e].active /\ user[e].verified

Admins == {e \in Emails : user[e].role = "super_admin" /\ Enters(e)}

SuperAdmins == {e \in Emails : user[e].role = "super_admin"}

\* What keeps the next confirmed registration from being the first.
Established == {e \in Emails : user[e].verified \/ user[e].role = "super_admin"}

\* The call holds the lock of registrations of an address.
HoldsIdentity(c, e) ==
    \/ calls[c].at \in {"serialising", "confirming"} /\ calls[c].email = e
    \/ calls[c].at \in {"listing", "waiting", "checking", "removing"} /\ calls[c].target = e

IdentityFreeIgnored(e) == TRUE

IdentityFree(e) == \A c \in Calls : ~ HoldsIdentity(c, e)

\* Confirmations run one at a time from the count on.
FirstFreeIgnored == TRUE

FirstFree == \A c \in Calls : calls[c].at # "confirming"

RowFreeIgnored(e) == TRUE

\* No deletion has locked the account.
RowFree(e) ==
    \A c \in Calls : calls[c].at \in {"checking", "removing"} => e \notin calls[c].locked

At(c, place) == calls[c].at = place

\* While the installation is closed nothing is admitted.
Begin(c, call) ==
    /\ calls[c] = Idle
    /\ marker = Open
    /\ calls' = [calls EXCEPT ![c] = call]

End(c) == calls' = [calls EXCEPT ![c] = Done]

Live(c) == calls[c] \notin {Idle, Done}

-----------------------------------------------------------------------------
(* Requests for a code. *)

\* A registration, or a request to send the code again.  A confirmed request
\* that outlived its account gives way to a new one.
Admissible(e, resend) ==
    LET r == request[e]
    IN  /\ ~ Present(e) \/ (user[e].active /\ ~ user[e].verified)
        /\ r.state = "none" => ~ resend \/ Present(e)
        /\ r.state = "live" => resend \/ Present(e)

\* Whoever registers must present the setup token, if there is one.
GrantToken(e) ==
    /\ marker = Open
    /\ TokenRequired
    /\ grants' = grants \union {e}
    /\ UNCHANGED <<user, request, issued, companies, marker, calls>>

RequestCode(e, resend) ==
    /\ marker = Open
    /\ TokenRequired /\ ~ resend => e \in grants
    /\ issued < MaxCodes
    /\ IdentityFree(e)
    /\ Admissible(e, resend)
    /\ request' = [request EXCEPT ![e] = [code |-> issued + 1, state |-> "live"]]
    /\ issued' = issued + 1
    /\ UNCHANGED <<user, grants, companies, marker, calls>>

\* The code expires or its attempts are used up; the grant of the token expires.
Lapse(e) ==
    /\ \/ /\ request[e].state = "live"
          /\ request' = [request EXCEPT ![e].state = "dead"]
          /\ grants' = grants
       \/ /\ e \in grants
          /\ grants' = grants \ {e}
          /\ request' = request
    /\ UNCHANGED <<user, issued, companies, marker, calls>>

-----------------------------------------------------------------------------
(* Confirmation of a registration with its code. *)

BeginConfirmation(c, e, code) ==
    /\ Begin(c, [at |-> "proving", email |-> e, code |-> code])
    /\ UNCHANGED <<user, request, grants, issued, companies, marker>>

ProveCode(c) ==
    /\ At(c, "proving")
    /\ LET k == calls[c]
       IN  /\ IdentityFree(k.email)
           /\ calls' = [calls EXCEPT ![c] =
                 IF request[k.email] = [code |-> k.code, state |-> "live"]
                 THEN [k EXCEPT !.at = "serialising"] ELSE Done]
    /\ UNCHANGED <<user, request, grants, issued, companies, marker>>

\* Under the lock of the first registration the accounts are counted.
IsFirst(e) == Established = {} /\ (TokenRequired => e \in grants)

CountAccounts(c) ==
    /\ At(c, "serialising")
    /\ FirstFree
    /\ LET e == calls[c].email
       IN  calls' = [calls EXCEPT ![c] =
              IF Present(e) /\ (user[e].verified \/ ~ user[e].active) THEN Done
              ELSE [at |-> "confirming", email |-> e, code |-> calls[c].code,
                    found |-> user[e], first |-> IsFirst(e)]]
    /\ UNCHANGED <<user, request, grants, issued, companies, marker>>

\* An account that waited to be confirmed keeps the role that was read.
RoleOf(k) == IF k.first THEN "super_admin"
             ELSE IF k.found = NoOne THEN "user" ELSE k.found.role

Confirm(c) ==
    /\ At(c, "confirming")
    /\ LET k == calls[c]
           e == k.email
       IN  /\ RowFree(e)
           /\ Present(e) <=> k.found # NoOne
           /\ user' = [user EXCEPT ![e] =
                 IF Present(e) THEN [@ EXCEPT !.verified = TRUE, !.role = RoleOf(k)]
                 ELSE Account(RoleOf(k), TRUE, "code")]
           /\ companies' = IF Present(e) THEN companies ELSE companies \union {e}
           /\ request' = [request EXCEPT ![e].state = "spent"]
           /\ grants' = IF TokenRequired /\ k.first THEN grants \ {e} ELSE grants
    /\ End(c)
    /\ UNCHANGED <<issued, marker>>

-----------------------------------------------------------------------------
(* What administrators do. *)

\* A member invites somebody, who has to confirm; administrators choose the role.
Invite(e, role) ==
    /\ marker = Open
    /\ \E f \in Emails : Enters(f) /\ (role = "super_admin" => f \in Admins)
    /\ ~ Present(e)
    /\ user' = [user EXCEPT ![e] = Account(role, FALSE, "invite")]
    /\ UNCHANGED <<request, grants, issued, companies, marker, calls>>

RemoveCompany(k) ==
    /\ marker = Open
    /\ Admins # {}
    /\ companies' = companies \ {k}
    /\ UNCHANGED <<user, request, grants, issued, marker, calls>>

\* Nothing is asked again when an account is changed.
Changes == [role: {"user", "super_admin"}, active: BOOLEAN]

BeginChange(c, e, change) ==
    /\ Admins # {} /\ Present(e)
    /\ Begin(c, [at |-> "changing", target |-> e, change |-> change])
    /\ UNCHANGED <<user, request, grants, issued, companies, marker>>

Change(c) ==
    /\ At(c, "changing")
    /\ LET k == calls[c]
       IN  /\ RowFree(k.target)
           /\ user' = IF ~ Present(k.target) THEN user
                      ELSE [user EXCEPT ![k.target].role = k.change.role,
                                        ![k.target].active = k.change.active]
    /\ End(c)
    /\ UNCHANGED <<request, grants, issued, companies, marker>>

BeginDeletion(c, actor, e) ==
    /\ actor \in Admins /\ Present(e)
    /\ Begin(c, [at |-> "naming", actor |-> actor, target |-> e])
    /\ UNCHANGED <<user, request, grants, issued, companies, marker>>

NameIdentity(c) ==
    /\ At(c, "naming")
    /\ IdentityFree(calls[c].target)
    /\ calls' = [calls EXCEPT ![c] =
          IF Present(calls[c].target) THEN [@ EXCEPT !.at = "listing"] ELSE Done]
    /\ UNCHANGED <<user, request, grants, issued, companies, marker>>

\* The statement that locks the administrators finds them in its snapshot, and
\* locks those that still are when it has waited for the others.
ListAdmins(c) ==
    /\ At(c, "listing")
    /\ calls' = [calls EXCEPT ![c] =
          [at |-> "waiting", actor |-> @.actor, target |-> @.target, listed |-> SuperAdmins]]
    /\ UNCHANGED <<user, request, grants, issued, companies, marker>>

Locked(k) == {k.target} \union (k.listed \intersect SuperAdmins)

LockRows(c) ==
    /\ At(c, "waiting")
    /\ LET k == calls[c]
       IN  /\ \A e \in Locked(k) : RowFree(e)
           /\ calls' = [calls EXCEPT ![c] =
                 [at |-> "checking", actor |-> k.actor, target |-> k.target,
                  listed |-> k.listed, locked |-> Locked(k)]]
    /\ UNCHANGED <<user, request, grants, issued, companies, marker>>

\* The actor is looked at again, and who else administers.
Remaining(e) == Admins \ {e}

MayDelete(k) ==
    /\ k.actor \in Admins /\ Present(k.target)
    /\ user[k.target].role = "super_admin" =>
          Remaining(k.target) # {} \/ companies = {}

CheckDeletion(c) ==
    /\ At(c, "checking")
    /\ LET k == calls[c]
       IN  calls' = [calls EXCEPT ![c] =
              IF MayDelete(k)
              THEN [at |-> "removing", target |-> k.target, listed |-> k.listed,
                    locked |-> k.locked, remaining |-> Remaining(k.target)]
              ELSE Done]
    /\ UNCHANGED <<user, request, grants, issued, companies, marker>>

\* The account goes with its request; companies stay.
Remove(c) ==
    /\ At(c, "removing")
    /\ user' = [user EXCEPT ![calls[c].target] = NoOne]
    /\ request' = [request EXCEPT ![calls[c].target] = NoRequest]
    /\ End(c)
    /\ UNCHANGED <<grants, issued, companies, marker>>

-----------------------------------------------------------------------------
(* The restore of an archive into an installation without companies. *)

BeginFirstInstall(c) ==
    /\ companies = {}
    /\ Begin(c, [at |-> "preparing"])
    /\ UNCHANGED <<user, request, grants, issued, companies, marker>>

\* The owner and an empty company are created for the restore to find; if one
\* of them exists, what was prepared is discarded.
Prepared == ~ Present(ArchiveOwner) /\ companies \intersect Archived = {}

Prepare(c) ==
    /\ At(c, "preparing")
    /\ IF Prepared
       THEN /\ user' = [user EXCEPT ![ArchiveOwner] = Account("super_admin", TRUE, "archive")]
            /\ companies' = companies \union {"archive"}
            /\ calls' = [calls EXCEPT ![c].at = "closing"]
       ELSE /\ calls' = [calls EXCEPT ![c].at = "discarding"]
            /\ UNCHANGED <<user, companies>>
    /\ UNCHANGED <<request, grants, issued, marker>>

CloseInstallation(c) ==
    /\ At(c, "closing")
    /\ IF marker = Open
       THEN /\ marker' = c
            /\ calls' = [calls EXCEPT ![c].at = "restoring"]
       ELSE /\ calls' = [calls EXCEPT ![c].at = "discarding"]
            /\ marker' = marker
    /\ UNCHANGED <<user, request, grants, issued, companies>>

\* Every other call has ended.
DrainedNot(c) == TRUE

Drained(c) == \A d \in Calls \ {c} : ~ Live(d)

Restore(c) ==
    /\ At(c, "restoring")
    /\ Drained(c)
    /\ companies \intersect Archived # {}
    /\ companies' = (companies \ Archived) \union {"restored"}
    /\ marker' = Open
    /\ End(c)
    /\ UNCHANGED <<user, request, grants, issued>>

\* The archive is refused, its company is gone, or the others do not end in time:
\* then the installation may stay closed.
RefuseArchive(c) ==
    /\ At(c, "restoring")
    /\ \/ Drained(c) /\ marker' = Open
       \/ ~ Drained(c) /\ marker' = marker
    /\ calls' = [calls EXCEPT ![c].at = "discarding"]
    /\ UNCHANGED <<user, request, grants, issued, companies>>

\* The outcome is not known: nothing is undone, and the installation stays closed.
LeaveInDoubt(c) ==
    /\ At(c, "restoring")
    /\ Drained(c)
    /\ companies \intersect Archived # {}
    /\ companies' \in {companies, (companies \ Archived) \union {"restored"}}
    /\ End(c)
    /\ UNCHANGED <<user, request, grants, issued, marker>>

\* The rows of the archive's owner and company are removed, whoever made them.
Discard(c) ==
    /\ At(c, "discarding")
    /\ RowFree(ArchiveOwner)
    /\ companies' = companies \ Archived
    /\ user' = IF user[ArchiveOwner].from = "archive"
               THEN [user EXCEPT ![ArchiveOwner] = NoOne] ELSE user
    /\ End(c)
    /\ UNCHANGED <<request, grants, issued, marker>>

-----------------------------------------------------------------------------
\* A transaction fails or times out; so does the call.
Abort(c) ==
    /\ calls[c].at \in {"serialising", "confirming", "changing", "listing", "waiting",
                        "checking", "removing"}
    /\ End(c)
    /\ UNCHANGED <<user, request, grants, issued, companies, marker>>

Init ==
    /\ \E s \in Starts : user = s.user /\ companies = s.companies
    /\ request = [e \in Emails |-> NoRequest]
    /\ grants = {}
    /\ issued = 0
    /\ marker = Open
    /\ calls = [c \in Calls |-> Idle]

Enter(c) ==
    \/ \E e \in Emails, code \in 1 .. issued : BeginConfirmation(c, e, code)
    \/ \E e \in Emails, change \in Changes : BeginChange(c, e, change)
    \/ \E actor, e \in Emails : BeginDeletion(c, actor, e)
    \/ BeginFirstInstall(c)

Step(c) ==
    \/ ProveCode(c) \/ CountAccounts(c) \/ Confirm(c)
    \/ Change(c)
    \/ NameIdentity(c) \/ ListAdmins(c) \/ LockRows(c) \/ CheckDeletion(c) \/ Remove(c)
    \/ Prepare(c) \/ CloseInstallation(c) \/ Restore(c) \/ LeaveInDoubt(c)
    \/ RefuseArchive(c) \/ Discard(c)

Next ==
    \/ \E c \in Calls : Enter(c) \/ Step(c) \/ Abort(c)
    \/ \E e \in Emails, resend \in BOOLEAN : RequestCode(e, resend)
    \/ \E e \in Emails : GrantToken(e) \/ Lapse(e)
    \/ \E e \in Emails, role \in {"user", "super_admin"} : Invite(e, role)
    \/ \E k \in companies : RemoveCompany(k)

Spec == Init /\ [][Next]_vars
================================================================================
