----------------------------- MODULE Membership ------------------------------
(***************************************************************************)
(* How people come to belong to the estate: residents and guards who are   *)
(* registered, residents who are reviewed or verify their identity, the    *)
(* co-residents they invite and administrators approve, the login each of  *)
(* them has and the code that opens the gate (src/apis/resident,           *)
(* resident-associate, guard, users).                                      *)
(*                                                                         *)
(* Every handler checks first and writes later; between the two lie hashes *)
(* of passwords, calls to the identity service and to Paystack, and mails. *)
(* What keeps rows apart in the end are unique keys.                       *)
(*                                                                         *)
(* Init picks a scope: the families of operations a behaviour uses and     *)
(* the people it starts with, as in ShiftRoster.                           *)
(***************************************************************************)
EXTENDS FiniteSets, Server

CONSTANTS
    Residents, Associates, Guards,
    Emails, Codes, Nins,
    Scopes          \* the combinations of families and first members

People == Residents \cup Associates \cup Guards
AllFamilies == {"join", "staff", "review", "nin", "gate", "profile", "types",
                "family", "decide", "promote"}

ASSUME PeopleAssumption ==
    /\ Residents \cap Associates = {}
    /\ Residents \cap Guards = {}
    /\ Associates \cap Guards = {}
(* Who is there at first has a login of its own: User.email is unique.     *)
ASSUME ScopesAssumption ==
    /\ Scopes \subseteq [families : SUBSET AllFamilies,
                         waiting : [People -> Emails \cup {None}],
                         admitted : SUBSET Residents]
    /\ \A s \in Scopes : \A p, q \in Residents \cup Guards :
          p # q /\ s.waiting[p] = s.waiting[q] => s.waiting[p] = None
ASSUME NoneAssumption ==
    None \notin People \cup Emails \cup Codes \cup Nins \cup BOOLEAN

VARIABLES
    scope,          \* the families of this behaviour
    status,         \* Resident.status, ResidentAssociate.approvalStatus; of
                    \* a guard, whether the identity is verified
    mail,           \* the email of the person's own row
    login,          \* the email of the User row the person is linked to
    unowned,        \* emails of User rows that belong to no person's row
    nin,            \* Resident.nin, Guard.nin
    code,           \* passcode (with qrPayload and qrCode)
    agreed,         \* residents who gave the three consents and the declaration
    complete,       \* Resident.completeProfile
    asked,          \* EstateSettings.applyApartmentType
    typed,          \* residents with an apartmentTypeId
    undone,         \* history: residents who came to lack an apartment type
                    \* when their profile had been judged to be complete
    superGuards,    \* Guard.role: guards whose row says SUPER_GUARD
    superUsers,     \* User.role: guards whose login says so
    edited,         \* history: guards whose row was edited by hand
    pc, job,        \* a request: position, arguments and what it has read
    shown,          \* history: the code a person was last answered
    told,           \* history: people who were mailed a password
    overlapped,     \* history: people two requests were about at a time
    contested,      \* history: NINs two requests verified at a time
    cut             \* history: people whose creation ended after the mail

rows    == <<status, mail, login, unowned, nin, code, agreed, complete>>
estate  == <<asked, typed, undone>>
ranks   == <<superGuards, superUsers, edited>>
request == <<pc, job>>
vars    == <<scope, rows, estate, ranks, request, shown, told, overlapped,
             contested, cut>>

Statuses  == {"NONE", "PENDING", "ACTIVE", "REJECTED", "REMOVED"}
Positions == {"idle", "create", "staff", "selfStaff", "mail", "onboard",
              "commitOnboard", "admin", "invite", "edit", "remove", "draw", "approve", "refuse",
              "judge", "activate", "reject", "ensure", "store", "validate",
              "profile", "promote"}

NoJob == [who |-> None, email |-> None, linked |-> FALSE, nin |-> None,
          code |-> None, agreed |-> FALSE, typed |-> FALSE, given |-> None,
          sent |-> None, then |-> "idle"]

Init ==
    /\ scope \in Scopes
    /\ mail = scope.waiting
    /\ status = [p \in People |->
                   IF mail[p] = None THEN "NONE"
                   ELSE IF p \in scope.admitted THEN "ACTIVE" ELSE "PENDING"]
    /\ login = [p \in People |-> IF p \in Associates THEN None ELSE mail[p]]
    /\ unowned = {}
    /\ nin = [p \in People |-> None]
    /\ code = [p \in People |-> None]
    /\ agreed = {} /\ complete = {}
    /\ asked = FALSE /\ typed = {} /\ undone = {}
    /\ superGuards \in SUBSET (IF "promote" \in scope.families THEN Guards ELSE {})
    /\ superUsers = superGuards /\ edited = {}
    /\ pc = [t \in Threads |-> "idle"]
    /\ job = [t \in Threads |-> NoJob]
    /\ shown = [p \in People |-> None]
    /\ told = {} /\ overlapped = {} /\ contested = {} /\ cut = {}

-----------------------------------------------------------------------------
(* Requests. *)

Others(t)  == {job[u].who : u \in Threads \ {t}} \ {None}
Checked(t) == {job[u].nin : u \in Threads \ {t}} \ {None}

Start(t, position, new) ==
    /\ pc[t] = "idle"
    /\ pc' = [pc EXCEPT ![t] = position]
    /\ job' = [job EXCEPT ![t] = new]
    /\ overlapped' = overlapped \cup ({new.who} \cap Others(t))
    /\ contested' = contested \cup ({new.nin} \cap Checked(t))

GoTo(t, position, new) ==
    /\ pc' = [pc EXCEPT ![t] = position]
    /\ job' = [job EXCEPT ![t] = new]
    /\ UNCHANGED <<overlapped, contested>>

Leave(t) ==
    /\ pc' = [pc EXCEPT ![t] = "idle"]
    /\ job' = [job EXCEPT ![t] = NoJob]
    /\ UNCHANGED <<overlapped, contested>>

(* Any await may throw and the process may die; what is committed stays,   *)
(* a mail that was sent too.  A broken unique key or a row that is gone    *)
(* ends a request in the same way.                                         *)
Fail(t) ==
    /\ pc[t] # "idle"
    /\ Leave(t)
    /\ cut' = IF pc[t] = "commitOnboard" THEN cut \cup {job[t].who} ELSE cut
    /\ UNCHANGED <<scope, rows, shown, told>>

Offers(family) == family \in scope.families

-----------------------------------------------------------------------------
(* Unique keys. *)

Accounts == ({login[p] : p \in People} \ {None}) \cup unowned

(* An insert waits for a transaction that has inserted the same email.     *)
Reserved(t) == {job[u].email : u \in {v \in Threads \ {t} :
                                        pc[v] = "commitOnboard"}}

FreeAccount(t, e) == e \notin Accounts \cup Reserved(t)

UsedBy(kind) == {mail[p] : p \in kind} \ {None}
CodesOf(kind) == {code[p] : p \in kind} \ {None}

-----------------------------------------------------------------------------
(* Apartment types.  The estate may ask for one, from one day to the next; *)
(* completeProfile is written by the requests that judge it and by nothing *)
(* that changes what they have judged.                                     *)

Lacking == IF asked THEN Residents \ typed ELSE {}

(* Who is taken to have all the estate asks for.                           *)
Judged == complete \cup {job[t].who : t \in {u \in Threads : job[u].typed}}

Furnish(now, holders) ==
    /\ asked' = now /\ typed' = holders
    /\ undone' = Lacking' \cap (undone \cup (Judged \ Lacking))

(* A column that is not sent stays, one that is sent as null is cleared.   *)
Choose(r, sent) == CASE sent = None -> typed
                     [] sent = TRUE -> typed \cup {r}
                     [] OTHER       -> typed \ {r}

Sendable == IF Offers("types") THEN {TRUE, None} ELSE {None}

-----------------------------------------------------------------------------
(* Registration. *)

AddMember(p, e, sent) ==
    /\ status' = [status EXCEPT ![p] = "PENDING"]
    /\ mail' = [mail EXCEPT ![p] = e]
    /\ login' = [login EXCEPT ![p] = e]
    /\ Furnish(asked, Choose(p, sent))
    /\ UNCHANGED <<unowned, nin, code, agreed, complete>>

(* register looks for a resident's row with the email only, the services   *)
(* of guards and administrators for a User row.                            *)
BeginRegister(t, r, e, sent) ==
    /\ Offers("join") /\ status[r] = "NONE" /\ e \notin UsedBy(Residents)
    /\ asked => sent = TRUE
    /\ Start(t, "create", [NoJob EXCEPT !.who = r, !.email = e, !.sent = sent])
    /\ UNCHANGED <<scope, rows, shown, told, cut>>

BeginCreateGuard(t, g, e) ==
    /\ Offers("staff") /\ status[g] = "NONE" /\ e \notin Accounts
    /\ Start(t, "staff", [NoJob EXCEPT !.who = g, !.email = e])
    /\ UNCHANGED <<scope, rows, shown, told, cut>>

BeginGuardSelfOnboarding(t, g, e) ==
    /\ Offers("staff") /\ status[g] = "NONE" /\ e \notin Accounts
    /\ Start(t, "selfStaff", [NoJob EXCEPT !.who = g, !.email = e])
    /\ UNCHANGED <<scope, rows, shown, told, cut>>

(* Account and row are one transaction; the password goes out after it.    *)
CreateMember(t) ==
    /\ status[job[t].who] = "NONE" /\ FreeAccount(t, job[t].email)
    /\ AddMember(job[t].who, job[t].email, job[t].sent)
    /\ GoTo(t, "mail", job[t])
    /\ UNCHANGED <<scope, shown, told, cut>>

CreateResident(t) == pc[t] = "create" /\ CreateMember(t)

CreateGuard(t) == pc[t] = "staff" /\ CreateMember(t)

CreateOnboardedGuard(t) == pc[t] = "selfStaff" /\ CreateMember(t)

(* The password is mailed, or answered to the administrator who asked.     *)
MailPassword(t) ==
    /\ pc[t] = "mail"
    /\ told' = told \cup {job[t].who}
    /\ Leave(t)
    /\ UNCHANGED <<scope, rows, shown, cut>>

(* onboardResident mails from inside its transaction.                      *)
BeginOnboard(t, r, e, sent) ==
    /\ Offers("join") /\ status[r] = "NONE"
    /\ e \notin UsedBy(Residents) \cup Accounts
    /\ asked => sent = TRUE
    /\ Start(t, "onboard", [NoJob EXCEPT !.who = r, !.email = e, !.sent = sent])
    /\ UNCHANGED <<scope, rows, shown, told, cut>>

MailOnboarding(t) ==
    /\ pc[t] = "onboard"
    /\ status[job[t].who] = "NONE" /\ FreeAccount(t, job[t].email)
    /\ told' = told \cup {job[t].who}
    /\ GoTo(t, "commitOnboard", job[t])
    /\ UNCHANGED <<scope, rows, shown, cut>>

CommitOnboard(t) ==
    /\ pc[t] = "commitOnboard"
    /\ AddMember(job[t].who, job[t].email, job[t].sent)
    /\ Leave(t)
    /\ UNCHANGED <<scope, shown, told, cut>>

BeginCreateAdmin(t, e) ==
    /\ Offers("staff") /\ e \notin Accounts
    /\ Start(t, "admin", [NoJob EXCEPT !.email = e])
    /\ UNCHANGED <<scope, rows, shown, told, cut>>

CreateAdmin(t) ==
    /\ pc[t] = "admin" /\ FreeAccount(t, job[t].email)
    /\ unowned' = unowned \cup {job[t].email}
    /\ Leave(t)
    /\ UNCHANGED <<scope, status, mail, login, nin, code, agreed, complete,
                   shown, told, cut>>

-----------------------------------------------------------------------------
(* Review, identity and gate code of a resident. *)

Undecided(r) == status[r] \notin {"ACTIVE", "REJECTED"}

(* A resident who has a code keeps it; for another one is drawn now and    *)
(* stored with the decision.                                               *)
Onward(r) == IF code[r] = None THEN "draw" ELSE "activate"

(* What a request reads of a resident whose profile it is to judge.        *)
Read(r) == [NoJob EXCEPT !.who = r, !.agreed = r \in agreed,
                         !.typed = r \in typed, !.then = Onward(r)]

BeginApproval(t, r) ==
    /\ Offers("review") /\ status[r] # "NONE" /\ Undecided(r)
    /\ Start(t, "judge", Read(r))
    /\ UNCHANGED <<scope, rows, shown, told, cut>>

(* isResidentProfileComplete reads the settings when the row has been      *)
(* read; its verdict is written when all other awaits are done.            *)
Qualified_Untyped(t) == job[t].agreed

Qualified(t) == job[t].agreed /\ (asked => job[t].typed)

Judge(t) ==
    /\ pc[t] = "judge"
    /\ GoTo(t, job[t].then, [job[t] EXCEPT !.agreed = Qualified(t),
                                           !.typed = Qualified(t),
                                           !.then = "activate"])
    /\ UNCHANGED <<scope, rows, shown, told, cut>>

BeginRejection(t, r) ==
    /\ Offers("review") /\ status[r] # "NONE" /\ Undecided(r)
    /\ Start(t, "reject", [NoJob EXCEPT !.who = r])
    /\ UNCHANGED <<scope, rows, shown, told, cut>>

Reject(t) ==
    /\ pc[t] = "reject"
    /\ status' = [status EXCEPT ![job[t].who] = "REJECTED"]
    /\ Leave(t)
    /\ UNCHANGED <<scope, mail, login, unowned, nin, code, agreed, complete,
                   shown, told, cut>>

(* Only residents are searched for the NIN, whoever verifies theirs.  The  *)
(* status of a resident is not looked at.                                  *)
NinTaken(p, n) == \E r \in Residents \ {p} : nin[r] = n

BeginVerifyNin(t, r, n) ==
    /\ Offers("nin") /\ status[r] # "NONE" /\ ~NinTaken(r, n)
    /\ Start(t, "judge", [Read(r) EXCEPT !.nin = n])
    /\ UNCHANGED <<scope, rows, shown, told, cut>>

BeginVerifyGuardNin(t, g, n) ==
    /\ Offers("nin") /\ status[g] # "NONE" /\ ~NinTaken(g, n)
    /\ Start(t, "activate", [NoJob EXCEPT !.who = g, !.nin = n])
    /\ UNCHANGED <<scope, rows, shown, told, cut>>

(* The draw of a resident's code avoids all codes there are, that of a     *)
(* co-resident's only those of co-residents.                               *)
CodesAvoided(p) ==
    IF p \in Residents THEN CodesOf(Residents \cup Associates)
    ELSE CodesOf(Associates)

Draw(t, kind, c) ==
    /\ pc[t] = "draw" /\ job[t].who \in kind
    /\ c \notin CodesAvoided(job[t].who)
    /\ GoTo(t, job[t].then, [job[t] EXCEPT !.code = c])
    /\ UNCHANGED <<scope, rows, shown, told, cut>>

DrawCode(t, c) == Draw(t, Residents, c)

DrawAssociateCode(t, c) == Draw(t, Associates, c)

(* The unique key of passcodes covers the rows of one table.               *)
FreeCode(p, c) ==
    c = None \/ c \notin CodesOf((IF p \in Residents THEN Residents
                                                     ELSE Associates) \ {p})

StoreCode(p, c) ==
    /\ FreeCode(p, c)
    /\ code' = IF c = None THEN code ELSE [code EXCEPT ![p] = c]
    /\ shown' = [shown EXCEPT ![p] = code'[p]]

Activate(t, r) ==
    /\ pc[t] = "activate" /\ r \in Residents
    /\ StoreCode(r, job[t].code)
    /\ status' = [status EXCEPT ![r] = "ACTIVE"]
    /\ complete' = IF job[t].agreed THEN complete \cup {r} ELSE complete \ {r}
    /\ Leave(t)
    /\ UNCHANGED <<scope, mail, login, unowned, agreed, told, cut>>

ActivateResident(t) ==
    /\ job[t].nin = None /\ Activate(t, job[t].who)
    /\ UNCHANGED nin

StoreIdentity(t) ==
    /\ job[t].nin # None /\ Activate(t, job[t].who)
    /\ nin' = [nin EXCEPT ![job[t].who] = job[t].nin]

ActivateGuard(t) ==
    LET g == job[t].who IN
    /\ pc[t] = "activate" /\ g \in Guards
    /\ status' = [status EXCEPT ![g] = "ACTIVE"]
    /\ nin' = [nin EXCEPT ![g] = job[t].nin]
    /\ Leave(t)
    /\ UNCHANGED <<scope, mail, login, unowned, code, agreed, complete, shown,
                   told, cut>>

(* getGateCredentials and the dashboard of co-residents draw a code for    *)
(* those who were admitted before there were any.                          *)
AskForCode(t, p) ==
    /\ Offers("gate") /\ status[p] = "ACTIVE"
    /\ Start(t, "ensure", [NoJob EXCEPT !.who = p])
    /\ UNCHANGED <<scope, rows, shown, told, cut>>

BeginGateCode(t, r) == r \in Residents /\ AskForCode(t, r)

BeginDashboard(t, a) == a \in Associates /\ AskForCode(t, a)

HasCode(p) == code[p] # None

ShowCode(t) ==
    LET p == job[t].who IN
    /\ pc[t] = "ensure" /\ status[p] # "REMOVED" /\ HasCode(p)
    /\ shown' = [shown EXCEPT ![p] = code[p]]
    /\ Leave(t)
    /\ UNCHANGED <<scope, rows, told, cut>>

MissCode(t) ==
    LET p == job[t].who IN
    /\ pc[t] = "ensure" /\ status[p] # "REMOVED" /\ ~HasCode(p)
    /\ GoTo(t, "draw", [job[t] EXCEPT !.then = "store"])
    /\ UNCHANGED <<scope, rows, shown, told, cut>>

StoreDrawnCode(t) ==
    /\ pc[t] = "store" /\ status[job[t].who] # "REMOVED"
    /\ StoreCode(job[t].who, job[t].code)
    /\ Leave(t)
    /\ UNCHANGED <<scope, status, mail, login, unowned, nin, agreed, complete,
                   told, cut>>

(* completeProfile: the four consents are always sent, the apartment type  *)
(* may be left out or be null; judged is the type sent or else the one     *)
(* read (dto.apartmentTypeId ?? resident.apartmentTypeId).                 *)
BeginCompleteProfile(t, r, given, sent) ==
    /\ Offers("profile") /\ status[r] \notin {"NONE", "REJECTED"}
    /\ Start(t, "validate",
             [NoJob EXCEPT !.who = r, !.agreed = given, !.given = given,
                           !.typed = sent = TRUE \/ r \in typed,
                           !.sent = sent, !.then = "profile"])
    /\ UNCHANGED <<scope, rows, shown, told, cut>>

ValidateType(t) ==
    /\ pc[t] = "validate" /\ (asked => job[t].typed)
    /\ GoTo(t, "judge", job[t])
    /\ UNCHANGED <<scope, rows, shown, told, cut>>

CompleteProfile(t) ==
    LET r == job[t].who IN
    /\ pc[t] = "profile"
    /\ agreed' = IF job[t].given = TRUE THEN agreed \cup {r} ELSE agreed \ {r}
    /\ complete' = IF job[t].agreed THEN complete \cup {r} ELSE complete \ {r}
    /\ Furnish(asked, Choose(r, job[t].sent))
    /\ Leave(t)
    /\ UNCHANGED <<scope, status, mail, login, unowned, nin, code, shown, told,
                   cut>>

(* What else changes the estate's demand and who meets it, with never a    *)
(* look at completeProfile: a profile edited at the login's service, the   *)
(* settings, and a type deleted under those who chose it meanwhile (the    *)
(* window is EstateSetup's; here any holders may lose theirs).             *)
UpdateProfile(r, sent) ==
    /\ Offers("profile") /\ status[r] # "NONE"
    /\ Furnish(asked, Choose(r, sent))
    /\ UNCHANGED <<scope, rows, request, shown, told, overlapped, contested, cut>>

UpdateSettings ==
    /\ Offers("types")
    /\ Furnish(~asked, typed)
    /\ UNCHANGED <<scope, rows, request, shown, told, overlapped, contested, cut>>

EraseType(holders) ==
    /\ Offers("types")
    /\ Furnish(asked, typed \ holders)
    /\ UNCHANGED <<scope, rows, request, shown, told, overlapped, contested, cut>>

-----------------------------------------------------------------------------
(* Co-residents: invited by a resident, approved by an administrator. *)

(* assertUniqueCoResidentEmail                                             *)
EmailTaken(a, e) ==
    \/ e \in Accounts /\ e # login[a]
    \/ e \in UsedBy(Residents)
    \/ e \in UsedBy(Associates \ {a})

BeginInvite(t, a, e) ==
    /\ Offers("family") /\ status[a] = "NONE" /\ ~EmailTaken(a, e)
    /\ Start(t, "invite", [NoJob EXCEPT !.who = a, !.email = e])
    /\ UNCHANGED <<scope, rows, shown, told, cut>>

Invite(t) ==
    LET a == job[t].who IN
    /\ pc[t] = "invite"
    /\ status[a] = "NONE" /\ job[t].email \notin UsedBy(Associates)
    /\ status' = [status EXCEPT ![a] = "PENDING"]
    /\ mail' = [mail EXCEPT ![a] = job[t].email]
    /\ Leave(t)
    /\ UNCHANGED <<scope, login, unowned, nin, code, agreed, complete, shown,
                   told, cut>>

Known(a) == status[a] \notin {"NONE", "REMOVED"}

BeginEdit(t, a, e) ==
    /\ Offers("family") /\ Known(a) /\ e # mail[a] /\ ~EmailTaken(a, e)
    /\ Start(t, "edit", [NoJob EXCEPT !.who = a, !.email = e,
                                      !.linked = login[a] # None])
    /\ UNCHANGED <<scope, rows, shown, told, cut>>

(* Login and row change in one transaction if there was a login when the   *)
(* row was read.                                                           *)
Edit(t) ==
    LET a == job[t].who IN
    /\ pc[t] = "edit" /\ Known(a)
    /\ job[t].email \notin UsedBy(Associates \ {a})
    /\ mail' = [mail EXCEPT ![a] = job[t].email]
    /\ IF job[t].linked
       THEN /\ job[t].email \notin (Accounts \ {login[a]}) \cup Reserved(t)
            /\ login' = [login EXCEPT ![a] = job[t].email]
       ELSE UNCHANGED login
    /\ Leave(t)
    /\ UNCHANGED <<scope, status, unowned, nin, code, agreed, complete, shown,
                   told, cut>>

BeginRemove(t, a) ==
    /\ Offers("family") /\ Known(a)
    /\ Start(t, "remove", [NoJob EXCEPT !.who = a])
    /\ UNCHANGED <<scope, rows, shown, told, cut>>

(* The row goes, the login stays.                                          *)
Remove(t) ==
    LET a == job[t].who IN
    /\ pc[t] = "remove" /\ Known(a)
    /\ status' = [status EXCEPT ![a] = "REMOVED"]
    /\ mail' = [mail EXCEPT ![a] = None]
    /\ code' = [code EXCEPT ![a] = None]
    /\ login' = [login EXCEPT ![a] = None]
    /\ unowned' = unowned \cup ({login[a]} \ {None})
    /\ shown' = [shown EXCEPT ![a] = None]
    /\ Leave(t)
    /\ UNCHANGED <<scope, nin, agreed, complete, told, cut>>

Open_NotAdmitted(a) == Known(a) /\ status[a] # "ACTIVE"
Open(a) == status[a] = "PENDING"

BeginApproveAssociate(t, a) ==
    /\ Offers("decide") /\ Open(a)
    /\ Start(t, "draw", [NoJob EXCEPT !.who = a, !.email = mail[a],
                                      !.then = "approve"])
    /\ UNCHANGED <<scope, rows, shown, told, cut>>

ApproveAssociate(t) ==
    LET a == job[t].who IN
    /\ pc[t] = "approve" /\ Known(a) /\ FreeAccount(t, job[t].email)
    /\ StoreCode(a, job[t].code)
    /\ status' = [status EXCEPT ![a] = "ACTIVE"]
    /\ login' = [login EXCEPT ![a] = job[t].email]
    /\ unowned' = unowned \cup ({login[a]} \ {None})
    /\ GoTo(t, "mail", job[t])
    /\ UNCHANGED <<scope, mail, nin, agreed, complete, told, cut>>

BeginRefuse(t, a) ==
    /\ Offers("decide") /\ Open(a)
    /\ Start(t, "refuse", [NoJob EXCEPT !.who = a])
    /\ UNCHANGED <<scope, rows, shown, told, cut>>

RefuseAssociate(t) ==
    LET a == job[t].who IN
    /\ pc[t] = "refuse" /\ Known(a)
    /\ status' = [status EXCEPT ![a] = "REJECTED"]
    /\ Leave(t)
    /\ UNCHANGED <<scope, mail, login, unowned, nin, code, agreed, complete,
                   shown, told, cut>>

-----------------------------------------------------------------------------
(* Guards and super guards: the row says what a guard is shown as, the     *)
(* login what a guard may do.                                              *)
SetRole(set, g, super) == IF super THEN set \cup {g} ELSE set \ {g}

(* Without a role the request turns the one it has read.                   *)
BeginPromote(t, g, given) ==
    /\ Offers("promote") /\ status[g] # "NONE"
    /\ Start(t, "promote",
             [NoJob EXCEPT !.who = g,
                           !.given = IF given = None THEN g \notin superGuards
                                     ELSE given])
    /\ UNCHANGED <<scope, rows, ranks, shown, told, cut>>

Promote(t) ==
    /\ pc[t] = "promote"
    /\ superGuards' = SetRole(superGuards, job[t].who, job[t].given)
    /\ superUsers' = SetRole(superUsers, job[t].who, job[t].given)
    /\ Leave(t)
    /\ UNCHANGED <<scope, rows, edited, shown, told, cut>>

(* An edit writes whatever columns of the guard's row it is given, role    *)
(* and email among them; no login follows.                                 *)
UpdateGuard(g, e, super) ==
    /\ Offers("promote") /\ status[g] # "NONE"
    /\ mail' = [mail EXCEPT ![g] = e]
    /\ superGuards' = SetRole(superGuards, g, super)
    /\ edited' = edited \cup {g}
    /\ UNCHANGED <<scope, status, login, unowned, nin, code, agreed, complete,
                   superUsers, request, shown, told, overlapped, contested,
                   cut>>

-----------------------------------------------------------------------------
Registration ==
    \/ \E t \in Threads, e \in Emails :
          \/ \E r \in Residents, sent \in Sendable :
                BeginRegister(t, r, e, sent) \/ BeginOnboard(t, r, e, sent)
          \/ \E g \in Guards : \/ BeginCreateGuard(t, g, e)
                              \/ BeginGuardSelfOnboarding(t, g, e)
          \/ BeginCreateAdmin(t, e)
    \/ \E t \in Threads : MailPassword(t) \/ CreateAdmin(t) \/ MailOnboarding(t)

Creation ==
    \E t \in Threads :
       \/ CreateResident(t) \/ CreateGuard(t) \/ CreateOnboardedGuard(t)
       \/ CommitOnboard(t)

Admission ==
    \/ \E t \in Threads, r \in Residents :
          \/ BeginApproval(t, r) \/ BeginRejection(t, r)
          \/ \E given \in BOOLEAN, sent \in BOOLEAN \cup {None} :
                BeginCompleteProfile(t, r, given, sent)
    \/ \E t \in Threads, n \in Nins :
          \/ \E r \in Residents : BeginVerifyNin(t, r, n)
          \/ \E g \in Guards : BeginVerifyGuardNin(t, g, n)
    \/ \E t \in Threads, p \in People : BeginGateCode(t, p) \/ BeginDashboard(t, p)
    \/ \E t \in Threads, c \in Codes : DrawCode(t, c) \/ DrawAssociateCode(t, c)
    \/ \E t \in Threads :
          \/ Reject(t) \/ Judge(t) \/ ActivateResident(t) \/ StoreIdentity(t)
          \/ ActivateGuard(t)
          \/ ShowCode(t) \/ MissCode(t) \/ StoreDrawnCode(t) \/ ValidateType(t)

Furnishing ==
    \/ \E t \in Threads : CompleteProfile(t)
    \/ \E r \in Residents, sent \in BOOLEAN : UpdateProfile(r, sent)
    \/ UpdateSettings
    \/ \E holders \in SUBSET typed : EraseType(holders)

Family ==
    \/ \E t \in Threads, a \in Associates :
          \/ BeginRemove(t, a) \/ BeginApproveAssociate(t, a)
          \/ BeginRefuse(t, a)
          \/ \E e \in Emails : BeginInvite(t, a, e) \/ BeginEdit(t, a, e)
    \/ \E t \in Threads :
          \/ Invite(t) \/ Edit(t) \/ Remove(t)
          \/ ApproveAssociate(t) \/ RefuseAssociate(t)

Ranking ==
    \/ \E t \in Threads, g \in Guards, given \in BOOLEAN \cup {None} :
          BeginPromote(t, g, given)
    \/ \E t \in Threads : Promote(t)
    \/ \E g \in Guards, e \in Emails, super \in BOOLEAN : UpdateGuard(g, e, super)

Next ==
    \/ /\ Registration \/ Admission \/ Family \/ \E t \in Threads : Fail(t)
       /\ UNCHANGED <<estate, ranks>>
    \/ (Creation \/ Furnishing) /\ UNCHANGED ranks
    \/ Ranking /\ UNCHANGED estate

Spec == Init /\ [][Next]_vars

-----------------------------------------------------------------------------
Jobs == [who : People \cup {None}, email : Emails \cup {None},
         linked : BOOLEAN, nin : Nins \cup {None}, code : Codes \cup {None},
         agreed : BOOLEAN, typed : BOOLEAN, given : BOOLEAN \cup {None},
         sent : BOOLEAN \cup {None}, then : Positions]

(* Every variable keeps its type.                                          *)
TypeOK ==
    /\ scope \in Scopes
    /\ status \in [People -> Statuses]
    /\ mail \in [People -> Emails \cup {None}]
    /\ login \in [People -> Emails \cup {None}]
    /\ unowned \subseteq Emails
    /\ nin \in [People -> Nins \cup {None}]
    /\ code \in [People -> Codes \cup {None}]
    /\ agreed \subseteq Residents /\ complete \subseteq Residents
    /\ asked \in BOOLEAN /\ typed \subseteq Residents /\ undone \subseteq Residents
    /\ superGuards \subseteq Guards /\ superUsers \subseteq Guards
    /\ edited \subseteq Guards
    /\ pc \in [Threads -> Positions]
    /\ job \in [Threads -> Jobs]
    /\ shown \in [People -> Codes \cup {None}]
    /\ told \subseteq People /\ overlapped \subseteq People
    /\ contested \subseteq Nins /\ cut \subseteq People

(* Residents and guards have a login of the email in their row from the    *)
(* moment there is a row (the transactions of register, onboardResident    *)
(* and createGuard); only the edit of a guard's row parts the two.         *)
MembersHaveLogins ==
    \A p \in Residents \cup Guards :
        /\ (status[p] = "NONE") = (login[p] = None)
        /\ login[p] = mail[p] \/ p \in edited

(* A guard may do what the row says, whichever promotions overlap: the     *)
(* roles guard asks the login, which only promoteGuard changes.            *)
RolesAgree == \A g \in Guards \ edited : g \in superGuards <=> g \in superUsers

(* A co-resident has a login of the email in the row when approved, and    *)
(* none before, although approval, edits and removal judge a row read      *)
(* earlier -- unless requests about this person overlapped.                *)
AssociatesHaveLogins ==
    \A a \in Associates \ overlapped :
        login[a] = IF status[a] = "ACTIVE" THEN mail[a] ELSE None

(* No two logins share an email, whoever checked for it before.            *)
LoginsAreDistinct ==
    /\ \A p, q \in People : p # q /\ login[p] = login[q] => login[p] = None
    /\ \A p \in People : login[p] \notin unowned

(* Who was mailed a password has an account, unless the transaction that   *)
(* mailed it ended there.                                                  *)
PasswordsOpenAccounts ==
    \A p \in told : \/ status[p] # "NONE"
                    \/ p \in cut
                    \/ \E t \in Threads : pc[t] = "commitOnboard"
                                          /\ job[t].who = p

(* People, their rows and their logins agree.                              *)
LoginsAgree ==
    /\ MembersHaveLogins /\ AssociatesHaveLogins /\ RolesAgree
    /\ LoginsAreDistinct /\ PasswordsOpenAccounts

(* The code a person was last answered is the one that opens the gate,     *)
(* although reviews, identity checks and first views may all draw one --   *)
(* unless requests about this person overlapped.  Two residents never have *)
(* the same, nor have two co-residents.                                    *)
CodesAreValid ==
    /\ \A p \in People \ overlapped : shown[p] \in {None, code[p]}
    /\ \A p, q \in People :
          /\ p # q /\ code[p] = code[q] /\ code[p] # None
          => ~({p, q} \subseteq Residents) /\ ~({p, q} \subseteq Associates)

(* Two residents share a NIN only if both verified it at the same time.    *)
(* A profile shown as complete has the consents and the declaration that   *)
(* complete it, unless requests about the resident overlapped; and it has  *)
(* the apartment type the estate asks for, unless the type went, or was    *)
(* first asked for, when the profile had been judged: the type is taken    *)
(* from what was read before the awaits, the settings from between them.   *)
ProfilesAreTrue ==
    /\ \A p, q \in Residents :
          p # q /\ nin[p] = nin[q] => nin[p] \in contested \cup {None}
    /\ complete \subseteq agreed \cup overlapped
    /\ complete \cap Lacking \subseteq undone

(* A decision about a person of whom no two requests overlap is final:     *)
(* whoever is admitted stays so, a rejected co-resident stays rejected     *)
(* until removed, a rejected resident until a NIN is verified, which asks  *)
(* for no status.                                                          *)
Verifying(r) == \E t \in Threads : job[t].who = r /\ job[t].nin # None

AdmissionsHold ==
    [][\A p \in People \ overlapped :
          /\ status[p] = "ACTIVE" =>
                \/ status'[p] = "ACTIVE"
                \/ p \in Associates /\ status'[p] = "REMOVED"
          /\ status[p] = "REJECTED" =>
                \/ status'[p] = "REJECTED"
                \/ p \in Associates /\ status'[p] = "REMOVED"
                \/ p \in Residents /\ Verifying(p)]_vars
=============================================================================
