------------------------------ MODULE Services -------------------------------
(***************************************************************************)
(* The services of the estate's people side by side: membership, login and *)
(* PIN, the community, the estate's setup and the levy of the month.  In   *)
(* the database they meet at the rows of users, residents and settings.    *)
(* What a module needs of what another service writes is among its own     *)
(* actions (the estate's demand for an apartment type and the loss of one  *)
(* in Membership, clearances in Community, reviews in MonthlyLevies), at   *)
(* any time; a behaviour of this module then follows one of them.          *)
(***************************************************************************)
EXTENDS Membership, Naturals

CONSTANTS
    Users, MaxOtps, MaxSecrets, AttemptLimit,               \* Credentials
    Neighbours, Admins, Participants,                       \* Community
    Polls, Posts, Tickets, Committees, RoomIds, MaxComments,
    Types, Levies, Names, Lowered, Amounts, Tenants,        \* EstateSetup
    Cron, MaxMonth, Payers, Callers                         \* MonthlyLevies

ASSUME CredentialsAssumption ==
    /\ IsFiniteSet(Threads) /\ Threads # {}
    /\ MaxOtps \in Nat /\ MaxSecrets \in Nat /\ AttemptLimit \in Nat \ {0}
    /\ None \notin Users

(* The cron job is no request; None is no resident.                        *)
ASSUME MonthlyAssumption ==
    Cron \notin Callers /\ None \notin Payers /\ MaxMonth \in Nat

(* There are names enough to tell the types apart without regard to case.  *)
ASSUME SetupAssumption ==
    /\ None \notin Types
    /\ \E f \in [Types -> Names] :
          \A x, y \in Types : x # y => Lowered[f[x]] # Lowered[f[y]]

VARIABLES
    service,        \* the service this behaviour follows
    secret, chosen, issued, otp, tokens, otpPc, otpJob, mailed, resets,
    proven, crossed, raced,
    area, state, rowsOf, restricted, cleared, comments, count, pinned,
    timeline, pos, req, granted, lapsed, doubled, torn, flips,
    concern, type, name, home, applied, price, charge, step, task, stale,
    month, due, eligible, levies, charged, holder, stage, who, period, found,
    unvisited, listed, abandoned, revoked

C == INSTANCE Credentials WITH pc <- otpPc, job <- otpJob
Y == INSTANCE Community WITH rows <- rowsOf, contested <- doubled,
                             Residents <- Neighbours
E == INSTANCE EstateSetup WITH Residents <- Tenants
M == INSTANCE MonthlyLevies WITH Residents <- Payers, Threads <- Callers

(* An item is of one kind, a room of one type, and an incident has at most *)
(* one room.                                                               *)
ASSUME CommunityAssumption ==
    /\ MaxComments \in Nat
    /\ Polls \cap (Posts \cup Tickets \cup Committees \cup Y!Rooms) = {}
    /\ Posts \cap (Tickets \cup Committees \cup Y!Rooms) = {}
    /\ Tickets \cap (Committees \cup Y!Rooms) = {}
    /\ Committees \cap Y!Rooms = {}
    /\ \A k, l \in DOMAIN RoomIds : k # l => RoomIds[k] \cap RoomIds[l] = {}
    /\ "INCIDENT" \in DOMAIN RoomIds =>
          \A r, q \in RoomIds["INCIDENT"] : r = q

credentials == <<secret, chosen, issued, otp, tokens, otpPc, otpJob, mailed,
                 resets, proven, crossed, raced>>
community == <<area, state, rowsOf, restricted, cleared, comments, count,
               pinned, timeline, pos, req, granted, lapsed, doubled, torn, flips>>
setup   == <<concern, type, name, home, applied, price, charge, step, task, stale>>
monthly == <<month, due, eligible, levies, charged, holder, stage, who, period,
             found, unvisited, listed, abandoned, revoked>>
services == <<service, vars, credentials, community, setup, monthly>>

ServicesInit ==
    /\ service \in {"membership", "credentials", "community", "setup", "monthly"}
    /\ Init /\ C!Init /\ Y!Init /\ E!Init /\ M!Init
    (* what a behaviour does not follow has one initial state *)
    /\ service # "membership" =>
          scope = (CHOOSE s \in Scopes : TRUE) /\ superGuards = {}
    /\ service # "community" => area = Polls
    /\ service # "setup" => concern = "names"

ServicesNext ==
    \/ /\ service = "membership" /\ Next
       /\ UNCHANGED <<service, credentials, community, setup, monthly>>
    \/ /\ service = "credentials" /\ C!Next
       /\ UNCHANGED <<service, vars, community, setup, monthly>>
    \/ /\ service = "community" /\ Y!Next
       /\ UNCHANGED <<service, vars, credentials, setup, monthly>>
    \/ /\ service = "setup" /\ E!Next
       /\ UNCHANGED <<service, vars, credentials, community, monthly>>
    \/ /\ service = "monthly" /\ M!Next
       /\ UNCHANGED <<service, vars, credentials, community, setup>>

ServicesSpec == ServicesInit /\ [][ServicesNext]_services

-----------------------------------------------------------------------------
(* Every variable of every service keeps its type.                         *)
TypesOK ==
    /\ service = "membership" => TypeOK
    /\ service = "credentials" => C!TypeOK
    /\ service = "community" => Y!TypeOK
    /\ service = "setup" => E!TypeOK
    /\ service = "monthly" => M!TypeOK

(* People, their rows and their logins agree, each with an email of its    *)
(* own; the code a person was last shown is the one stored, which no other *)
(* resident has if it is a resident's, no other co-resident if it is a     *)
(* co-resident's; no two residents hold one NIN, and nobody passes for a   *)
(* resident with a complete profile who is not, but for what overlapping   *)
(* requests and later changes of the estate's demand leave behind          *)
(* (registration, onboarding, createGuard, reviewResident, verifyNinOnly,  *)
(* completeProfile, co-residents).                                         *)
MembersAreTrue ==
    /\ TypesOK
    /\ service = "membership" => LoginsAgree /\ CodesAreValid /\ ProfilesAreTrue

(* auth.service.ts: a code that was mailed takes a bounded number of       *)
(* guesses, supersedes those before it and sets a password at most once,   *)
(* however requests for codes, guesses and resets overlap.                 *)
ResetsAreEarned == service = "credentials" =>
    C!AttemptsBounded /\ C!OneLiveCode /\ C!ResetsAreEarned

(* Passwords and PINs change only at the hand of who knew the old one or   *)
(* was proven to own the account.                                          *)
SecretsAreReplacedKnowingly ==
    [][service = "credentials" => C!ReplacedKnowingly]_services

(* Votes and messages come from requests that were judged while poll or    *)
(* room was open, and votes for cleared residents from cleared residents.  *)
EntriesAreAllowed == [][service = "community" => Y!EntriesAllowed]_services

(* Counts of likes and comments, rooms, tickets and pins agree with what   *)
(* was done, unless requests were cut off or overlapped without a key.     *)
RecordsAgree == service = "community" => Y!CountsAreTrue /\ Y!NothingTwice

(* Apartment types in use are kept, charges follow their prices, and their *)
(* names tell them apart.                                                  *)
SetupHolds ==
    [][service = "setup" =>
         E!UseIsKept /\ E!ChargesFollowPrices /\ E!NamesDiffer']_services

(* Nobody falls through a round of the monthly levy.                       *)
EveryoneIsCharged == service = "monthly" => M!EveryoneIsCharged
=============================================================================
