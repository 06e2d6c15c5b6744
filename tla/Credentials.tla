----------------------------- MODULE Credentials -----------------------------
(***************************************************************************)
(* Passwords, wallet PINs and the one-time codes that reset a password     *)
(* (src/apis/auth/auth.service.ts).                                        *)
(*                                                                         *)
(* A reset takes three requests: one that issues a code, one that proves   *)
(* to have received it, one that sets the password.  Each is several       *)
(* statements, and hashing or comparing lies between reading and writing.  *)
(* A secret is the number of the request that chose it.                    *)
(***************************************************************************)
EXTENDS Integers, FiniteSets, FiniteSetsExt, Server

CONSTANTS
    Users,
    MaxOtps,        \* bound on the codes ever issued
    MaxSecrets,     \* bound on the secrets ever chosen
    AttemptLimit    \* wrong guesses after which a code is refused

Otps    == 1..MaxOtps       \* in the order of createdAt
Secrets == 0..MaxSecrets
Kinds   == {"password", "pin"}

VARIABLES
    secret,         \* User.password, Resident.wallet_pin
    chosen,         \* number of secrets chosen so far
    issued,         \* number of PasswordResetOtp rows ever created
    otp,            \* PasswordResetOtp rows
    tokens,         \* codes whose reset token was answered
    pc, job,        \* a request: position, arguments and what it has read
    mailed,         \* history: codes that reached their user
    resets,         \* history: how often a code set a password
    proven,         \* history: codes that were guessed right
    crossed,        \* history: users two requests asked codes for at a time
    raced           \* history: secrets written while a request that judged
                    \* them was under way

rows    == <<secret, chosen, issued, otp, tokens>>
request == <<pc, job>>
history == <<mailed, resets, proven, crossed, raced>>
vars    == <<rows, request, history>>

Positions == {"idle", "issue", "mail", "count", "expire", "verify", "reset",
              "change"}
NoOtp == [user |-> None, verified |-> FALSE, expired |-> FALSE, attempts |-> 0]
NoJob == [user |-> None, otp |-> 0, kind |-> "password", known |-> 0, new |-> 0]

Exists(o)  == otp[o].user # None
Live(u)    == {o \in Otps : /\ otp[o].user = u
                            /\ ~otp[o].verified /\ ~otp[o].expired}
Newest(u)  == Max(Live(u))

Init ==
    /\ secret = [u \in Users |-> [k \in Kinds |-> 0]]
    /\ chosen = 0 /\ issued = 0
    /\ otp = [o \in Otps |-> NoOtp]
    /\ tokens = {}
    /\ pc = [t \in Threads |-> "idle"]
    /\ job = [t \in Threads |-> NoJob]
    /\ mailed = {} /\ proven = {} /\ crossed = {} /\ raced = {}
    /\ resets = [o \in Otps |-> 0]

-----------------------------------------------------------------------------
Start(t, position, new) ==
    /\ pc[t] = "idle"
    /\ pc' = [pc EXCEPT ![t] = position]
    /\ job' = [job EXCEPT ![t] = new]

GoTo(t, position) ==
    /\ pc' = [pc EXCEPT ![t] = position]
    /\ UNCHANGED job

Leave(t) ==
    /\ pc' = [pc EXCEPT ![t] = "idle"]
    /\ job' = [job EXCEPT ![t] = NoJob]

(* Any await may throw; an update or delete of a row that is gone does.    *)
Fail(t) ==
    /\ pc[t] # "idle"
    /\ Leave(t)
    /\ UNCHANGED <<rows, history>>

-----------------------------------------------------------------------------
(* forgotPassword: end the codes that were not used, create one, mail it.  *)

Superseded(u) == Live(u)

BeginForgot(t, u) ==
    /\ Start(t, "issue", [NoJob EXCEPT !.user = u])
    /\ otp' = [o \in Otps |-> IF o \in Superseded(u)
                              THEN [otp[o] EXCEPT !.expired = TRUE]
                              ELSE otp[o]]
    /\ crossed' = IF \E s \in Threads : pc[s] = "issue" /\ job[s].user = u
                  THEN crossed \cup {u} ELSE crossed
    /\ UNCHANGED <<secret, chosen, issued, tokens, mailed, resets, proven, raced>>

IssueOtp(t) ==
    /\ pc[t] = "issue" /\ issued < MaxOtps
    /\ issued' = issued + 1
    /\ otp' = [otp EXCEPT ![issued'] = [NoOtp EXCEPT !.user = job[t].user]]
    /\ pc' = [pc EXCEPT ![t] = "mail"]
    /\ job' = [job EXCEPT ![t].otp = issued']
    /\ UNCHANGED <<secret, chosen, tokens, history>>

MailOtp(t) ==
    /\ pc[t] = "mail"
    /\ mailed' = mailed \cup {job[t].otp}
    /\ Leave(t)
    /\ UNCHANGED <<rows, resets, proven, crossed, raced>>

(* Ten minutes pass. *)
OtpExpires(o) ==
    /\ Exists(o) /\ ~otp[o].expired
    /\ otp' = [otp EXCEPT ![o].expired = TRUE]
    /\ UNCHANGED <<secret, chosen, issued, tokens, request, history>>

-----------------------------------------------------------------------------
(* verifyForgotPasswordOtp compares a guess, that is some code's digits,   *)
(* with the newest code that can be used.                                  *)

Exhausted_Never(o) == FALSE
Exhausted(o) == otp[o].attempts >= AttemptLimit

BeginVerify(t, u, guess) ==
    /\ Live(u) # {}
    /\ LET o == Newest(u)
           position == CASE Exhausted(o) -> "expire"
                         [] ~Exhausted(o) /\ guess = o -> "verify"
                         [] OTHER -> "count"
       IN  Start(t, position, [NoJob EXCEPT !.user = u, !.otp = o])
    /\ UNCHANGED <<rows, history>>

CountAttempt(t) ==
    /\ pc[t] = "count" /\ Exists(job[t].otp)
    /\ otp' = [otp EXCEPT ![job[t].otp].attempts = @ + 1]
    /\ Leave(t)
    /\ UNCHANGED <<secret, chosen, issued, tokens, history>>

ExpireOtp(t) ==
    /\ pc[t] = "expire" /\ Exists(job[t].otp)
    /\ otp' = [otp EXCEPT ![job[t].otp].expired = TRUE]
    /\ Leave(t)
    /\ UNCHANGED <<secret, chosen, issued, tokens, history>>

VerifyOtp(t) ==
    /\ pc[t] = "verify" /\ Exists(job[t].otp)
    /\ otp' = [otp EXCEPT ![job[t].otp].verified = TRUE]
    /\ tokens' = tokens \cup {job[t].otp}
    /\ proven' = proven \cup {job[t].otp}
    /\ Leave(t)
    /\ UNCHANGED <<secret, chosen, issued, mailed, resets, crossed, raced>>

-----------------------------------------------------------------------------
(* Secrets. *)

SetSecret(t, u, k, new) ==
    /\ secret' = [secret EXCEPT ![u][k] = new]
    /\ raced' = IF \E s \in Threads \ {t} : /\ pc[s] = "change"
                                            /\ job[s].user = u /\ job[s].kind = k
                THEN raced \cup {<<u, k>>} ELSE raced

Redeemable(o) == Exists(o) /\ otp[o].verified /\ ~otp[o].expired

BeginReset(t, o) ==
    /\ o \in tokens /\ Redeemable(o) /\ chosen < MaxSecrets
    /\ Start(t, "reset", [NoJob EXCEPT !.user = otp[o].user, !.otp = o,
                                       !.new = chosen + 1])
    /\ chosen' = chosen + 1
    /\ UNCHANGED <<secret, issued, otp, tokens, history>>

(* One transaction sets the password and deletes the row; the delete of a  *)
(* row that is gone undoes the password.                                   *)
Consumable(o) == Exists(o)

CommitReset(t) ==
    /\ pc[t] = "reset" /\ Consumable(job[t].otp)
    /\ SetSecret(t, job[t].user, "password", job[t].new)
    /\ otp' = [otp EXCEPT ![job[t].otp] = NoOtp]
    /\ resets' = [resets EXCEPT ![job[t].otp] = @ + 1]
    /\ Leave(t)
    /\ UNCHANGED <<chosen, issued, tokens, mailed, proven, crossed>>

(* changePassword, changePin *)
Matches_Anything(u, k, given) == TRUE
Matches(u, k, given) == given = secret[u][k]

BeginChange(t, u, k, given) ==
    /\ Matches(u, k, given) /\ chosen < MaxSecrets
    /\ Start(t, "change", [NoJob EXCEPT !.user = u, !.kind = k,
                                        !.known = given, !.new = chosen + 1])
    /\ chosen' = chosen + 1
    /\ UNCHANGED <<secret, issued, otp, tokens, history>>

BeginChangePassword(t, u, given) == BeginChange(t, u, "password", given)

BeginChangePin(t, u, given) == BeginChange(t, u, "pin", given)

CommitChange(t) ==
    /\ pc[t] = "change"
    /\ SetSecret(t, job[t].user, job[t].kind, job[t].new)
    /\ Leave(t)
    /\ UNCHANGED <<chosen, issued, otp, tokens, mailed, resets, proven, crossed>>

(* resetPin asks for nothing but the login.                                *)
ResetPin(t, u) ==
    /\ pc[t] = "idle" /\ chosen < MaxSecrets
    /\ chosen' = chosen + 1
    /\ SetSecret(t, u, "pin", chosen')
    /\ UNCHANGED <<issued, otp, tokens, request, mailed, resets, proven, crossed>>

-----------------------------------------------------------------------------
Next ==
    \/ \E t \in Threads, u \in Users :
          \/ BeginForgot(t, u) \/ ResetPin(t, u)
          \/ \E guess \in mailed \cup {0} : BeginVerify(t, u, guess)
          \/ \E given \in Secrets : \/ BeginChangePassword(t, u, given)
                                   \/ BeginChangePin(t, u, given)
    \/ \E t \in Threads, o \in Otps : BeginReset(t, o)
    \/ \E t \in Threads :
          \/ IssueOtp(t) \/ MailOtp(t)
          \/ CountAttempt(t) \/ ExpireOtp(t) \/ VerifyOtp(t)
          \/ CommitReset(t) \/ CommitChange(t)
          \/ Fail(t)
    \/ \E o \in Otps : OtpExpires(o)

Spec == Init /\ [][Next]_vars

-----------------------------------------------------------------------------
Jobs == [user : Users \cup {None}, otp : Otps \cup {0}, kind : Kinds,
         known : Secrets, new : Secrets]

(* Every variable keeps its type.                                          *)
TypeOK ==
    /\ secret \in [Users -> [Kinds -> Secrets]]
    /\ chosen \in Secrets /\ issued \in 0..MaxOtps
    /\ otp \in [Otps -> [user : Users \cup {None}, verified : BOOLEAN,
                         expired : BOOLEAN, attempts : Nat]]
    /\ tokens \subseteq Otps
    /\ pc \in [Threads -> Positions] /\ job \in [Threads -> Jobs]
    /\ mailed \subseteq Otps /\ proven \subseteq Otps
    /\ resets \in [Otps -> Nat]
    /\ crossed \subseteq Users /\ raced \subseteq Users \X Kinds

(* A code takes no more wrong guesses than the limit and one for each      *)
(* other request in flight, which all compare before any counts.           *)
AttemptsBounded ==
    \A o \in Otps : otp[o].attempts < AttemptLimit + Cardinality(Threads)

(* A user has one code that can be used, the newest; requests for codes    *)
(* that overlap may leave as many as there are requests, not more.         *)
OneLiveCode ==
    \A u \in Users :
        /\ Cardinality(Live(u)) <= Cardinality(Threads)
        /\ u \notin crossed => Cardinality(Live(u)) <= 1

(* A code sets a password at most once, however often its token is used    *)
(* and by how many requests at once, and only after it was guessed right   *)
(* by someone it was mailed to.                                            *)
ResetsAreEarned ==
    \A o \in Otps : /\ resets[o] <= 1
                    /\ resets[o] = 1 => o \in proven \cap mailed

(* What replaces a secret was chosen by someone who knew it, or who held a *)
(* code, or, of the PIN, who was logged in; unless it was replaced while   *)
(* the change was under way.                                               *)
ReplacedKnowingly == \A u \in Users, k \in Kinds :
    secret'[u][k] # secret[u][k] /\ <<u, k>> \notin raced =>
        \E t \in Threads :
           \/ pc[t] = "change" /\ job[t].known = secret[u][k]
           \/ pc[t] = "reset" /\ k = "password"
              /\ otp[job[t].otp].user = u
           \/ pc[t] = "idle" /\ k = "pin"

SecretsAreReplacedKnowingly == [][ReplacedKnowingly]_vars
=============================================================================
