------------------------------- MODULE Accounts -------------------------------
(*****************************************************************************)
(* A user's row and what hangs on it: sign-up, e-mail verification, password *)
(* reset and two-factor set-up (src/auth/routes.ts), the creator profile     *)
(* (src/routes/creators.ts, src/routes/kyc.ts) and the link of a wallet to   *)
(* its viewer (src/routes/payments.ts).                                      *)
(*                                                                           *)
(* A call is one HTTP request; a step of it is one statement or queue        *)
(* command.  None of these handlers opens a transaction, so every call may   *)
(* end between two of its steps.  A password, a secret or a token is named   *)
(* by the call that chose or generated it: each of these is random.  A row   *)
(* that has expired is treated like one that is gone, as the handlers do.    *)
(*****************************************************************************)
CONSTANTS
  Calls,       \* the requests that are made
  Users,       \* e-mail addresses, each with at most one account
  Registered,  \* users whose account is older than the model's behaviour
  CarefulUsers, \* users who make one 2FA call and use one reset token at a time,
               \* and set up 2FA only while GET /auth/me says that it is disabled
  MayFail,     \* TRUE: a statement throws, or the process or the answer is lost
  None

Ops == {"signup", "verify", "forgot", "reset", "setup", "enable", "disable",
        "overlay", "regenerate", "kyc", "link"}

ASSUME AccountAssumption ==
  /\ Registered \subseteq Users
  /\ CarefulUsers \subseteq Users
  /\ MayFail \in BOOLEAN
  /\ None \notin Calls \cup Users

VARIABLES
  user,    \* users and creator_profiles, one record per address
  rows,    \* email_verifications, password_resets, kyc_submissions
  mailed,  \* the tokens that reached the e-mail queue
  wallet,  \* wallets.user_id of the wallet that is linked
  call     \* where each call is

accountVars == <<user, rows, mailed, wallet, call>>

CallOrNone == Calls \cup {None}
UserRecord == [exists : BOOLEAN, id : CallOrNone, password : CallOrNone, verified : BOOLEAN,
               secret : CallOrNone, enabled : BOOLEAN,
               profile : BOOLEAN, overlay : CallOrNone, pending : BOOLEAN]

\* A user nothing has happened to since the row was inserted.
FreshUser(c, exists, profile) ==
  [exists |-> exists, id |-> c, password |-> c, verified |-> FALSE, secret |-> None, enabled |-> FALSE,
   profile |-> profile, overlay |-> None, pending |-> FALSE]

\* The row as users inserts it, before its creator profile is.
NewUser(c) == FreshUser(c, TRUE, FALSE)

IdleCall == [op |-> None, at |-> "idle", u |-> None, seen |-> None]

AccountInit ==
  /\ user = [u \in Users |-> FreshUser(None, u \in Registered, u \in Registered)]
  /\ rows = {} /\ mailed = {} /\ wallet = None
  /\ call = [c \in Calls |-> IdleCall]

-----------------------------------------------------------------------------
\* A call is over when it is answered ("done" below 300, "refused" with a 4xx)
\* or never will be ("failed": 500, or nothing).
Over == {"idle", "done", "refused", "failed"}
UnderWay(c) == call[c].at \notin Over

Exclusive == {{"setup", "enable", "disable"}, {"reset"}}

MayCall(u, op) ==
  u \in CarefulUsers =>
    /\ \A F \in Exclusive, c \in Calls :
         op \in F /\ call[c].u = u /\ call[c].op \in F => ~UnderWay(c)
    /\ op = "setup" => ~user[u].enabled

PutCall(c, op, at, u, seen) ==
  call' = [call EXCEPT ![c] = [op |-> op, at |-> at, u |-> u, seen |-> seen]]

Begin(c, op, u, seen, at) ==
  /\ call[c].at = "idle"
  /\ MayCall(u, op)
  /\ PutCall(c, op, at, u, seen)
  /\ UNCHANGED <<user, rows, mailed, wallet>>

At(c, place) == call[c].at = place
Me(c) == user[call[c].u]
Proceed(c, at, seen) == PutCall(c, call[c].op, at, call[c].u, seen)
Goto(c, at) == Proceed(c, at, call[c].seen)
Known(u) == user[u].exists

-----------------------------------------------------------------------------
(* Sign-up and verification.                                               *)

Signup(c, u) == Begin(c, "signup", u, None, IF Known(u) THEN "refused" ELSE "user")

\* The unique index on the address refuses the second of two inserts: 500.
OnConflictDoNothing == "profile"                                   \* mutant
OnConflict == "failed"

InsertUser(c) ==
  /\ At(c, "user")
  /\ \/ ~Me(c).exists /\ user' = [user EXCEPT ![call[c].u] = NewUser(c)] /\ Goto(c, "profile")
     \/ Me(c).exists /\ Goto(c, OnConflict) /\ UNCHANGED user
  /\ UNCHANGED <<rows, mailed, wallet>>

InsertProfile(c) ==
  /\ At(c, "profile")
  /\ user' = [user EXCEPT ![call[c].u].profile = TRUE]
  /\ Goto(c, "verification")
  /\ UNCHANGED <<rows, mailed, wallet>>

\* The row of a token, or of a submission.
Insert(c, place, table, next) ==
  /\ At(c, place)
  /\ rows' = rows \cup {<<table, c>>}
  /\ Goto(c, next)
  /\ UNCHANGED <<user, mailed, wallet>>

InsertVerification(c) == Insert(c, "verification", "verification", "mail")
InsertReset(c) == Insert(c, "reset", "reset", "mail")
InsertSubmission(c) == Insert(c, "submission", "submission", "pending")

\* queues.email.add(...): from now on the user may present the token.
MailToken(c) ==
  /\ At(c, "mail")
  /\ mailed' = mailed \cup {c}
  /\ Goto(c, "answer")
  /\ UNCHANGED <<user, rows, wallet>>

\* What is left of a handler, a session or an audit row, and its answer.
AnswerCall(c) ==
  /\ At(c, "answer")
  /\ Goto(c, "done")
  /\ UNCHANGED <<user, rows, mailed, wallet>>

Fails(c) ==
  /\ MayFail
  /\ UnderWay(c)
  /\ Goto(c, "failed")
  /\ UNCHANGED <<user, rows, mailed, wallet>>

\* select ... where token_hash = tokenHash: the row of a token that was mailed.
PresentToken(c, op, table, t, at) ==
  /\ t \in mailed
  /\ Begin(c, op, call[t].u, t, IF <<table, t>> \in rows THEN at ELSE "refused")

VerifyEmail(c, t) == call[t].op = "signup" /\ PresentToken(c, "verify", "verification", t, "markVerified")

MarkVerified(c) ==
  /\ At(c, "markVerified")
  /\ user' = [user EXCEPT ![call[c].u].verified = TRUE]
  /\ Goto(c, "dropVerification")
  /\ UNCHANGED <<rows, mailed, wallet>>

DropKept(c, table) == {}                                           \* mutant
Drop(c, table) == {<<table, call[c].seen>>}

DropToken(c, place, table) ==
  /\ At(c, place)
  /\ rows' = rows \ Drop(c, table)
  /\ Goto(c, "answer")
  /\ UNCHANGED <<user, mailed, wallet>>

DropVerification(c) == DropToken(c, "dropVerification", "verification")

\* A token's expires_at passes.
ExpireToken(t) ==
  /\ \E table \in {"verification", "reset"} :
       <<table, t>> \in rows /\ rows' = rows \ {<<table, t>>}
  /\ UNCHANGED <<user, mailed, wallet, call>>

-----------------------------------------------------------------------------
(* Password reset.                                                         *)

\* Answered 200 whether the address is known or not.
Forgot(c, u) == Begin(c, "forgot", u, None, IF Known(u) THEN "reset" ELSE "answer")

Reset(c, t) == call[t].op = "forgot" /\ PresentToken(c, "reset", "reset", t, "password")

SetPassword(c) ==
  /\ At(c, "password")
  /\ user' = [user EXCEPT ![call[c].u].password = c]
  /\ Goto(c, "dropReset")
  /\ UNCHANGED <<rows, mailed, wallet>>

DropReset(c) == DropToken(c, "dropReset", "reset")

-----------------------------------------------------------------------------
(* Two-factor set-up.                                                      *)

\* Secrets whose set-up was answered: the user's authenticator has them.
Authenticator(u) == {c \in Calls : call[c] = [op |-> "setup", at |-> "done", u |-> u, seen |-> None]}

\* A code of one secret is no code of another.
verifyTotp(secret, code) == secret # None /\ code = secret

Setup(c, u) == Known(u) /\ Begin(c, "setup", u, None, "secret")

\* The secret is stored whether 2FA is enabled or not.
StoreSecret(c) ==
  /\ At(c, "secret")
  /\ user' = [user EXCEPT ![call[c].u].secret = c]
  /\ Goto(c, "answer")
  /\ UNCHANGED <<rows, mailed, wallet>>

MayEnableUnproved(u, code) == user[u].secret # None                \* mutant
MayEnable(u, code) == verifyTotp(user[u].secret, code)

Enable(c, u, code) ==
  /\ code \in Authenticator(u)
  /\ Begin(c, "enable", u, code, IF MayEnable(u, code) THEN "enable" ELSE "refused")

SetEnabled(c) ==
  /\ At(c, "enable")
  /\ user' = [user EXCEPT ![call[c].u].enabled = TRUE]
  /\ Goto(c, "answer")
  /\ UNCHANGED <<rows, mailed, wallet>>

Disable(c, u, code) ==
  /\ code \in Authenticator(u)
  /\ Begin(c, "disable", u, code,
           IF user[u].enabled /\ verifyTotp(user[u].secret, code) THEN "disable" ELSE "refused")

SetDisabled(c) ==
  /\ At(c, "disable")
  /\ user' = [user EXCEPT ![call[c].u] = [[Me(c) EXCEPT !.enabled = FALSE] EXCEPT !.secret = None]]
  /\ Goto(c, "answer")
  /\ UNCHANGED <<rows, mailed, wallet>>

\* What require2FA and POST /auth/login ask for.
Passes2FA(row, code) == row.enabled /\ verifyTotp(row.secret, code)
LoginAccepts(row, password, code) ==
  row.exists /\ row.password = password /\ (~row.enabled \/ Passes2FA(row, code))

-----------------------------------------------------------------------------
(* The creator profile: overlay token and KYC.                             *)

\* A creator whose token exists is given it; one without a profile gets 404.
OverlayToken(c, u) ==
  /\ Known(u)
  /\ Begin(c, "overlay", u, user[u].overlay,
           IF ~user[u].profile THEN "refused" ELSE IF user[u].overlay # None THEN "answer" ELSE "overlay")

NoTokenYetBlind(c) == TRUE                                         \* mutant
NoTokenYet(c) == Me(c).overlay = None

StoreToken(c, at) ==
  /\ user' = [user EXCEPT ![call[c].u].overlay = c]
  /\ Proceed(c, at, c)

\* getOrCreateOverlayToken: the update is guarded by overlay_token is null.
CompareAndSet(c) ==
  /\ At(c, "overlay")
  /\ \/ NoTokenYet(c) /\ StoreToken(c, "answer")
     \/ ~NoTokenYet(c) /\ Goto(c, "reread") /\ UNCHANGED user
  /\ UNCHANGED <<rows, mailed, wallet>>

RereadToken(c) ==
  /\ At(c, "reread")
  /\ Proceed(c, "answer", Me(c).overlay)
  /\ UNCHANGED <<user, rows, mailed, wallet>>

Regenerate(c, u) ==
  Known(u) /\ Begin(c, "regenerate", u, None, IF user[u].profile THEN "regenerate" ELSE "refused")

OverwriteToken(c) ==
  /\ At(c, "regenerate")
  /\ StoreToken(c, "answer")
  /\ UNCHANGED <<rows, mailed, wallet>>

SubmitKyc(c, u) == Known(u) /\ Begin(c, "kyc", u, None, "submission")

\* The update of a profile that does not exist changes no row, and no one looks.
HasProfile(c) == Me(c).profile

MarkPending(c) ==
  /\ At(c, "pending")
  /\ \/ HasProfile(c) /\ user' = [user EXCEPT ![call[c].u].pending = TRUE]
     \/ ~HasProfile(c) /\ UNCHANGED user
  /\ Goto(c, "answer")
  /\ UNCHANGED <<rows, mailed, wallet>>

-----------------------------------------------------------------------------
(* The wallet link.                                                        *)

LinkWallet(c, u) ==
  Known(u) /\ Begin(c, "link", u, None, IF wallet \in {None, u} THEN "link" ELSE "refused")

\* The update asks for the wallet only, not for the owner the select found.
StoreLink(c) ==
  /\ At(c, "link")
  /\ wallet' = call[c].u
  /\ Goto(c, "answer")
  /\ UNCHANGED <<user, rows, mailed>>

-----------------------------------------------------------------------------
Request(c) ==
  \/ \E u \in Users : \/ Signup(c, u) \/ Forgot(c, u) \/ Setup(c, u)
                      \/ OverlayToken(c, u) \/ Regenerate(c, u) \/ SubmitKyc(c, u) \/ LinkWallet(c, u)
  \/ \E t \in Calls : VerifyEmail(c, t) \/ Reset(c, t)
  \/ \E u \in Users, code \in Calls : Enable(c, u, code) \/ Disable(c, u, code)

Handle(c) ==
  \/ InsertUser(c) \/ InsertProfile(c) \/ InsertVerification(c)
  \/ MarkVerified(c) \/ DropVerification(c)
  \/ InsertReset(c) \/ MailToken(c) \/ SetPassword(c) \/ DropReset(c)
  \/ StoreSecret(c) \/ SetEnabled(c) \/ SetDisabled(c)
  \/ CompareAndSet(c) \/ RereadToken(c) \/ OverwriteToken(c)
  \/ InsertSubmission(c) \/ MarkPending(c) \/ StoreLink(c)
  \/ AnswerCall(c) \/ Fails(c)

AccountNext == \E c \in Calls : Request(c) \/ Handle(c) \/ ExpireToken(c)
AccountSpec == AccountInit /\ [][AccountNext]_accountVars

-----------------------------------------------------------------------------
(* What users rely on.                                                     *)

Done(c, op) == call[c].op = op /\ call[c].at = "done"

\* Every variable keeps its type; a profile belongs to a user, and its columns
\* are set in a profile only.
AccountTypeOK ==
  /\ user \in [Users -> UserRecord]
  /\ \A u \in Users : /\ user[u].profile => user[u].exists
                      /\ (user[u].overlay # None \/ user[u].pending) => user[u].profile
  /\ rows \subseteq {"verification", "reset", "submission"} \X Calls
  /\ mailed \subseteq Calls
  /\ wallet \in Users \cup {None}
  /\ \A c \in Calls : call[c].op \in Ops \cup {None} /\ call[c].u \in Users \cup {None}
                      /\ call[c].seen \in CallOrNone

\* A sign-up that was answered 201 owns the account of its address and has a
\* creator profile, whoever else signed up with that address at the same time.
WelcomedOwnsAccount ==
  \A c \in Calls : Done(c, "signup") => user[call[c].u].id = c /\ user[call[c].u].profile

\* A reset token whose use was answered never sets a password again, for users
\* who use one at a time; until then a call that died may be repeated.
SpentStaysSpentFor(U) ==
  \A c, d \in Calls :
    Done(d, "reset") /\ At(c, "password") /\ call'[c].at = "dropReset" /\ call[c].u \in U
      => call[c].seen # call[d].seen
SpentStaysSpent == [][SpentStaysSpentFor(CarefulUsers)]_accountVars
EverySpentStaysSpent == [][SpentStaysSpentFor(Users)]_accountVars

\* A user can log in with a password they chose and, once 2FA is enabled, a
\* code of a secret they were shown: neither a set-up or enabling that died
\* half-way nor a disabling locks them out.
CanLogIn(u) ==
  \E password \in {None} \cup {c \in Calls : call[c].u = u /\ call[c].op \in {"signup", "reset"}},
     code \in {None} \cup Authenticator(u) : LoginAccepts(user[u], password, code)
NeverLockedOut == \A u \in CarefulUsers : user[u].exists => CanLogIn(u)
NobodyLockedOut == \A u \in Users : user[u].exists => CanLogIn(u)

\* "two concurrent requests for the same creator can't each generate a
\* different token" (creators.ts:98-100): of the tokens that GET generated,
\* whoever asks is only ever given one.
OneLazyToken ==
  \A c, d \in Calls :
    /\ Done(c, "overlay") /\ Done(d, "overlay") /\ call[c].u = call[d].u
    /\ call[call[c].seen].op = "overlay" /\ call[call[d].seen].op = "overlay"
    => call[c].seen = call[d].seen

\* "Every signed-up user gets a creatorProfiles row at signup"
\* (sockets/index.ts:60), and a KYC submission that was answered 201 therefore
\* shows in the profile that decides about cashouts.
SubmissionShows == \A c \in Calls : Done(c, "kyc") => user[call[c].u].pending

\* A user who was answered that a wallet is linked to them owns it.
LinkedStaysLinked == \A c \in Calls : Done(c, "link") => wallet = call[c].u
=============================================================================
