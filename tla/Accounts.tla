------------------------------ MODULE Accounts ------------------------------
(***************************************************************************)
(* Accounts, the one-time passwords that prove them, and the sessions that *)
(* keep them logged in.  Every handler awaits the database several times   *)
(* and none uses a transaction, so a step is one access.  A request that   *)
(* is refused changes nothing and is left out.                             *)
(*                                                                         *)
(* A password is the number of times it was chosen, 0 is null.  A refresh  *)
(* token is its number; the hash and the tokenId stand for the token.  The *)
(* rows of email_otps are in the order of createdAt; a phone code has its  *)
(* row in the same table, as a marker that counts what was sent.           *)
(***************************************************************************)
EXTENDS Integers, Sequences, FiniteSets

CONSTANTS
    Users,          \* people, each with one mail address
    Handlers,       \* requests that may run at the same time
    OtpMaxAttempts, \* wrong codes accepted per row
    SendLimit,      \* phone codes sent per user and hour
    MaxRequests,    \* bound on the requests that are begun
    MaxCrashes      \* bound on the restarts of the server

ASSUME AccountsAssumption ==
    /\ IsFiniteSet(Handlers)
    /\ OtpMaxAttempts \in Nat \ {0}
    /\ SendLimit \in Nat \ {0}
    /\ {MaxRequests, MaxCrashes} \subseteq Nat

VARIABLES
    account,        \* users
    otps,           \* email_otps
    sessions,       \* auth_sessions
    lineage,        \* for every refresh token the one it replaced, 0 for a login
    bearer,         \* users who were given an access token
    call,           \* what each request is doing
    requests,       \* requests begun so far
    crashes         \* restarts so far

vars == <<account, otps, sessions, lineage, bearer, call, requests, crashes>>

----------------------------------------------------------------------------
(* Rows and requests *)

Statuses == {"REGISTERED", "EMAIL_VERIFIED", "PROFILE_INCOMPLETE", "ACTIVE", "SUSPENDED"}

\* epoch counts what must end every session: suspensions and password resets.
Account == [status : Statuses, verified : BOOLEAN, country : BOOLEAN,
            password : Nat, google : BOOLEAN, epoch : Nat, suspensions : Nat]

NoAccount == [status |-> "none", password |-> 0, epoch |-> 0]

EmailUser ==
    [status |-> "REGISTERED", verified |-> FALSE, country |-> FALSE, password |-> 1,
     google |-> FALSE, epoch |-> 0, suspensions |-> 0]

GoogleUser ==
    [status |-> "EMAIL_VERIFIED", verified |-> TRUE, country |-> FALSE, password |-> 0,
     google |-> TRUE, epoch |-> 0, suspensions |-> 0]

Otp == [user : Users, kind : {"mail", "phone"}, attempts : Nat,
        state : {"live", "used", "expired"}]

\* epoch is that of the account when the session was stored.
Session == [token : Nat, user : Users, epoch : Nat]

Tokens == DOMAIN lineage

Idle == [at |-> "idle"]

\* A request on its way to mail a new code.
CodeCall == [at : {"code.delete", "code.expire", "code.create"}, user : Users]

\* A code was entered (0 is a wrong one) to verify the address or to reset the
\* password; row and attempts are what was read from the table.
EnterCall == [at : {"code.read", "code.miss", "code.spend"}, for : {"email", "reset"},
              user : Users, entered : Nat, row : Nat, attempts : Nat]

AccountCall ==
    [at : {"signup.create", "google.create", "google.merge", "email.verify",
           "email.reread", "email.incomplete", "password.reset", "password.set",
           "profile.write", "suspend.write", "reactivate.write", "sessions.delete",
           "phone.mark"}, user : Users]

\* A session about to be stored, or the refresh that will store it.
SessionCall == [at : {"refresh.user", "refresh.rotate", "session.create"}, user : Users,
                from : Nat]

Calls == {Idle} \cup CodeCall \cup EnterCall \cup AccountCall \cup SessionCall

Begin(h, c) ==
    /\ call[h] = Idle
    /\ requests < MaxRequests
    /\ requests' = requests + 1
    /\ call' = [call EXCEPT ![h] = c]

Continue(h, c) == call' = [call EXCEPT ![h] = c] /\ UNCHANGED requests
Then(h, where) == Continue(h, [at |-> where, user |-> call[h].user])
StoreNext(h) == Continue(h, [at |-> "session.create", user |-> call[h].user, from |-> 0])
End(h) == Continue(h, Idle)

Exists(u) == account[u] # NoAccount
Status(u) == account[u].status
\* RolesGuard on a route that is open to every role: the token says who asks, the
\* row says whether they may.
MayAsk(u) == u \in bearer /\ Exists(u) /\ Status(u) # "SUSPENDED"

\* OnboardingGuard asks for a complete profile as well.
MayWalk(u) == MayAsk(u) /\ Status(u) # "PROFILE_INCOMPLETE"

----------------------------------------------------------------------------
(* One-time passwords *)

LiveOtps(u) == {i \in DOMAIN otps : otps[i].user = u /\ otps[i].state = "live"}

\* findFirst of the unused rows that have not expired, latest first; 0 is null.
\* Markers of phone codes are among them.
LatestOtp(u) ==
    IF LiveOtps(u) = {} THEN 0
    ELSE CHOOSE i \in LiveOtps(u) : \A j \in LiveOtps(u) : j <= i

IsOtpBlocked(u) == LatestOtp(u) # 0 /\ otps[LatestOtp(u)].attempts >= OtpMaxAttempts

NewOtp(u, kind) == [user |-> u, kind |-> kind, attempts |-> 0, state |-> "live"]

UseAll(u) == otps' = [i \in DOMAIN otps |->
                         IF i \in LiveOtps(u) THEN [otps[i] EXCEPT !.state = "used"]
                         ELSE otps[i]]

\* Before the address is verified.  A limit per hour, kept in memory, refuses some
\* requests before anything is looked at.
ResendOtp(h, u) ==
    /\ Status(u) = "REGISTERED"
    /\ Begin(h, [at |-> "code.delete", user |-> u])
    /\ UNCHANGED <<account, otps, sessions, lineage, bearer, crashes>>

\* Afterwards, whatever the status.
ForgotPassword(h, u) ==
    /\ Status(u) \notin {"none", "REGISTERED"}
    /\ Begin(h, [at |-> "code.delete", user |-> u])
    /\ UNCHANGED <<account, otps, sessions, lineage, bearer, crashes>>

DeleteOtp(h) ==
    /\ call[h].at = "code.delete"
    /\ UseAll(call[h].user)
    /\ Then(h, "code.expire")
    /\ UNCHANGED <<account, sessions, lineage, bearer, crashes>>

\* storeOtp marks what is unused, hashes the code and inserts it.
ExpireOtps(h) ==
    /\ call[h].at = "code.expire"
    /\ UseAll(call[h].user)
    /\ Then(h, "code.create")
    /\ UNCHANGED <<account, sessions, lineage, bearer, crashes>>

StoreOtp(h) ==
    /\ call[h].at = "code.create"
    /\ otps' = Append(otps, NewOtp(call[h].user, "mail"))
    /\ End(h)
    /\ UNCHANGED <<account, sessions, lineage, bearer, crashes>>

EnterCode(h, u, purpose, code) ==
    /\ Exists(u)
    /\ ~IsOtpBlocked(u)
    /\ code # 0 => otps[code].user = u /\ otps[code].kind = "mail"
    /\ Begin(h, [at |-> "code.read", for |-> purpose, user |-> u, entered |-> code,
                 row |-> 0, attempts |-> 0])
    /\ UNCHANGED <<account, otps, sessions, lineage, bearer, crashes>>

\* The hash of a marker matches no code.
ReadOtp(h) ==
    LET row == LatestOtp(call[h].user)
    IN  /\ call[h].at = "code.read"
        /\ IF row = 0 \/ IsOtpBlocked(call[h].user) THEN End(h)
           ELSE Continue(h, [call[h] EXCEPT
                    !.at = IF row = call[h].entered THEN "code.spend" ELSE "code.miss",
                    !.row = row, !.attempts = otps[row].attempts])
        /\ UNCHANGED <<account, otps, sessions, lineage, bearer, crashes>>

\* Mutant: the attempts are counted down.
MissOtpDown(h) ==
    /\ call[h].at = "code.miss"
    /\ otps' = [otps EXCEPT ![call[h].row].attempts = call[h].attempts - 1]
    /\ End(h)
    /\ UNCHANGED <<account, sessions, lineage, bearer, crashes>>

\* The number of attempts is written from the value that was read.
MissOtp(h) ==
    /\ call[h].at = "code.miss"
    /\ otps' = [otps EXCEPT ![call[h].row].attempts = call[h].attempts + 1]
    /\ End(h)
    /\ UNCHANGED <<account, sessions, lineage, bearer, crashes>>

SpendOtp(h) ==
    /\ call[h].at = "code.spend"
    /\ otps' = [otps EXCEPT ![call[h].row].state = "used"]
    /\ Then(h, IF call[h].for = "email" THEN "email.verify" ELSE "password.reset")
    /\ UNCHANGED <<account, sessions, lineage, bearer, crashes>>

----------------------------------------------------------------------------
(* Phone codes *)

\* Counted whether used or not: a new mail code marks the markers used.
SentThisHour(u) ==
    {i \in DOMAIN otps : otps[i].user = u /\ otps[i].kind = "phone" /\ otps[i].state # "expired"}

\* Mutant: only the markers that are unused count.
SendOtpUnused(h, u) ==
    /\ MayWalk(u)
    /\ Cardinality({i \in SentThisHour(u) : otps[i].state = "live"}) < SendLimit
    /\ Begin(h, [at |-> "phone.mark", user |-> u])
    /\ UNCHANGED <<account, otps, sessions, lineage, bearer, crashes>>

SendOtp(h, u) ==
    /\ MayWalk(u)
    /\ Cardinality(SentThisHour(u)) < SendLimit
    /\ Begin(h, [at |-> "phone.mark", user |-> u])
    /\ UNCHANGED <<account, otps, sessions, lineage, bearer, crashes>>

MarkSent(h) ==
    /\ call[h].at = "phone.mark"
    /\ otps' = Append(otps, NewOtp(call[h].user, "phone"))
    /\ End(h)
    /\ UNCHANGED <<account, sessions, lineage, bearer, crashes>>

----------------------------------------------------------------------------
(* Making an account *)

Signup(h, u) ==
    /\ ~Exists(u)
    /\ Begin(h, [at |-> "signup.create", user |-> u])
    /\ UNCHANGED <<account, otps, sessions, lineage, bearer, crashes>>

\* The address is unique: the second of two requests fails.
CreateUser(h) ==
    LET u == call[h].user
    IN  /\ call[h].at = "signup.create"
        /\ IF Exists(u) THEN End(h) /\ UNCHANGED account
           ELSE /\ account' = [account EXCEPT ![u] = EmailUser]
                /\ Then(h, "code.expire")
        /\ UNCHANGED <<otps, sessions, lineage, bearer, crashes>>

\* Google vouches for the address: the account is found by its googleId, by its
\* address, or not at all.  The status is not looked at.
HandleGoogleLogin(h, u) ==
    /\ IF ~Exists(u) THEN Begin(h, [at |-> "google.create", user |-> u])
       ELSE IF account[u].google
       THEN Begin(h, [at |-> "session.create", user |-> u, from |-> 0])
       ELSE Begin(h, [at |-> "google.merge", user |-> u])
    /\ UNCHANGED <<account, otps, sessions, lineage, bearer, crashes>>

MergeGoogleAccount(h) ==
    /\ call[h].at = "google.merge"
    /\ account' = [account EXCEPT ![call[h].user].google = TRUE,
                                  ![call[h].user].verified = TRUE]
    /\ StoreNext(h)
    /\ UNCHANGED <<otps, sessions, lineage, bearer, crashes>>

\* A new account has no country, so its profile is incomplete at once.
CreateGoogleUser(h) ==
    LET u == call[h].user
    IN  /\ call[h].at = "google.create"
        /\ IF Exists(u) THEN End(h) /\ UNCHANGED account
           ELSE /\ account' = [account EXCEPT ![u] = GoogleUser]
                /\ Then(h, "email.incomplete")
        /\ UNCHANGED <<otps, sessions, lineage, bearer, crashes>>

\* Mutant: a verified address makes the account active.
UpdateEmailActive(h) ==
    /\ call[h].at = "email.verify"
    /\ account' = [account EXCEPT ![call[h].user].verified = TRUE,
                                  ![call[h].user].status = "ACTIVE"]
    /\ Then(h, "email.reread")
    /\ UNCHANGED <<otps, sessions, lineage, bearer, crashes>>

\* Whatever the status was.
UpdateEmailVerified(h) ==
    /\ call[h].at = "email.verify"
    /\ account' = [account EXCEPT ![call[h].user].verified = TRUE,
                                  ![call[h].user].status = "EMAIL_VERIFIED"]
    /\ Then(h, "email.reread")
    /\ UNCHANGED <<otps, sessions, lineage, bearer, crashes>>

RereadUser(h) ==
    /\ call[h].at = "email.reread"
    /\ IF account[call[h].user].country THEN StoreNext(h) ELSE Then(h, "email.incomplete")
    /\ UNCHANGED <<account, otps, sessions, lineage, bearer, crashes>>

MarkIncomplete(h) ==
    /\ call[h].at = "email.incomplete"
    /\ account' = [account EXCEPT ![call[h].user].status = "PROFILE_INCOMPLETE"]
    /\ StoreNext(h)
    /\ UNCHANGED <<otps, sessions, lineage, bearer, crashes>>

CompleteProfile(h, u) ==
    /\ MayAsk(u)
    /\ Status(u) \in {"PROFILE_INCOMPLETE", "EMAIL_VERIFIED"}
    /\ Begin(h, [at |-> "profile.write", user |-> u])
    /\ UNCHANGED <<account, otps, sessions, lineage, bearer, crashes>>

UpdateCountry(h) ==
    /\ call[h].at = "profile.write"
    /\ account' = [account EXCEPT ![call[h].user].country = TRUE,
                                  ![call[h].user].status = "ACTIVE"]
    /\ End(h)
    /\ UNCHANGED <<otps, sessions, lineage, bearer, crashes>>

----------------------------------------------------------------------------
(* Passwords *)

\* Only for an account without one; the update does not say so.
SetPassword(h, u) ==
    /\ MayAsk(u)
    /\ account[u].password = 0
    /\ Begin(h, [at |-> "password.set", user |-> u])
    /\ UNCHANGED <<account, otps, sessions, lineage, bearer, crashes>>

StorePassword(h) ==
    /\ call[h].at = "password.set"
    /\ account' = [account EXCEPT ![call[h].user].password = @ + 1]
    /\ End(h)
    /\ UNCHANGED <<otps, sessions, lineage, bearer, crashes>>

\* Mutant: the sessions are left alone.
ResetPasswordOnly(h) ==
    /\ call[h].at = "password.reset"
    /\ account' = [account EXCEPT ![call[h].user].password = @ + 1,
                                  ![call[h].user].epoch = @ + 1]
    /\ End(h)
    /\ UNCHANGED <<otps, sessions, lineage, bearer, crashes>>

\* A reset is to end what the old password has opened.
ResetPassword(h) ==
    /\ call[h].at = "password.reset"
    /\ account' = [account EXCEPT ![call[h].user].password = @ + 1,
                                  ![call[h].user].epoch = @ + 1]
    /\ Then(h, "sessions.delete")
    /\ UNCHANGED <<otps, sessions, lineage, bearer, crashes>>

----------------------------------------------------------------------------
(* Sessions *)

SessionsOf(u) == {s \in sessions : s.user = u}

\* Mutant: login does not ask for a verified address.
LoginUnverified(h, u) ==
    /\ Status(u) \notin {"none", "SUSPENDED"}
    /\ account[u].password # 0
    /\ Begin(h, [at |-> "session.create", user |-> u, from |-> 0])
    /\ UNCHANGED <<account, otps, sessions, lineage, bearer, crashes>>

Login(h, u) ==
    /\ Status(u) \notin {"none", "REGISTERED", "SUSPENDED"}
    /\ account[u].password # 0
    /\ Begin(h, [at |-> "session.create", user |-> u, from |-> 0])
    /\ UNCHANGED <<account, otps, sessions, lineage, bearer, crashes>>

\* The answer carries the access token as well.
CreateSession(h) ==
    LET u == call[h].user
    IN  /\ call[h].at = "session.create"
        /\ lineage' = Append(lineage, call[h].from)
        /\ sessions' = sessions \cup {[token |-> Len(lineage) + 1, user |-> u,
                                       epoch |-> account[u].epoch]}
        /\ bearer' = bearer \cup {u}
        /\ End(h)
        /\ UNCHANGED <<account, otps, crashes>>

RefreshToken(h, s) ==
    /\ Begin(h, [at |-> "refresh.user", user |-> s.user, from |-> s.token])
    /\ UNCHANGED <<account, otps, sessions, lineage, bearer, crashes>>

CheckUser(h) ==
    /\ call[h].at = "refresh.user"
    /\ IF Status(call[h].user) = "SUSPENDED" THEN Then(h, "sessions.delete")
       ELSE Continue(h, [call[h] EXCEPT !.at = "refresh.rotate"])
    /\ UNCHANGED <<account, otps, sessions, lineage, bearer, crashes>>

\* Mutant: the number of deleted rows is not looked at.
RotateAnyway(h) ==
    /\ call[h].at = "refresh.rotate"
    /\ sessions' = {s \in sessions : s.token # call[h].from}
    /\ Continue(h, [call[h] EXCEPT !.at = "session.create"])
    /\ UNCHANGED <<account, otps, lineage, bearer, crashes>>

\* Who deletes the row may replace it.
Rotate(h) ==
    LET own == {s \in sessions : s.token = call[h].from}
    IN  /\ call[h].at = "refresh.rotate"
        /\ sessions' = sessions \ own
        /\ IF own = {} THEN End(h)
           ELSE Continue(h, [call[h] EXCEPT !.at = "session.create"])
        /\ UNCHANGED <<account, otps, lineage, bearer, crashes>>

DeleteSessions(h) ==
    /\ call[h].at = "sessions.delete"
    /\ sessions' = sessions \ SessionsOf(call[h].user)
    /\ End(h)
    /\ UNCHANGED <<account, otps, lineage, bearer, crashes>>

----------------------------------------------------------------------------
(* The administrator *)

SuspendUser(h, u) ==
    /\ Status(u) \notin {"none", "SUSPENDED"}
    /\ Begin(h, [at |-> "suspend.write", user |-> u])
    /\ UNCHANGED <<account, otps, sessions, lineage, bearer, crashes>>

WriteSuspended(h) ==
    /\ call[h].at = "suspend.write"
    /\ account' = [account EXCEPT ![call[h].user].status = "SUSPENDED",
                                  ![call[h].user].epoch = @ + 1,
                                  ![call[h].user].suspensions = @ + 1]
    /\ Then(h, "sessions.delete")
    /\ UNCHANGED <<otps, sessions, lineage, bearer, crashes>>

ReactivateUser(h, u) ==
    /\ Status(u) = "SUSPENDED"
    /\ Begin(h, [at |-> "reactivate.write", user |-> u])
    /\ UNCHANGED <<account, otps, sessions, lineage, bearer, crashes>>

\* ACTIVE, whatever the status was before the suspension.
WriteReactivated(h) ==
    /\ call[h].at = "reactivate.write"
    /\ account' = [account EXCEPT ![call[h].user].status = "ACTIVE"]
    /\ End(h)
    /\ UNCHANGED <<otps, sessions, lineage, bearer, crashes>>

----------------------------------------------------------------------------
(* Time and restarts *)

Quiet == \A h \in Handlers : call[h] = Idle

\* Ten minutes for a mail code; an hour for a marker, used or not.
OtpExpires(i) ==
    /\ Quiet
    /\ otps[i].state = "live" \/ (otps[i].kind = "phone" /\ otps[i].state = "used")
    /\ otps' = [otps EXCEPT ![i].state = "expired"]
    /\ UNCHANGED <<account, sessions, lineage, bearer, call, requests, crashes>>

\* Logged out, or past its seven days: a row that has expired is found by no
\* request, and is removed when the server starts.
SessionEnds(s) ==
    /\ sessions' = sessions \ {s}
    /\ UNCHANGED <<account, otps, lineage, bearer, call, requests, crashes>>

Restart ==
    /\ crashes < MaxCrashes
    /\ crashes' = crashes + 1
    /\ call' = [h \in Handlers |-> Idle]
    /\ UNCHANGED <<account, otps, sessions, lineage, bearer, requests>>

Init ==
    /\ account = [u \in Users |-> NoAccount]
    /\ otps = <<>>
    /\ sessions = {}
    /\ lineage = <<>>
    /\ bearer = {}
    /\ call = [h \in Handlers |-> Idle]
    /\ requests = 0
    /\ crashes = 0

Ask(h, u) ==
    \/ Signup(h, u) \/ HandleGoogleLogin(h, u) \/ Login(h, u)
    \/ ResendOtp(h, u) \/ ForgotPassword(h, u) \/ SendOtp(h, u)
    \/ \E purpose \in {"email", "reset"}, code \in {0} \cup DOMAIN otps :
           EnterCode(h, u, purpose, code)
    \/ CompleteProfile(h, u) \/ SetPassword(h, u)
    \/ \E s \in SessionsOf(u) : RefreshToken(h, s)
    \/ SuspendUser(h, u) \/ ReactivateUser(h, u)

Proceed(h) ==
    \/ DeleteOtp(h) \/ ExpireOtps(h) \/ StoreOtp(h)
    \/ ReadOtp(h) \/ MissOtp(h) \/ SpendOtp(h) \/ MarkSent(h)
    \/ CreateUser(h) \/ MergeGoogleAccount(h) \/ CreateGoogleUser(h)
    \/ UpdateEmailVerified(h) \/ RereadUser(h) \/ MarkIncomplete(h) \/ UpdateCountry(h)
    \/ StorePassword(h) \/ ResetPassword(h)
    \/ CreateSession(h) \/ CheckUser(h) \/ Rotate(h) \/ DeleteSessions(h)
    \/ WriteSuspended(h) \/ WriteReactivated(h)

TimePasses ==
    \/ \E i \in DOMAIN otps : OtpExpires(i)
    \/ \E s \in sessions : SessionEnds(s)

Next ==
    \/ \E h \in Handlers, u \in Users : Ask(h, u)
    \/ \E h \in Handlers : Proceed(h)
    \/ TimePasses
    \/ Restart

Spec == Init /\ [][Next]_vars

----------------------------------------------------------------------------
(* Properties *)

TypeOK ==
    /\ account \in [Users -> Account \cup {NoAccount}]
    /\ otps \in Seq(Otp)
    /\ sessions \in SUBSET Session
    /\ lineage \in Seq(Nat)
    /\ bearer \in SUBSET Users
    /\ requests \in Nat
    /\ call \in [Handlers -> Calls]
    /\ crashes \in Nat

\* A refresh token is exchanged for at most one other, however often and in
\* parallel it is presented, and no session is left of one that was exchanged.
RotatedOnce ==
    /\ \A s, t \in Tokens : lineage[s] = lineage[t] /\ lineage[s] # 0 => s = t
    /\ \A s \in sessions : \A t \in Tokens : lineage[t] # s.token

\* A session stored before its account was suspended, or its password reset, is
\* gone as soon as that request has ended.  (A session stored afterwards by a
\* login or a refresh that read the account before is not covered, and neither is
\* a server that stops between the two writes.)
RevokedSessionsGone ==
    crashes = 0 =>
        \A s \in sessions : s.epoch < account[s.user].epoch =>
            \E h \in Handlers : call[h].at = "sessions.delete" /\ call[h].user = s.user

\* Nobody has a session who has not proved the address, by a code or by Google,
\* unless an administrator has suspended and reactivated the account before that.
SessionsAreVerified ==
    \A s \in sessions : account[s.user].verified \/ account[s.user].suspensions > 0

\* An account whose profile counts as complete has a country, unless it was
\* reactivated; verifying again, which resets the status, keeps the country.
ActiveIsComplete ==
    \A u \in Users : Status(u) = "ACTIVE" =>
        account[u].country \/ account[u].suspensions > 0

\* Parallel requests count the codes before any of them has added its own; even so
\* no more are sent per hour than the limit and one for every other request, and
\* asking for a mail code, which marks the markers used, does not help.
SendsWithinLimit ==
    \A u \in Users : Cardinality(SentThisHour(u)) <= SendLimit + Cardinality(Handlers) - 1

\* The rows have their types, sessions belong to proved accounts and complete accounts
\* are complete: what the handlers that write an account one column at a time leave.
AccountsSound == TypeOK /\ SessionsAreVerified /\ ActiveIsComplete
=============================================================================
