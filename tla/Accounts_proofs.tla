--------------------------- MODULE Accounts_proofs ---------------------------
(***************************************************************************)
(* Proofs about Accounts, for any number of users and handlers, and any    *)
(* bounds.                                                                 *)
(***************************************************************************)
EXTENDS Accounts, WellFoundedInduction, FiniteSetTheorems, SequenceTheorems, TLAPS

\* The address was proved, or an administrator has been at the account.
Proved(u) == account[u].verified \/ account[u].suspensions > 0

\* What the columns of an account say of each other.
RowKept(a) ==
    /\ a.google => a.verified \/ a.suspensions > 0
    /\ a.status \in {"EMAIL_VERIFIED", "PROFILE_INCOMPLETE", "ACTIVE"} =>
           a.verified \/ a.suspensions > 0
    /\ a.status = "SUSPENDED" => a.suspensions > 0
    /\ a.status = "ACTIVE" => a.country \/ a.suspensions > 0

\* The stages at which a request holds no account yet, those of a session, and those
\* that are reached by a proved address only.
Unfounded == {"idle", "signup.create", "google.create"}
OfSession == {"refresh.user", "refresh.rotate", "session.create"}
OfProved == OfSession \cup {"email.reread", "email.incomplete", "profile.write"}

\* What a handler holds is there: the account, the row of the code it read, the token
\* it is to replace.
Holds(c) ==
    /\ c.at \notin Unfounded => Exists(c.user)
    /\ c.at \in {"code.miss", "code.spend"} => c.row \in DOMAIN otps
    /\ c.at \in OfProved => Proved(c.user)
    /\ c.at = "reactivate.write" => account[c.user].suspensions > 0
    /\ c.at \in OfSession => c.from <= Len(lineage)

\* The types of everything but the handlers and the sessions, and the accounts.
RowsSound ==
    /\ account \in [Users -> Account \cup {NoAccount}]
    /\ otps \in Seq(Otp)
    /\ lineage \in Seq(Nat)
    /\ bearer \in SUBSET Users
    /\ requests \in Nat
    /\ crashes \in Nat
    /\ \A u \in Users : Exists(u) => RowKept(account[u])

SessionSound(s) == Exists(s.user) /\ Proved(s.user) /\ s.token \in 1..Len(lineage)

SoundInv ==
    /\ TypeOK
    /\ RowsSound
    /\ \A h \in Handlers : Holds(call[h])
    /\ \A s \in sessions : SessionSound(s)

\* Accounts, what they have proved, codes and tokens stay.
Growing ==
    /\ \A u \in Users : Exists(u) =>
           /\ Exists(u)'
           /\ Proved(u) => Proved(u)'
           /\ account[u].suspensions > 0 => account'[u].suspensions > 0
    /\ DOMAIN otps \subseteq DOMAIN otps'
    /\ Len(lineage) <= Len(lineage')

\* A handler that moved holds what is there.
CallMoved ==
    \/ call' = call
    \/ \E h \in Handlers, c \in Calls : call' = [call EXCEPT ![h] = c] /\ Holds(c)'

\* A session that appeared belongs to an account.
SessionsSound == \A s \in sessions' : s \in sessions \/ (s \in Session /\ SessionSound(s)')

\* What any step does.
StepSound == RowsSound' /\ Growing /\ CallMoved /\ SessionsSound

----------------------------------------------------------------------------
(* The code that counts *)

\* A set of positions that is not empty has a last one.
LEMMA LastExists ==
    ASSUME NEW n \in Nat, NEW L \in SUBSET (1..n), L # {}
    PROVE  \E i \in L : \A j \in L : j <= i
<1>. DEFINE R == OpToRel(<, Nat)
            B == {b \in Nat : \A j \in L : j <= b}
<1>1. B \subseteq Nat /\ n \in B
  OBVIOUS
<1>2. IsWellFoundedOn(R, Nat)
  BY NatLessThanWellFounded, Zenon
<1>. HIDE DEF R, B
<1>3. PICK b \in B : \A y \in B : ~(<<y, b>> \in R)
  BY <1>1, <1>2, WFMin, Zenon
<1>4. \A y \in B : ~(y < b)
  <2>. TAKE y \in B
  <2>1. y \in Nat /\ b \in Nat
    BY <1>1
  <2>. QED
    BY <1>3, <2>1 DEF R, OpToRel
<1>5. b \in L
  <2>. SUFFICES ASSUME b \notin L PROVE FALSE
    OBVIOUS
  <2>1. b \in Nat /\ \A j \in L : j <= b /\ j \in 1..n
    BY DEF B
  <2>2. PICK j \in L : TRUE
    OBVIOUS
  <2>3. b - 1 \in B
    BY <2>1, <2>2 DEF B
  <2>. QED
    BY <1>4, <2>1, <2>3
<1>. QED
  BY <1>5 DEF B

LEMMA LatestIsLive ==
    ASSUME otps \in Seq(Otp), NEW u, LatestOtp(u) # 0
    PROVE  LatestOtp(u) \in DOMAIN otps
<1>1. LiveOtps(u) # {}
  BY DEF LatestOtp
<1>2. Len(otps) \in Nat /\ DOMAIN otps = 1..Len(otps)
  BY LenProperties
<1>3. LiveOtps(u) \in SUBSET (1..Len(otps))
  BY <1>2 DEF LiveOtps
<1>4. \E i \in LiveOtps(u) : \A j \in LiveOtps(u) : j <= i
  BY <1>1, <1>2, <1>3, LastExists
<1>5. LatestOtp(u) \in LiveOtps(u)
  BY <1>1, <1>4 DEF LatestOtp
<1>. QED
  BY <1>5 DEF LiveOtps

LEMMA OtpsTyped ==
    ASSUME otps \in Seq(Otp)
    PROVE  /\ Len(otps) \in Nat /\ DOMAIN otps = 1..Len(otps)
           /\ otps \in [1..Len(otps) -> Otp]
           /\ [1..Len(otps) -> Otp] \subseteq Seq(Otp)
           /\ \A f \in [1..Len(otps) -> Otp] : DOMAIN f = DOMAIN otps
<1>1. Len(otps) \in Nat /\ DOMAIN otps = 1..Len(otps) /\ otps \in [1..Len(otps) -> Otp]
  BY LenProperties
<1>2. [1..Len(otps) -> Otp] \subseteq Seq(Otp)
  BY <1>1, SeqDef
<1>. QED
  BY <1>1, <1>2

\* Marking codes as used keeps their number.
LEMMA UseAllTyped ==
    ASSUME otps \in Seq(Otp), NEW u \in Users, UseAll(u)
    PROVE  otps' \in Seq(Otp) /\ DOMAIN otps' = DOMAIN otps
<1>1. \A o \in Otp : [o EXCEPT !.state = "used"] \in Otp
  BY DEF Otp
<1>2. otps' \in [1..Len(otps) -> Otp]
  BY <1>1, OtpsTyped DEF UseAll
<1>. QED
  BY <1>2, OtpsTyped

LEMMA NewOtpTyped ==
    ASSUME otps \in Seq(Otp), NEW u \in Users, NEW kind \in {"mail", "phone"},
           otps' = Append(otps, NewOtp(u, kind))
    PROVE  otps' \in Seq(Otp) /\ DOMAIN otps \subseteq DOMAIN otps'
<1>1. NewOtp(u, kind) \in Otp
  BY DEF NewOtp, Otp
<1>2. otps' \in Seq(Otp) /\ Len(otps') = Len(otps) + 1
  BY <1>1, AppendProperties
<1>3. DOMAIN otps = 1..Len(otps) /\ DOMAIN otps' = 1..Len(otps') /\ Len(otps) \in Nat
  BY <1>2, LenProperties
<1>. QED
  BY <1>2, <1>3

----------------------------------------------------------------------------
(* Steps *)

LEMMA CallShapes ==
    ASSUME NEW c \in Calls
    PROVE  /\ c.at # "idle" => c.user \in Users
           /\ c.at = "idle" => c = Idle
           /\ c.at \in OfSession => c \in SessionCall
           /\ c.at \in {"code.read", "code.miss", "code.spend"} => c \in EnterCall
  BY DEF Calls, Idle, CodeCall, EnterCall, AccountCall, SessionCall, OfSession

LEMMA CallsTyped ==
    ASSUME NEW u \in Users
    PROVE  /\ Idle \in Calls
           /\ \A at \in {"code.delete", "code.expire", "code.create"} :
                  [at |-> at, user |-> u] \in Calls
           /\ \A at \in {"signup.create", "google.create", "google.merge", "email.verify",
                         "email.reread", "email.incomplete", "password.reset", "password.set",
                         "profile.write", "suspend.write", "reactivate.write", "sessions.delete",
                         "phone.mark"} : [at |-> at, user |-> u] \in Calls
           /\ \A at \in OfSession, from \in Nat : [at |-> at, user |-> u, from |-> from] \in Calls
<1>1. Idle \in Calls
  BY DEF Calls
<1>2. \A at \in {"code.delete", "code.expire", "code.create"} : [at |-> at, user |-> u] \in CodeCall
  BY DEF CodeCall
<1>3. \A at \in {"signup.create", "google.create", "google.merge", "email.verify",
                 "email.reread", "email.incomplete", "password.reset", "password.set",
                 "profile.write", "suspend.write", "reactivate.write", "sessions.delete",
                 "phone.mark"} : [at |-> at, user |-> u] \in AccountCall
  BY DEF AccountCall
<1>4. \A at \in OfSession, from \in Nat : [at |-> at, user |-> u, from |-> from] \in SessionCall
  BY DEF SessionCall, OfSession
<1>. QED
  BY <1>1, <1>2, <1>3, <1>4 DEF Calls

LEMMA InitSound == Init => SoundInv
<1>. SUFFICES ASSUME Init PROVE SoundInv
  OBVIOUS
<1>1. RowsSound
  BY DEF Init, RowsSound, Exists
<1>2. TypeOK
  BY <1>1 DEF Init, TypeOK, RowsSound, Calls
<1>3. \A h \in Handlers : Holds(call[h])
  BY DEF Init, Holds, Idle, Unfounded, OfSession, OfProved
<1>. QED
  BY <1>1, <1>2, <1>3 DEF Init, SoundInv

LEMMA SoundFromStep ==
    ASSUME SoundInv, StepSound PROVE SoundInv'
<1>1. call \in [Handlers -> Calls] /\ sessions \in SUBSET Session
  BY DEF SoundInv, TypeOK
<1>2. ASSUME NEW c \in Calls, Holds(c) PROVE Holds(c)'
  <2>1. c.at # "idle" => c.user \in Users
    BY CallShapes
  <2>2. c.at \in OfSession => c.from \in Nat
    BY CallShapes DEF SessionCall
  <2>3. Len(lineage) \in Nat /\ Len(lineage') \in Nat
    BY LenProperties DEF SoundInv, StepSound, RowsSound
  <2>4. c.at \notin Unfounded => Exists(c.user)'
    BY <1>2, <2>1 DEF StepSound, Growing, Holds, Unfounded
  <2>5. c.at \in {"code.miss", "code.spend"} => c.row \in DOMAIN otps'
    BY <1>2 DEF StepSound, Growing, Holds
  <2>6. c.at \in OfProved => Proved(c.user)'
    BY <1>2, <2>1 DEF StepSound, Growing, Holds, Unfounded, OfProved, OfSession
  <2>7. c.at = "reactivate.write" => account'[c.user].suspensions > 0
    BY <1>2, <2>1 DEF StepSound, Growing, Holds, Unfounded
  <2>8. c.at \in OfSession => c.from <= Len(lineage')
    BY <1>2, <2>2, <2>3 DEF StepSound, Growing, Holds
  <2>. QED
    BY <2>4, <2>5, <2>6, <2>7, <2>8 DEF Holds
<1>3. call' \in [Handlers -> Calls]
  BY <1>1 DEF StepSound, CallMoved
<1>4. ASSUME NEW g \in Handlers, NEW b \in Calls, b = call'[g] PROVE Holds(b)'
  <2>1. CASE call' = call
    BY <1>1, <1>2, <1>4, <2>1 DEF SoundInv
  <2>2. ASSUME NEW h \in Handlers, NEW c \in Calls, call' = [call EXCEPT ![h] = c], Holds(c)'
        PROVE  Holds(b)'
    <3>1. CASE g = h
      <4>1. b = c
        BY <1>1, <1>4, <2>2, <3>1
      <4>. QED
        BY <2>2, <4>1
    <3>2. CASE g # h
      <4>1. b = call[g]
        BY <1>1, <1>4, <2>2, <3>2
      <4>. QED
        BY <1>2, <4>1 DEF SoundInv
    <3>. QED
      BY <3>1, <3>2
  <2>. QED
    BY <2>1, <2>2 DEF StepSound, CallMoved
<1>5. \A s \in sessions' : s \in Session /\ SessionSound(s)'
  <2>. TAKE s \in sessions'
  <2>1. CASE s \in sessions
    <3>1. s \in Session /\ SessionSound(s) /\ s.user \in Users
      BY <1>1, <2>1 DEF SoundInv, Session
    <3>2. Len(lineage) \in Nat /\ Len(lineage') \in Nat
      BY LenProperties DEF SoundInv, StepSound, RowsSound
    <3>. QED
      BY <3>1, <3>2 DEF SessionSound, StepSound, Growing
  <2>. QED
    BY <2>1 DEF StepSound, SessionsSound
<1>6. TypeOK'
  BY <1>3, <1>5 DEF TypeOK, StepSound, RowsSound
<1>7. (\A h \in Handlers : Holds(call[h]))'
  BY <1>3, <1>4 DEF Holds, Exists, Proved
<1>8. (\A s \in sessions : SessionSound(s))'
  BY <1>5 DEF SessionSound, Exists, Proved
<1>9. RowsSound'
  BY DEF StepSound
<1>. QED
  BY <1>6, <1>7, <1>8, <1>9 DEF SoundInv

----------------------------------------------------------------------------
(* The shapes of steps *)

\* A request that holds an account and nothing else.
Plain == {"code.delete", "code.expire", "code.create", "google.merge", "email.verify",
          "password.reset", "password.set", "suspend.write", "sessions.delete", "phone.mark"}

LEMMA PlainHolds ==
    ASSUME NEW u \in Users, NEW at \in Plain, Exists(u)
    PROVE  [at |-> at, user |-> u] \in Calls /\ Holds([at |-> at, user |-> u])
<1>1. [at |-> at, user |-> u] \in Calls
  BY DEF Plain, Calls, CodeCall, AccountCall
<1>. QED
  BY <1>1 DEF Plain, Holds, OfProved, OfSession

LEMMA IdleHolds == Idle \in Calls /\ Holds(Idle)
  BY DEF Idle, Calls, Holds, Unfounded, OfProved, OfSession

\* What a handler holds according to the invariant.
LEMMA Held ==
    ASSUME SoundInv, NEW h \in Handlers
    PROVE  /\ call[h] \in Calls /\ Holds(call[h])
           /\ call[h].at # "idle" => call[h].user \in Users
           /\ call[h].at \notin Unfounded =>
                  /\ Exists(call[h].user)
                  /\ account[call[h].user] \in Account
                  /\ RowKept(account[call[h].user])
<1>1. call[h] \in Calls /\ Holds(call[h])
  BY DEF SoundInv, TypeOK
<1>2. call[h].at # "idle" => call[h].user \in Users
  BY <1>1, CallShapes
<1>. QED
  BY <1>1, <1>2 DEF Holds, SoundInv, RowsSound, Exists, Unfounded

LEMMA StillSound ==
    ASSUME SoundInv, UNCHANGED <<account, otps, sessions, lineage, bearer, crashes>>,
           requests' \in Nat, NEW h \in Handlers, NEW c \in Calls, Holds(c),
           call' = [call EXCEPT ![h] = c]
    PROVE  StepSound
<1>1. RowsSound'
  BY DEF SoundInv, RowsSound, Exists
<1>2. Growing
  BY DEF SoundInv, RowsSound, Growing, Exists, Proved
<1>3. Holds(c)'
  BY DEF Holds, Exists, Proved
<1>. QED
  BY <1>1, <1>2, <1>3 DEF StepSound, CallMoved, SessionsSound

LEMMA OtpsMove ==
    ASSUME SoundInv, otps' \in Seq(Otp), DOMAIN otps \subseteq DOMAIN otps',
           UNCHANGED <<account, sessions, lineage, bearer, requests, crashes>>,
           NEW h \in Handlers, NEW c \in Calls, Holds(c), call' = [call EXCEPT ![h] = c]
    PROVE  StepSound
<1>1. RowsSound'
  BY DEF SoundInv, RowsSound, Exists
<1>2. Growing
  BY DEF SoundInv, RowsSound, Growing, Exists, Proved
<1>3. Holds(c)'
  BY DEF Holds, Exists, Proved
<1>. QED
  BY <1>1, <1>2, <1>3 DEF StepSound, CallMoved, SessionsSound

LEMMA AccountMoves ==
    ASSUME SoundInv, NEW u \in Users, NEW a \in Account, RowKept(a),
           account' = [account EXCEPT ![u] = a],
           Exists(u) /\ Proved(u) => a.verified \/ a.suspensions > 0,
           Exists(u) /\ account[u].suspensions > 0 => a.suspensions > 0,
           UNCHANGED <<otps, sessions, lineage, bearer, requests, crashes>>,
           NEW h \in Handlers, NEW c \in Calls, Holds(c)', call' = [call EXCEPT ![h] = c]
    PROVE  StepSound
<1>1. a # NoAccount
  BY DEF Account, NoAccount, Statuses
<1>2. account \in [Users -> Account \cup {NoAccount}]
  BY DEF SoundInv, RowsSound
<1>3. RowsSound'
  BY <1>2 DEF SoundInv, RowsSound, Exists
<1>4. Growing
  BY <1>1, <1>2 DEF SoundInv, RowsSound, Growing, Exists, Proved
<1>. QED
  BY <1>3, <1>4 DEF StepSound, CallMoved, SessionsSound

----------------------------------------------------------------------------
(* Requests that begin *)

\* Every request begins with what it needs: an account, a token of a session, or no
\* account at all.
LEMMA AskSound ==
    ASSUME SoundInv, NEW h \in Handlers, NEW u \in Users, Ask(h, u)
    PROVE  StepSound
<1>. DEFINE Begins(c) == Begin(h, c) /\ UNCHANGED <<account, otps, sessions, lineage, bearer, crashes>>
<1>1. ASSUME NEW c \in Calls, Holds(c), Begins(c) PROVE StepSound
  <2>1. requests' \in Nat
    BY <1>1 DEF Begin, SoundInv, RowsSound
  <2>. QED
    BY <1>1, <2>1, StillSound DEF Begin
<1>2. ASSUME NEW at \in Plain, Exists(u), Begins([at |-> at, user |-> u]) PROVE StepSound
  BY <1>1, <1>2, PlainHolds
<1>3. Exists(u) => account[u] \in Account /\ RowKept(account[u])
  BY DEF SoundInv, RowsSound, Exists
<1>4. CASE Signup(h, u) \/ HandleGoogleLogin(h, u)
  <2>1. ASSUME NEW at \in {"signup.create", "google.create"} PROVE
           [at |-> at, user |-> u] \in Calls /\ Holds([at |-> at, user |-> u])
    BY DEF Calls, AccountCall, Holds, Unfounded, OfProved, OfSession
  <2>2. ASSUME Exists(u), account[u].google PROVE
           /\ [at |-> "session.create", user |-> u, from |-> 0] \in Calls
           /\ Holds([at |-> "session.create", user |-> u, from |-> 0])
    BY <1>3, <2>2, LenProperties
       DEF Calls, SessionCall, Holds, Unfounded, OfProved, OfSession, RowKept, Proved, SoundInv, RowsSound
  <2>3. CASE Signup(h, u)
    BY <1>1, <2>1, <2>3 DEF Signup
  <2>4. CASE HandleGoogleLogin(h, u) /\ ~Exists(u)
    BY <1>1, <2>1, <2>4 DEF HandleGoogleLogin
  <2>5. CASE HandleGoogleLogin(h, u) /\ Exists(u) /\ account[u].google
    BY <1>1, <2>2, <2>5 DEF HandleGoogleLogin
  <2>6. CASE HandleGoogleLogin(h, u) /\ Exists(u) /\ ~account[u].google
    BY <1>2, <2>6 DEF HandleGoogleLogin, Plain
  <2>. QED
    BY <1>4, <2>3, <2>4, <2>5, <2>6
<1>5. CASE Login(h, u)
  <2>1. Exists(u) /\ Status(u) \notin {"none", "REGISTERED", "SUSPENDED"}
    BY <1>5 DEF Login, Exists, NoAccount, Status
  <2>2. account[u].verified \/ account[u].suspensions > 0
    BY <1>3, <2>1 DEF Status, Account, Statuses, RowKept
  <2>3. /\ [at |-> "session.create", user |-> u, from |-> 0] \in Calls
        /\ Holds([at |-> "session.create", user |-> u, from |-> 0])
    BY <2>1, <2>2, LenProperties
       DEF Calls, SessionCall, Holds, Unfounded, OfProved, OfSession, Proved, SoundInv, RowsSound
  <2>. QED
    BY <1>1, <1>5, <2>3 DEF Login
<1>6. CASE ResendOtp(h, u) \/ ForgotPassword(h, u) \/ SendOtp(h, u)
  <2>1. Exists(u)
    BY <1>6 DEF ResendOtp, ForgotPassword, SendOtp, MayWalk, MayAsk, Status, Exists, NoAccount
  <2>. QED
    BY <1>2, <1>6, <2>1 DEF ResendOtp, ForgotPassword, SendOtp, Plain
<1>7. ASSUME NEW purpose \in {"email", "reset"}, NEW code \in {0} \cup DOMAIN otps,
             EnterCode(h, u, purpose, code)
      PROVE  StepSound
  <2>. DEFINE c == [at |-> "code.read", for |-> purpose, user |-> u, entered |-> code,
                    row |-> 0, attempts |-> 0]
  <2>1. code \in Nat
    BY OtpsTyped DEF SoundInv, RowsSound
  <2>2. c \in Calls /\ Holds(c)
    BY <1>7, <2>1 DEF EnterCode, Calls, EnterCall, Holds, Unfounded, OfProved, OfSession
  <2>3. Begins(c)
    BY <1>7 DEF EnterCode
  <2>. QED
    BY <1>1, <2>2, <2>3
<1>8. CASE CompleteProfile(h, u)
  <2>1. Exists(u) /\ (account[u].verified \/ account[u].suspensions > 0)
    BY <1>3, <1>8 DEF CompleteProfile, MayAsk, Status, RowKept
  <2>2. [at |-> "profile.write", user |-> u] \in Calls /\ Holds([at |-> "profile.write", user |-> u])
    BY <2>1 DEF Calls, AccountCall, Holds, Unfounded, OfProved, OfSession, Proved
  <2>. QED
    BY <1>1, <1>8, <2>2 DEF CompleteProfile
<1>9. CASE SetPassword(h, u) \/ SuspendUser(h, u)
  <2>1. Exists(u)
    BY <1>9 DEF SetPassword, SuspendUser, MayAsk, Status, Exists, NoAccount
  <2>. QED
    BY <1>2, <1>9, <2>1 DEF SetPassword, SuspendUser, Plain
<1>10. ASSUME NEW s \in SessionsOf(u), RefreshToken(h, s) PROVE StepSound
  <2>1. s \in sessions /\ s \in Session /\ SessionSound(s)
    BY DEF SessionsOf, SoundInv, TypeOK
  <2>2. /\ [at |-> "refresh.user", user |-> s.user, from |-> s.token] \in Calls
        /\ Holds([at |-> "refresh.user", user |-> s.user, from |-> s.token])
    BY <2>1 DEF Calls, SessionCall, Session, SessionSound, Holds, Unfounded, OfProved, OfSession
  <2>. QED
    BY <1>1, <1>10, <2>2 DEF RefreshToken
<1>11. CASE ReactivateUser(h, u)
  <2>1. Exists(u) /\ account[u].suspensions > 0
    BY <1>3, <1>11 DEF ReactivateUser, Status, Exists, NoAccount, RowKept
  <2>2. /\ [at |-> "reactivate.write", user |-> u] \in Calls
        /\ Holds([at |-> "reactivate.write", user |-> u])
    BY <2>1 DEF Calls, AccountCall, Holds, Unfounded, OfProved, OfSession
  <2>. QED
    BY <1>1, <1>11, <2>2 DEF ReactivateUser
<1>. QED
  BY <1>4, <1>5, <1>6, <1>7, <1>8, <1>9, <1>10, <1>11 DEF Ask

----------------------------------------------------------------------------
(* Requests that go on *)

LEMMA CodesProceed ==
    ASSUME SoundInv, NEW h \in Handlers,
           \/ DeleteOtp(h) \/ ExpireOtps(h) \/ StoreOtp(h)
           \/ ReadOtp(h) \/ MissOtp(h) \/ SpendOtp(h) \/ MarkSent(h)
    PROVE  StepSound
<1>. DEFINE u == call[h].user
<1>1. call[h].at # "idle" /\ call[h].at \notin Unfounded
  BY DEF DeleteOtp, ExpireOtps, StoreOtp, ReadOtp, MissOtp, SpendOtp, MarkSent, Unfounded
<1>2. u \in Users /\ Exists(u)
  BY <1>1, Held
<1>3. otps \in Seq(Otp)
  BY DEF SoundInv, RowsSound
<1>4. call[h] \in Calls /\ Holds(call[h])
  BY Held
<1>5. ASSUME NEW at \in Plain
      PROVE  [at |-> at, user |-> u] \in Calls /\ Holds([at |-> at, user |-> u])
  BY <1>2, PlainHolds
<1>. HIDE DEF u
<1>6. CASE DeleteOtp(h) \/ ExpireOtps(h)
  <2>1. UseAll(u)
    BY <1>6 DEF DeleteOtp, ExpireOtps, u
  <2>2. otps' \in Seq(Otp) /\ DOMAIN otps \subseteq DOMAIN otps'
    BY <1>2, <1>3, <2>1, UseAllTyped
  <2>3. PICK at \in Plain : call' = [call EXCEPT ![h] = [at |-> at, user |-> u]]
    BY <1>6 DEF DeleteOtp, ExpireOtps, Then, Continue, Plain, u
  <2>4. UNCHANGED <<account, sessions, lineage, bearer, requests, crashes>>
    BY <1>6 DEF DeleteOtp, ExpireOtps, Then, Continue
  <2>. QED
    BY <1>5, <2>2, <2>3, <2>4, OtpsMove
<1>7. CASE StoreOtp(h) \/ MarkSent(h)
  <2>1. PICK kind \in {"mail", "phone"} : otps' = Append(otps, NewOtp(u, kind))
    BY <1>7 DEF StoreOtp, MarkSent, u
  <2>2. otps' \in Seq(Otp) /\ DOMAIN otps \subseteq DOMAIN otps'
    BY <1>2, <1>3, <2>1, NewOtpTyped
  <2>3. call' = [call EXCEPT ![h] = Idle]
    BY <1>7 DEF StoreOtp, MarkSent, End, Continue
  <2>4. UNCHANGED <<account, sessions, lineage, bearer, requests, crashes>>
    BY <1>7 DEF StoreOtp, MarkSent, End, Continue
  <2>. QED
    BY <2>2, <2>3, <2>4, IdleHolds, OtpsMove
<1>8. CASE ReadOtp(h)
  <2>. DEFINE row == LatestOtp(u)
              c == [call[h] EXCEPT
                    !.at = IF row = call[h].entered THEN "code.spend" ELSE "code.miss",
                    !.row = row, !.attempts = otps[row].attempts]
  <2>1. requests' \in Nat /\ UNCHANGED <<account, otps, sessions, lineage, bearer, crashes>>
    BY <1>8 DEF ReadOtp, End, Continue, SoundInv, RowsSound
  <2>2. CASE row = 0 \/ IsOtpBlocked(u)
    <3>1. call' = [call EXCEPT ![h] = Idle]
      BY <1>8, <2>2 DEF ReadOtp, End, Continue, u
    <3>. QED
      BY <2>1, <3>1, IdleHolds, StillSound
  <2>3. CASE row # 0 /\ ~IsOtpBlocked(u)
    <3>1. call' = [call EXCEPT ![h] = c]
      BY <1>8, <2>3 DEF ReadOtp, Continue, u
    <3>2. row \in DOMAIN otps
      BY <1>3, <2>3, LatestIsLive
    <3>3. row \in Nat /\ otps[row].attempts \in Nat
      BY <1>3, <3>2, OtpsTyped DEF Otp
    <3>4. call[h] \in EnterCall
      BY <1>4, <1>8, CallShapes DEF ReadOtp
    <3>5. c \in Calls
      BY <3>3, <3>4 DEF EnterCall, Calls
    <3>6. c.at \in {"code.spend", "code.miss"} /\ c.row = row /\ c.user = u
      BY <3>4 DEF EnterCall, u
    <3>7. Holds(c)
      BY <1>2, <3>2, <3>6 DEF Holds, OfProved, OfSession
    <3>. QED
      BY <2>1, <3>1, <3>5, <3>7, StillSound
  <2>. QED
    BY <2>2, <2>3
<1>9. CASE MissOtp(h)
  <2>1. call[h] \in EnterCall /\ call[h].row \in DOMAIN otps
    BY <1>4, <1>9, CallShapes DEF MissOtp, Holds
  <2>2. [otps[call[h].row] EXCEPT !.attempts = call[h].attempts + 1] \in Otp
    <3>1. otps[call[h].row] \in Otp /\ call[h].attempts + 1 \in Nat
      BY <1>3, <2>1, OtpsTyped DEF EnterCall
    <3>. QED
      BY <3>1 DEF Otp
  <2>3. otps' \in [1..Len(otps) -> Otp]
    BY <1>3, <1>9, <2>1, <2>2, OtpsTyped DEF MissOtp
  <2>4. otps' \in Seq(Otp) /\ DOMAIN otps \subseteq DOMAIN otps'
    BY <1>3, <2>3, OtpsTyped
  <2>5. call' = [call EXCEPT ![h] = Idle] /\
        UNCHANGED <<account, sessions, lineage, bearer, requests, crashes>>
    BY <1>9 DEF MissOtp, End, Continue
  <2>. QED
    BY <2>4, <2>5, IdleHolds, OtpsMove
<1>10. CASE SpendOtp(h)
  <2>1. call[h].row \in DOMAIN otps
    BY <1>4, <1>10 DEF SpendOtp, Holds
  <2>2. [otps[call[h].row] EXCEPT !.state = "used"] \in Otp
    <3>1. otps[call[h].row] \in Otp
      BY <1>3, <2>1, OtpsTyped
    <3>. QED
      BY <3>1 DEF Otp
  <2>3. otps' \in [1..Len(otps) -> Otp]
    BY <1>3, <1>10, <2>1, <2>2, OtpsTyped DEF SpendOtp
  <2>4. otps' \in Seq(Otp) /\ DOMAIN otps \subseteq DOMAIN otps'
    BY <1>3, <2>3, OtpsTyped
  <2>5. PICK at \in Plain : call' = [call EXCEPT ![h] = [at |-> at, user |-> u]]
    BY <1>10 DEF SpendOtp, Then, Continue, Plain, u
  <2>6. UNCHANGED <<account, sessions, lineage, bearer, requests, crashes>>
    BY <1>10 DEF SpendOtp, Then, Continue
  <2>. QED
    BY <1>5, <2>4, <2>5, <2>6, OtpsMove
<1>. QED
  BY <1>6, <1>7, <1>8, <1>9, <1>10

\* A session to be stored for a proved account.
LEMMA StoreHolds ==
    ASSUME NEW u \in Users, account[u] \in Account,
           account[u].verified \/ account[u].suspensions > 0, lineage \in Seq(Nat)
    PROVE  /\ [at |-> "session.create", user |-> u, from |-> 0] \in Calls
           /\ Holds([at |-> "session.create", user |-> u, from |-> 0])
<1>1. Exists(u)
  BY DEF Exists, Account, NoAccount, Statuses
<1>. QED
  BY <1>1, LenProperties DEF Calls, SessionCall, Holds, Unfounded, OfProved, OfSession, Proved

LEMMA AccountCounts ==
    ASSUME NEW a \in Account, NEW n \in Nat, NEW m \in Nat
    PROVE  /\ [a EXCEPT !.password = n, !.epoch = m] \in Account
           /\ [a EXCEPT !.status = "SUSPENDED", !.epoch = n, !.suspensions = m] \in Account
  BY DEF Account, Statuses

LEMMA AccountsProceed ==
    ASSUME SoundInv, NEW h \in Handlers, NEW u \in Users, u = call[h].user,
           \/ CreateUser(h) \/ MergeGoogleAccount(h) \/ CreateGoogleUser(h)
           \/ UpdateEmailVerified(h) \/ MarkIncomplete(h) \/ UpdateCountry(h)
           \/ StorePassword(h) \/ ResetPassword(h)
           \/ WriteSuspended(h) \/ WriteReactivated(h)
    PROVE  StepSound
<1>. DEFINE a == account[u]
            Moves(b) == account' = [account EXCEPT ![u] = b]
            Goes(c) == call' = [call EXCEPT ![h] = c]
<1>1. UNCHANGED <<otps, sessions, lineage, bearer, requests, crashes>>
  BY DEF CreateUser, MergeGoogleAccount, CreateGoogleUser, UpdateEmailVerified, MarkIncomplete,
         UpdateCountry, StorePassword, ResetPassword, WriteSuspended, WriteReactivated,
         Then, StoreNext, End, Continue
<1>2. call[h].at # "idle"
  BY DEF CreateUser, MergeGoogleAccount, CreateGoogleUser, UpdateEmailVerified, MarkIncomplete,
         UpdateCountry, StorePassword, ResetPassword, WriteSuspended, WriteReactivated
<1>3. Holds(call[h])
  BY <1>2, Held
<1>4. lineage' \in Seq(Nat) /\ account \in [Users -> Account \cup {NoAccount}]
  BY <1>1 DEF SoundInv, RowsSound
<1>5. ASSUME NEW b \in Account, Moves(b), RowKept(b),
             Exists(u) /\ Proved(u) => b.verified \/ b.suspensions > 0,
             Exists(u) /\ account[u].suspensions > 0 => b.suspensions > 0,
             NEW c \in Calls, Goes(c), Holds(c)'
      PROVE  StepSound
  BY <1>1, <1>3, <1>5, AccountMoves
<1>6. ASSUME NEW b \in Account, Moves(b) PROVE Exists(u)' /\ account'[u] = b
  BY <1>3, <1>4, <1>6 DEF Exists, Account, NoAccount, Statuses
<1>7. ASSUME NEW b \in Account, Moves(b), NEW at \in Plain
      PROVE  [at |-> at, user |-> u] \in Calls /\ Holds([at |-> at, user |-> u])'
  <2>1. Exists(u)'
    BY <1>6, <1>7
  <2>2. [at |-> at, user |-> u] \in Calls
    BY <1>3, <1>7 DEF Plain, Calls, CodeCall, AccountCall
  <2>. QED
    BY <2>1, <2>2, <1>7 DEF Plain, Holds, OfProved, OfSession
<1>8. ASSUME NEW b \in Account, Moves(b), b.verified \/ b.suspensions > 0
      PROVE  /\ [at |-> "session.create", user |-> u, from |-> 0] \in Calls
             /\ Holds([at |-> "session.create", user |-> u, from |-> 0])'
  <2>1. Exists(u)' /\ Proved(u)'
    BY <1>6, <1>8 DEF Proved
  <2>2. Len(lineage') \in Nat
    BY <1>4, LenProperties
  <2>. QED
    BY <1>3, <2>1, <2>2 DEF Calls, SessionCall, Holds, Unfounded, OfProved, OfSession
<1>9. ASSUME NEW b \in Account, Moves(b), b.verified \/ b.suspensions > 0,
             NEW at \in {"email.reread", "email.incomplete"}
      PROVE  [at |-> at, user |-> u] \in Calls /\ Holds([at |-> at, user |-> u])'
  <2>1. Exists(u)' /\ Proved(u)'
    BY <1>6, <1>9 DEF Proved
  <2>. QED
    BY <1>3, <1>9, <2>1 DEF Calls, AccountCall, Holds, Unfounded, OfProved, OfSession
<1>10. Idle \in Calls /\ Holds(Idle)'
  BY DEF Idle, Calls, Holds, Unfounded, OfProved, OfSession
<1>11. CASE CreateUser(h)
  <2>1. CASE Exists(u)
    <3>1. requests' \in Nat /\ UNCHANGED <<account, otps, sessions, lineage, bearer, crashes>>
          /\ Goes(Idle)
      BY <1>1, <1>11, <2>1 DEF CreateUser, End, Continue, SoundInv, RowsSound
    <3>. QED
      BY <3>1, IdleHolds, StillSound
  <2>2. CASE ~Exists(u)
    <3>1. Moves(EmailUser) /\ Goes([at |-> "code.expire", user |-> u])
      BY <1>11, <2>2 DEF CreateUser, Then, Continue
    <3>2. EmailUser \in Account /\ RowKept(EmailUser)
      BY DEF EmailUser, Account, Statuses, RowKept
    <3>. QED
      BY <1>5, <1>7, <2>2, <3>1, <3>2 DEF Plain
  <2>. QED
    BY <2>1, <2>2
<1>12. CASE CreateGoogleUser(h)
  <2>1. CASE Exists(u)
    <3>1. requests' \in Nat /\ UNCHANGED <<account, otps, sessions, lineage, bearer, crashes>>
          /\ Goes(Idle)
      BY <1>1, <1>12, <2>1 DEF CreateGoogleUser, End, Continue, SoundInv, RowsSound
    <3>. QED
      BY <3>1, IdleHolds, StillSound
  <2>2. CASE ~Exists(u)
    <3>1. Moves(GoogleUser) /\ Goes([at |-> "email.incomplete", user |-> u])
      BY <1>12, <2>2 DEF CreateGoogleUser, Then, Continue
    <3>2. GoogleUser \in Account /\ RowKept(GoogleUser) /\ GoogleUser.verified
      BY DEF GoogleUser, Account, Statuses, RowKept
    <3>. QED
      BY <1>5, <1>9, <2>2, <3>1, <3>2
  <2>. QED
    BY <2>1, <2>2
<1>13. ASSUME call[h].at \notin Unfounded
       PROVE  Exists(u) /\ a \in Account /\ RowKept(a)
  BY <1>13, Held
<1>14. CASE MergeGoogleAccount(h)
  <2>. DEFINE b == [a EXCEPT !.google = TRUE, !.verified = TRUE]
  <2>1. a \in Account /\ RowKept(a)
    BY <1>13, <1>14 DEF MergeGoogleAccount, Unfounded
  <2>2. b \in Account /\ RowKept(b) /\ b.verified /\ b.suspensions = a.suspensions
    BY <2>1 DEF Account, RowKept
  <2>3. Moves(b) /\ Goes([at |-> "session.create", user |-> u, from |-> 0])
    BY <1>3, <1>4, <1>14 DEF MergeGoogleAccount, StoreNext, Continue
  <2>. QED
    BY <1>5, <1>8, <2>2, <2>3
<1>15. CASE UpdateEmailVerified(h)
  <2>. DEFINE b == [a EXCEPT !.verified = TRUE, !.status = "EMAIL_VERIFIED"]
  <2>1. a \in Account /\ RowKept(a)
    BY <1>13, <1>15 DEF UpdateEmailVerified, Unfounded
  <2>2. b \in Account /\ RowKept(b) /\ b.verified /\ b.suspensions = a.suspensions
    BY <2>1 DEF Account, RowKept, Statuses
  <2>3. Moves(b) /\ Goes([at |-> "email.reread", user |-> u])
    BY <1>3, <1>4, <1>15 DEF UpdateEmailVerified, Then, Continue
  <2>. QED
    BY <1>5, <1>9, <2>2, <2>3
<1>16. CASE MarkIncomplete(h)
  <2>. DEFINE b == [a EXCEPT !.status = "PROFILE_INCOMPLETE"]
  <2>1. a \in Account /\ RowKept(a) /\ Proved(u)
    BY <1>3, <1>13, <1>16 DEF MarkIncomplete, Unfounded, Holds, OfProved
  <2>2. b \in Account /\ RowKept(b) /\ b.verified = a.verified /\ b.suspensions = a.suspensions
    BY <2>1 DEF Account, RowKept, Statuses, Proved
  <2>3. Moves(b) /\ Goes([at |-> "session.create", user |-> u, from |-> 0])
    BY <1>3, <1>4, <1>16 DEF MarkIncomplete, StoreNext, Continue
  <2>. QED
    BY <1>5, <1>8, <2>1, <2>2, <2>3 DEF Proved
<1>17. CASE UpdateCountry(h)
  <2>. DEFINE b == [a EXCEPT !.country = TRUE, !.status = "ACTIVE"]
  <2>1. a \in Account /\ RowKept(a) /\ Proved(u)
    BY <1>3, <1>13, <1>17 DEF UpdateCountry, Unfounded, Holds, OfProved
  <2>2. b \in Account /\ RowKept(b) /\ b.verified = a.verified /\ b.suspensions = a.suspensions
    BY <2>1 DEF Account, RowKept, Statuses, Proved
  <2>3. Moves(b) /\ Goes(Idle)
    BY <1>3, <1>4, <1>17 DEF UpdateCountry, End, Continue
  <2>. QED
    BY <1>5, <1>10, <2>1, <2>2, <2>3 DEF Proved
<1>18. CASE StorePassword(h)
  <2>. DEFINE b == [a EXCEPT !.password = @ + 1]
  <2>1. a \in Account /\ RowKept(a)
    BY <1>13, <1>18 DEF StorePassword, Unfounded
  <2>2. b \in Account /\ RowKept(b) /\ b.verified = a.verified /\ b.suspensions = a.suspensions
    <3>1. b \in Account
      BY <2>1 DEF Account
    <3>. QED
      BY <2>1, <3>1 DEF Account, RowKept
  <2>3. Moves(b) /\ Goes(Idle)
    BY <1>3, <1>4, <1>18 DEF StorePassword, End, Continue
  <2>. QED
    BY <1>5, <1>10, <2>1, <2>2, <2>3 DEF Proved
<1>19. CASE ResetPassword(h)
  <2>. DEFINE b == [a EXCEPT !.password = @ + 1, !.epoch = @ + 1]
  <2>1. a \in Account /\ RowKept(a)
    BY <1>13, <1>19 DEF ResetPassword, Unfounded
  <2>2. b \in Account /\ RowKept(b) /\ b.verified = a.verified /\ b.suspensions = a.suspensions
    <3>. /\ a.password + 1 \in Nat /\ a.epoch + 1 \in Nat
      BY <2>1 DEF Account
    <3>1. b \in Account
      BY <2>1, AccountCounts, Zenon
    <3>. QED
      BY <2>1, <3>1 DEF Account, RowKept
  <2>3. Moves(b) /\ Goes([at |-> "sessions.delete", user |-> u])
    BY <1>3, <1>4, <1>19 DEF ResetPassword, Then, Continue
  <2>. QED
    BY <1>5, <1>7, <2>1, <2>2, <2>3 DEF Proved, Plain
<1>20. CASE WriteSuspended(h)
  <2>. DEFINE b == [a EXCEPT !.status = "SUSPENDED", !.epoch = @ + 1, !.suspensions = @ + 1]
  <2>1. a \in Account /\ RowKept(a)
    BY <1>13, <1>20 DEF WriteSuspended, Unfounded
  <2>2. b \in Account /\ RowKept(b) /\ b.suspensions > 0
    <3>. /\ a.epoch + 1 \in Nat /\ a.suspensions + 1 \in Nat
      BY <2>1 DEF Account
    <3>1. b \in Account
      BY <2>1, AccountCounts, Zenon
    <3>2. b.suspensions > 0 /\ b.status = "SUSPENDED"
      BY <2>1 DEF Account
    <3>. QED
      BY <2>1, <3>1, <3>2 DEF RowKept
  <2>3. Moves(b) /\ Goes([at |-> "sessions.delete", user |-> u])
    BY <1>3, <1>4, <1>20 DEF WriteSuspended, Then, Continue
  <2>. QED
    BY <1>5, <1>7, <2>1, <2>2, <2>3 DEF Plain
<1>21. CASE WriteReactivated(h)
  <2>. DEFINE b == [a EXCEPT !.status = "ACTIVE"]
  <2>1. a \in Account /\ RowKept(a) /\ a.suspensions > 0
    BY <1>3, <1>13, <1>21 DEF WriteReactivated, Unfounded, Holds
  <2>2. b \in Account /\ RowKept(b) /\ b.suspensions > 0
    BY <2>1 DEF Account, RowKept, Statuses
  <2>3. Moves(b) /\ Goes(Idle)
    BY <1>3, <1>4, <1>21 DEF WriteReactivated, End, Continue
  <2>. QED
    BY <1>5, <1>10, <2>2, <2>3
<1>. QED
  BY <1>11, <1>12, <1>14, <1>15, <1>16, <1>17, <1>18, <1>19, <1>20, <1>21

LEMMA SessionsMove ==
    ASSUME SoundInv, UNCHANGED <<account, otps, requests, crashes>>,
           lineage' \in Seq(Nat), Len(lineage) <= Len(lineage'), bearer' \in SUBSET Users,
           SessionsSound, NEW h \in Handlers, NEW c \in Calls, Holds(c)',
           call' = [call EXCEPT ![h] = c]
    PROVE  StepSound
<1>1. RowsSound'
  BY DEF SoundInv, RowsSound, Exists
<1>2. Growing
  BY DEF SoundInv, RowsSound, Growing, Exists, Proved
<1>. QED
  BY <1>1, <1>2 DEF StepSound, CallMoved

LEMMA SessionsProceed ==
    ASSUME SoundInv, NEW h \in Handlers, NEW u \in Users, u = call[h].user,
           RereadUser(h) \/ CreateSession(h) \/ CheckUser(h) \/ Rotate(h) \/ DeleteSessions(h)
    PROVE  StepSound
<1>. DEFINE Goes(c) == call' = [call EXCEPT ![h] = c]
<1>1. UNCHANGED <<account, otps, requests, crashes>>
  BY DEF RereadUser, CreateSession, CheckUser, Rotate, DeleteSessions,
         StoreNext, Then, End, Continue
<1>2. call[h].at \notin Unfounded
  BY DEF RereadUser, CreateSession, CheckUser, Rotate, DeleteSessions, Unfounded
<1>3. /\ call[h] \in Calls /\ Holds(call[h]) /\ Exists(u)
      /\ account[u] \in Account
  BY <1>2, Held
<1>4. lineage \in Seq(Nat) /\ Len(lineage) \in Nat /\ bearer \in SUBSET Users /\ requests' \in Nat
  BY <1>1, LenProperties DEF SoundInv, RowsSound
<1>5. Idle \in Calls /\ Holds(Idle) /\ Holds(Idle)'
  BY IdleHolds DEF Idle, Holds, Unfounded, OfProved, OfSession
<1>6. CASE RereadUser(h)
  <2>1. UNCHANGED <<account, otps, sessions, lineage, bearer, crashes>>
    BY <1>6 DEF RereadUser
  <2>2. account[u].verified \/ account[u].suspensions > 0
    BY <1>3, <1>6 DEF RereadUser, Holds, OfProved, Proved
  <2>3. \/ Goes([at |-> "session.create", user |-> u, from |-> 0])
        \/ Goes([at |-> "email.incomplete", user |-> u])
    BY <1>6 DEF RereadUser, StoreNext, Then, Continue
  <2>4. /\ [at |-> "email.incomplete", user |-> u] \in Calls
        /\ Holds([at |-> "email.incomplete", user |-> u])
    BY <1>3, <2>2 DEF Calls, AccountCall, Holds, Unfounded, OfProved, OfSession, Proved
  <2>5. /\ [at |-> "session.create", user |-> u, from |-> 0] \in Calls
        /\ Holds([at |-> "session.create", user |-> u, from |-> 0])
    BY <1>3, <1>4, <2>2, StoreHolds
  <2>. QED
    BY <1>4, <2>1, <2>3, <2>4, <2>5, StillSound
<1>7. CASE CreateSession(h)
  <2>. PICK n : n = [token |-> Len(lineage) + 1, user |-> u, epoch |-> account[u].epoch]
    OBVIOUS
  <2>1. call[h] \in SessionCall /\ Proved(u)
    BY <1>3, <1>7, CallShapes DEF CreateSession, OfSession, OfProved, Holds
  <2>2. call[h].from \in Nat
    BY <2>1 DEF SessionCall
  <2>3. lineage' = Append(lineage, call[h].from)
    BY <1>7 DEF CreateSession
  <2>4. lineage' \in Seq(Nat) /\ Len(lineage') = Len(lineage) + 1
    BY <1>4, <2>2, <2>3, AppendProperties
  <2>5. n \in Session
    BY <1>3, <1>4 DEF Session, Account
  <2>6. SessionSound(n)'
    BY <1>1, <1>3, <1>4, <2>1, <2>4 DEF SessionSound, Exists, Proved
  <2>7. SessionsSound
    BY <1>7, <2>5, <2>6 DEF CreateSession, SessionsSound
  <2>8. bearer' \in SUBSET Users /\ Goes(Idle)
    BY <1>4, <1>7 DEF CreateSession, End, Continue
  <2>9. Len(lineage) <= Len(lineage')
    BY <1>4, <2>4
  <2>. QED
    BY <1>1, <1>5, <2>4, <2>7, <2>8, <2>9, SessionsMove
<1>8. CASE CheckUser(h)
  <2>. DEFINE c == [call[h] EXCEPT !.at = "refresh.rotate"]
  <2>1. UNCHANGED <<account, otps, sessions, lineage, bearer, crashes>>
    BY <1>8 DEF CheckUser
  <2>2. Goes([at |-> "sessions.delete", user |-> u]) \/ Goes(c)
    BY <1>8 DEF CheckUser, Then, Continue
  <2>3. /\ [at |-> "sessions.delete", user |-> u] \in Calls
        /\ Holds([at |-> "sessions.delete", user |-> u])
    BY <1>3, PlainHolds DEF Plain
  <2>4. call[h] \in SessionCall
    BY <1>3, <1>8, CallShapes DEF CheckUser, OfSession
  <2>5. c \in SessionCall /\ c.at = "refresh.rotate" /\ c.user = u /\ c.from = call[h].from
    BY <2>4 DEF SessionCall
  <2>6. c \in Calls /\ Holds(c)
    BY <1>3, <1>8, <2>5 DEF Calls, CheckUser, Holds, Unfounded, OfSession, OfProved
  <2>. QED
    BY <1>4, <2>1, <2>2, <2>3, <2>6, StillSound
<1>9. CASE Rotate(h)
  <2>. PICK c : c = [call[h] EXCEPT !.at = "session.create"]
    OBVIOUS
  <2>1. UNCHANGED <<lineage, bearer>> /\ sessions' \subseteq sessions /\ (Goes(Idle) \/ Goes(c))
    BY <1>9 DEF Rotate, End, Continue
  <2>2. call[h] \in SessionCall
    BY <1>3, <1>9, CallShapes DEF Rotate, OfSession
  <2>3. c \in SessionCall /\ c.at = "session.create" /\ c.user = u /\ c.from = call[h].from
    BY <2>2 DEF SessionCall
  <2>4. c \in Calls /\ Holds(c)
    BY <1>3, <1>9, <2>3 DEF Calls, Rotate, Holds, Unfounded, OfSession, OfProved
  <2>5. Holds(c)'
    BY <1>1, <2>1, <2>4 DEF Holds, Exists, Proved
  <2>6. SessionsSound
    BY <2>1 DEF SessionsSound
  <2>7. lineage' \in Seq(Nat) /\ Len(lineage) <= Len(lineage') /\ bearer' \in SUBSET Users
    BY <1>4, <2>1
  <2>. QED
    BY <1>1, <1>5, <2>1, <2>4, <2>5, <2>6, <2>7, SessionsMove
<1>10. CASE DeleteSessions(h)
  <2>1. UNCHANGED <<lineage, bearer>> /\ SessionsSound /\ Goes(Idle)
    BY <1>10 DEF DeleteSessions, SessionsSound, End, Continue
  <2>2. lineage' \in Seq(Nat) /\ Len(lineage) <= Len(lineage') /\ bearer' \in SUBSET Users
    BY <1>4, <2>1
  <2>. QED
    BY <1>1, <1>5, <2>1, <2>2, SessionsMove
<1>. QED
  BY <1>6, <1>7, <1>8, <1>9, <1>10

LEMMA ProceedSound ==
    ASSUME SoundInv, NEW h \in Handlers, Proceed(h)
    PROVE  StepSound
<1>1. CASE \/ DeleteOtp(h) \/ ExpireOtps(h) \/ StoreOtp(h)
           \/ ReadOtp(h) \/ MissOtp(h) \/ SpendOtp(h) \/ MarkSent(h)
  BY <1>1, CodesProceed
<1>2. CASE \/ CreateUser(h) \/ MergeGoogleAccount(h) \/ CreateGoogleUser(h)
           \/ UpdateEmailVerified(h) \/ MarkIncomplete(h) \/ UpdateCountry(h)
           \/ StorePassword(h) \/ ResetPassword(h)
           \/ WriteSuspended(h) \/ WriteReactivated(h)
  <2>1. call[h].at # "idle"
    BY <1>2 DEF CreateUser, MergeGoogleAccount, CreateGoogleUser, UpdateEmailVerified,
                MarkIncomplete, UpdateCountry, StorePassword, ResetPassword, WriteSuspended,
                WriteReactivated
  <2>2. call[h].user \in Users
    BY <2>1, Held
  <2>. QED
    BY <1>2, <2>2, AccountsProceed
<1>3. CASE RereadUser(h) \/ CreateSession(h) \/ CheckUser(h) \/ Rotate(h) \/ DeleteSessions(h)
  <2>1. call[h].at # "idle"
    BY <1>3 DEF RereadUser, CreateSession, CheckUser, Rotate, DeleteSessions
  <2>2. call[h].user \in Users
    BY <2>1, Held
  <2>. QED
    BY <1>3, <2>2, SessionsProceed
<1>. QED
  BY <1>1, <1>2, <1>3 DEF Proceed

LEMMA SurroundingsSound ==
    ASSUME SoundInv, TimePasses \/ Restart \/ UNCHANGED vars
    PROVE  SoundInv'
<1>1. ASSUME NEW i \in DOMAIN otps, OtpExpires(i) PROVE SoundInv'
  <2>1. otps \in Seq(Otp)
    BY DEF SoundInv, RowsSound
  <2>2. \A o \in Otp : [o EXCEPT !.state = "expired"] \in Otp
    BY DEF Otp
  <2>3. otps' \in [1..Len(otps) -> Otp]
    BY <1>1, <2>1, <2>2, OtpsTyped DEF OtpExpires
  <2>4. otps' \in Seq(Otp) /\ DOMAIN otps \subseteq DOMAIN otps'
    BY <2>1, <2>3, OtpsTyped
  <2>5. UNCHANGED <<account, sessions, lineage, bearer, call, requests, crashes>>
    BY <1>1 DEF OtpExpires
  <2>6. StepSound
    BY <2>4, <2>5 DEF SoundInv, RowsSound, StepSound, Growing, CallMoved, SessionsSound,
                      Exists, Proved
  <2>. QED
    BY <2>6, SoundFromStep
<1>2. ASSUME NEW s \in sessions, SessionEnds(s) PROVE SoundInv'
  <2>1. StepSound
    BY <1>2 DEF SessionEnds, SoundInv, RowsSound, StepSound, Growing, CallMoved,
                SessionsSound, Exists, Proved
  <2>. QED
    BY <2>1, SoundFromStep
<1>3. CASE Restart
  <2>1. UNCHANGED <<account, otps, sessions, lineage, bearer, requests>> /\ crashes' \in Nat
        /\ call' = [h \in Handlers |-> Idle]
    BY <1>3 DEF Restart, SoundInv, RowsSound
  <2>2. RowsSound'
    BY <2>1 DEF SoundInv, RowsSound, Exists
  <2>3. TypeOK'
    BY <2>1, IdleHolds DEF SoundInv, TypeOK
  <2>4. (\A h \in Handlers : Holds(call[h]))'
    BY <2>1 DEF Holds, Idle, Unfounded, OfSession, OfProved
  <2>5. (\A s \in sessions : SessionSound(s))'
    BY <2>1 DEF SoundInv, SessionSound, Exists, Proved
  <2>. QED
    BY <2>2, <2>3, <2>4, <2>5 DEF SoundInv
<1>4. CASE UNCHANGED vars
  <2>1. StepSound
    BY <1>4 DEF vars, SoundInv, RowsSound, StepSound, Growing, CallMoved,
                SessionsSound, Exists, Proved
  <2>. QED
    BY <2>1, SoundFromStep
<1>. QED
  BY <1>1, <1>2, <1>3, <1>4 DEF TimePasses

LEMMA NextSound == SoundInv /\ [Next]_vars => SoundInv'
<1>. SUFFICES ASSUME SoundInv, [Next]_vars PROVE SoundInv'
  OBVIOUS
<1>1. ASSUME NEW h \in Handlers, NEW u \in Users, Ask(h, u) PROVE SoundInv'
  BY <1>1, AskSound, SoundFromStep
<1>2. ASSUME NEW h \in Handlers, Proceed(h) PROVE SoundInv'
  BY <1>2, ProceedSound, SoundFromStep
<1>3. CASE TimePasses \/ Restart \/ UNCHANGED vars
  BY <1>3, SurroundingsSound
<1>. QED
  BY <1>1, <1>2, <1>3 DEF Next

LEMMA AlwaysSound == Spec => []SoundInv
  BY InitSound, NextSound, PTL DEF Spec

\* The rows keep their types, sessions belong to proved accounts and complete accounts
\* are complete, whichever handlers write which columns of an account in between.
THEOREM AccountsAreSound == Spec => []AccountsSound
<1>1. SoundInv => AccountsSound
  <2>. SUFFICES ASSUME SoundInv PROVE AccountsSound
    OBVIOUS
  <2>1. SessionsAreVerified
    BY DEF SoundInv, SessionSound, Proved, SessionsAreVerified
  <2>2. ActiveIsComplete
    BY DEF SoundInv, RowsSound, RowKept, ActiveIsComplete, Status, Exists, NoAccount
  <2>. QED
    BY <2>1, <2>2 DEF SoundInv, AccountsSound
<1>. QED
  BY <1>1, AlwaysSound, PTL

----------------------------------------------------------------------------
(* Rotation *)

\* A refresh that has taken its token and is about to store the next one.
Rotates(h) == call[h].at = "session.create" /\ call[h].from # 0

Unused(t) == (\A s \in sessions : s.token # t) /\ (\A r \in Tokens : lineage[r] # t)

\* A token is newer than the one it replaced, and what a handler has taken is neither
\* a session any more nor taken by another.
RotationInv ==
    /\ \A t \in Tokens : lineage[t] < t
    /\ RotatedOnce
    /\ \A h \in Handlers : Rotates(h) => Unused(call[h].from)
    /\ \A g, h \in Handlers :
           Rotates(g) /\ Rotates(h) /\ call[g].from = call[h].from => g = h

\* A step of one handler that neither rotates nor stores a session: it leaves the
\* sessions that are not deleted, and a session it is to store is of a login.
Calm(h) ==
    /\ UNCHANGED <<lineage, crashes>>
    /\ sessions' \subseteq sessions
    /\ \E c : call' = [call EXCEPT ![h] = c] /\ (c.at = "session.create" => c.from = 0)

LEMMA AskIsCalm ==
    ASSUME NEW h \in Handlers, NEW u \in Users, Ask(h, u)
    PROVE  Calm(h) /\ account' = account /\ call[h] = Idle
<1>1. ASSUME NEW c, Begin(h, c), UNCHANGED <<account, otps, sessions, lineage, bearer, crashes>>,
             c.at = "session.create" => c.from = 0
      PROVE  Calm(h) /\ account' = account /\ call[h] = Idle
  BY <1>1 DEF Begin, Calm
<1>2. CASE Signup(h, u) \/ Login(h, u) \/ ResendOtp(h, u) \/ ForgotPassword(h, u)
           \/ SendOtp(h, u) \/ CompleteProfile(h, u) \/ SetPassword(h, u)
           \/ SuspendUser(h, u) \/ ReactivateUser(h, u)
  BY <1>1, <1>2 DEF Signup, Login, ResendOtp, ForgotPassword, SendOtp, CompleteProfile,
                    SetPassword, SuspendUser, ReactivateUser
<1>3. CASE HandleGoogleLogin(h, u)
  BY <1>1, <1>3 DEF HandleGoogleLogin
<1>4. ASSUME NEW purpose \in {"email", "reset"}, NEW code \in {0} \cup DOMAIN otps,
             EnterCode(h, u, purpose, code)
      PROVE  Calm(h) /\ account' = account /\ call[h] = Idle
  BY <1>1, <1>4 DEF EnterCode
<1>5. ASSUME NEW s \in SessionsOf(u), RefreshToken(h, s)
      PROVE  Calm(h) /\ account' = account /\ call[h] = Idle
  BY <1>1, <1>5 DEF RefreshToken
<1>. QED
  BY <1>2, <1>3, <1>4, <1>5 DEF Ask

LEMMA ProceedIsCalm ==
    ASSUME SoundInv, NEW h \in Handlers, Proceed(h), ~CreateSession(h), ~Rotate(h)
    PROVE  Calm(h)
<1>1. CASE \/ DeleteOtp(h) \/ ExpireOtps(h) \/ StoreOtp(h) \/ MissOtp(h) \/ SpendOtp(h)
           \/ MarkSent(h)
  BY <1>1 DEF DeleteOtp, ExpireOtps, StoreOtp, MissOtp, SpendOtp, MarkSent, Then, End,
              Continue, Calm, Idle
<1>2. CASE ReadOtp(h)
  <2>1. call[h] \in EnterCall
    BY <1>2, Held, CallShapes DEF ReadOtp
  <2>. DEFINE at == IF LatestOtp(call[h].user) = call[h].entered THEN "code.spend" ELSE "code.miss"
              c == [call[h] EXCEPT !.at = at, !.row = LatestOtp(call[h].user),
                                   !.attempts = otps[LatestOtp(call[h].user)].attempts]
  <2>2. call' = [call EXCEPT ![h] = Idle] \/ call' = [call EXCEPT ![h] = c]
    BY <1>2 DEF ReadOtp, End, Continue
  <2>3. c.at # "session.create"
    BY <2>1 DEF EnterCall
  <2>4. UNCHANGED <<lineage, crashes>> /\ sessions' \subseteq sessions
    BY <1>2 DEF ReadOtp
  <2>. HIDE DEF c
  <2>. QED
    BY <2>2, <2>3, <2>4 DEF Calm, Idle
<1>3. CASE \/ CreateUser(h) \/ MergeGoogleAccount(h) \/ CreateGoogleUser(h)
           \/ UpdateEmailVerified(h) \/ RereadUser(h) \/ MarkIncomplete(h) \/ UpdateCountry(h)
  BY <1>3 DEF CreateUser, MergeGoogleAccount, CreateGoogleUser, UpdateEmailVerified, RereadUser,
              MarkIncomplete, UpdateCountry, StoreNext, Then, End, Continue, Calm, Idle
<1>4. CASE \/ StorePassword(h) \/ ResetPassword(h) \/ WriteSuspended(h) \/ WriteReactivated(h)
           \/ DeleteSessions(h)
  BY <1>4 DEF StorePassword, ResetPassword, WriteSuspended, WriteReactivated, DeleteSessions,
              Then, End, Continue, Calm, Idle
<1>5. CASE CheckUser(h)
  <2>1. call[h] \in SessionCall
    BY <1>5, Held, CallShapes DEF CheckUser, OfSession
  <2>. DEFINE c == [call[h] EXCEPT !.at = "refresh.rotate"]
              d == [at |-> "sessions.delete", user |-> call[h].user]
  <2>2. call' = [call EXCEPT ![h] = d] \/ call' = [call EXCEPT ![h] = c]
    BY <1>5 DEF CheckUser, Then, Continue
  <2>3. c.at # "session.create" /\ d.at # "session.create"
    BY <2>1 DEF SessionCall
  <2>4. UNCHANGED <<lineage, crashes>> /\ sessions' \subseteq sessions
    BY <1>5 DEF CheckUser
  <2>. HIDE DEF c, d
  <2>. QED
    BY <2>2, <2>3, <2>4 DEF Calm
<1>. QED
  BY <1>1, <1>2, <1>3, <1>4, <1>5 DEF Proceed

LEMMA CallsAre == SoundInv => call \in [Handlers -> Calls]
  BY DEF SoundInv, TypeOK

LEMMA CalmRotation ==
    ASSUME SoundInv, RotationInv, NEW h \in Handlers, Calm(h)
    PROVE  RotationInv'
<1>1. PICK c : call' = [call EXCEPT ![h] = c] /\ (c.at = "session.create" => c.from = 0)
  BY DEF Calm
<1>2. /\ \A g \in Handlers : g # h => call'[g] = call[g]
      /\ call'[h] = c
  BY <1>1, CallsAre
<1>3. \A g \in Handlers : Rotates(g)' => Rotates(g) /\ call'[g] = call[g]
  BY <1>1, <1>2 DEF Rotates
<1>4. lineage' = lineage /\ Tokens' = Tokens /\ sessions' \subseteq sessions
  BY DEF Calm, Tokens
<1>5. (\A t \in Tokens : lineage[t] < t)' /\ RotatedOnce'
  BY <1>4 DEF RotationInv, RotatedOnce
<1>6. (\A g \in Handlers : Rotates(g) => Unused(call[g].from))'
  BY <1>3, <1>4 DEF RotationInv, Unused
<1>7. (\A f, g \in Handlers :
           Rotates(f) /\ Rotates(g) /\ call[f].from = call[g].from => f = g)'
  BY <1>3 DEF RotationInv
<1>. QED
  BY <1>5, <1>6, <1>7 DEF RotationInv

LEMMA RotateRotation ==
    ASSUME SoundInv, RotationInv, NEW h \in Handlers, Rotate(h)
    PROVE  RotationInv'
<1>. PICK f : f = call[h].from
  OBVIOUS
<1>. PICK own : own = {s \in sessions : s.token = f}
  OBVIOUS
<1>1. lineage' = lineage /\ Tokens' = Tokens /\ sessions' = sessions \ own
  BY DEF Rotate, Tokens
<1>2. CASE own = {}
  <2>1. Calm(h)
    BY <1>1, <1>2 DEF Rotate, End, Continue, Calm, Idle
  <2>. QED
    BY <2>1, CalmRotation
<1>3. CASE own # {}
  <2>1. PICK c : c = [call[h] EXCEPT !.at = "session.create"]
    OBVIOUS
  <2>2. call' = [call EXCEPT ![h] = c]
    BY <1>3, <2>1 DEF Rotate, Continue
  <2>3. call[h] \in SessionCall
    BY Held, CallShapes DEF Rotate, OfSession
  <2>4. c.from = f
    BY <2>1, <2>3 DEF SessionCall
  <2>5. call'[h] = c /\ \A g \in Handlers : g # h => call'[g] = call[g]
    BY <2>2, CallsAre
  <2>6. PICK s \in sessions : s.token = f
    BY <1>3
  <2>7. \A r \in Tokens : lineage[r] # f
    BY <2>6 DEF RotationInv, RotatedOnce
  <2>8. Unused(f)'
    BY <1>1, <2>7 DEF Unused
  <2>9. \A g \in Handlers : g # h /\ Rotates(g) => call[g].from # f
    BY <2>6 DEF RotationInv, Unused
  <2>10. \A g \in Handlers : g # h /\ Rotates(g)' => Rotates(g) /\ call'[g].from = call[g].from
    BY <2>5 DEF Rotates
  <2>11. (\A t \in Tokens : lineage[t] < t)' /\ RotatedOnce'
    BY <1>1 DEF RotationInv, RotatedOnce
  <2>12. (\A g \in Handlers : Rotates(g) => Unused(call[g].from))'
    <3>1. ASSUME NEW g \in Handlers, Rotates(g)', g # h PROVE (Unused(call[g].from))'
      BY <1>1, <2>10, <3>1 DEF RotationInv, Unused
    <3>2. (Unused(call[h].from))'
      BY <2>4, <2>5, <2>8 DEF Unused
    <3>. QED
      BY <3>1, <3>2
  <2>13. (\A e, g \in Handlers :
              Rotates(e) /\ Rotates(g) /\ call[e].from = call[g].from => e = g)'
    BY <2>4, <2>5, <2>9, <2>10 DEF RotationInv
  <2>. QED
    BY <2>11, <2>12, <2>13 DEF RotationInv
<1>. QED
  BY <1>2, <1>3

LEMMA CreateRotation ==
    ASSUME SoundInv, RotationInv, NEW h \in Handlers, CreateSession(h)
    PROVE  RotationInv'
<1>. PICK f, n : f = call[h].from /\ n = Len(lineage)
  OBVIOUS
<1>1. call[h] \in SessionCall /\ f \in Nat /\ f <= n
  BY Held, CallShapes DEF CreateSession, OfSession, SessionCall, Holds
<1>2. lineage \in Seq(Nat) /\ n \in Nat /\ Tokens = 1..n
  BY LenProperties DEF SoundInv, RowsSound, Tokens
<1>3. lineage' = Append(lineage, f)
  BY DEF CreateSession
<1>4. /\ Tokens' = 1..(n + 1)
      /\ \A t \in Tokens : lineage'[t] = lineage[t]
      /\ lineage'[n + 1] = f
  <2>1. lineage' \in Seq(Nat) /\ Len(lineage') = n + 1
    BY <1>1, <1>2, <1>3, AppendProperties
  <2>. QED
    BY <1>1, <1>2, <1>3, <2>1, AppendProperties, LenProperties DEF Tokens
<1>5. \A t \in Tokens : lineage[t] \in Nat /\ lineage[t] < t
  BY <1>2, ElementOfSeq DEF RotationInv, Tokens
<1>6. PICK s : s = [token |-> n + 1, user |-> call[h].user, epoch |-> account[call[h].user].epoch]
  OBVIOUS
<1>7. sessions' = sessions \cup {s} /\ s.token = n + 1
  BY <1>6 DEF CreateSession
<1>8. call' = [call EXCEPT ![h] = Idle]
  BY DEF CreateSession, End, Continue
<1>9. call'[h] = Idle /\ \A g \in Handlers : g # h => call'[g] = call[g]
  BY <1>8, CallsAre
<1>10. \A g \in Handlers : Rotates(g)' => g # h /\ Rotates(g) /\ call'[g] = call[g]
  BY <1>9 DEF Rotates, Idle
<1>11. f # 0 => Unused(f)
  BY DEF CreateSession, RotationInv, Rotates
<1>12. (\A t \in Tokens : lineage[t] < t)'
  <2>. SUFFICES ASSUME NEW t \in 1..(n + 1) PROVE lineage'[t] < t
    BY <1>4
  <2>1. CASE t = n + 1
    BY <1>1, <1>2, <1>4, <2>1
  <2>2. CASE t # n + 1
    <3>1. t \in Tokens
      BY <1>2, <2>2
    <3>. QED
      BY <1>4, <1>5, <3>1
  <2>. QED
    BY <2>1, <2>2
<1>13. ASSUME NEW r \in 1..(n + 1), NEW t \in 1..(n + 1), lineage'[r] = lineage'[t], lineage'[r] # 0
       PROVE  r = t
  <2>1. (r \in Tokens \/ r = n + 1) /\ (t \in Tokens \/ t = n + 1)
    BY <1>2
  <2>2. CASE r \in Tokens /\ t \in Tokens
    BY <1>4, <1>13, <2>2 DEF RotationInv, RotatedOnce
  <2>3. CASE r \in Tokens /\ t = n + 1
    BY <1>4, <1>11, <1>13, <2>3 DEF Unused
  <2>4. CASE r = n + 1 /\ t \in Tokens
    BY <1>4, <1>11, <1>13, <2>4 DEF Unused
  <2>. QED
    BY <2>1, <2>2, <2>3, <2>4
<1>14. ASSUME NEW q \in sessions', NEW t \in 1..(n + 1) PROVE lineage'[t] # q.token
  <2>1. t \in Tokens \/ t = n + 1
    BY <1>2
  <2>2. CASE q = s
    <3>1. q.token = n + 1
      BY <1>7, <2>2
    <3>2. CASE t \in Tokens
      BY <1>2, <1>4, <1>5, <3>1, <3>2
    <3>3. CASE t = n + 1
      BY <1>1, <1>2, <1>4, <3>1, <3>3
    <3>. QED
      BY <2>1, <3>2, <3>3
  <2>3. CASE q \in sessions
    <3>1. q.token \in 1..n
      BY <2>3 DEF SoundInv, SessionSound
    <3>2. CASE t \in Tokens
      BY <1>4, <2>3, <3>2 DEF RotationInv, RotatedOnce
    <3>3. CASE t = n + 1
      BY <1>2, <1>4, <1>11, <2>3, <3>1, <3>3 DEF Unused
    <3>. QED
      BY <2>1, <3>2, <3>3
  <2>. QED
    BY <1>7, <2>2, <2>3
<1>15. RotatedOnce'
  BY <1>4, <1>13, <1>14 DEF RotatedOnce
<1>16. (\A g \in Handlers : Rotates(g) => Unused(call[g].from))'
  <2>. SUFFICES ASSUME NEW g \in Handlers, Rotates(g)' PROVE (Unused(call[g].from))'
    OBVIOUS
  <2>. PICK e : e = call[g].from
    OBVIOUS
  <2>1. g # h /\ Rotates(g) /\ call'[g].from = e
    BY <1>10
  <2>2. Unused(e) /\ e # 0
    BY <2>1 DEF RotationInv, Rotates
  <2>3. call[g] \in SessionCall /\ e \in Nat /\ e <= n
    BY <2>1, Held, CallShapes DEF Rotates, OfSession, SessionCall, Holds
  <2>4. f # e
    BY <2>1, <2>2 DEF RotationInv, Rotates, CreateSession
  <2>5. \A q \in sessions' : q.token # e
    BY <1>2, <1>7, <2>2, <2>3 DEF Unused
  <2>6. \A r \in 1..(n + 1) : lineage'[r] # e
    BY <1>2, <1>4, <2>2, <2>4 DEF Unused
  <2>. QED
    BY <1>4, <2>1, <2>5, <2>6 DEF Unused
<1>17. (\A e, g \in Handlers :
            Rotates(e) /\ Rotates(g) /\ call[e].from = call[g].from => e = g)'
  BY <1>10 DEF RotationInv
<1>. QED
  BY <1>12, <1>15, <1>16, <1>17 DEF RotationInv

LEMMA NextRotation == SoundInv /\ RotationInv /\ [Next]_vars => RotationInv'
<1>. SUFFICES ASSUME SoundInv, RotationInv, [Next]_vars PROVE RotationInv'
  OBVIOUS
<1>1. ASSUME NEW h \in Handlers, NEW u \in Users, Ask(h, u) PROVE RotationInv'
  BY <1>1, AskIsCalm, CalmRotation
<1>2. ASSUME NEW h \in Handlers, Proceed(h) PROVE RotationInv'
  BY <1>2, ProceedIsCalm, CalmRotation, RotateRotation, CreateRotation
<1>3. ASSUME UNCHANGED <<lineage, call>>, sessions' \subseteq sessions PROVE RotationInv'
  BY <1>3 DEF RotationInv, RotatedOnce, Tokens, Rotates, Unused
<1>4. CASE TimePasses \/ UNCHANGED vars
  BY <1>3, <1>4 DEF TimePasses, OtpExpires, SessionEnds, vars
<1>5. CASE Restart
  BY <1>5 DEF Restart, RotationInv, RotatedOnce, Tokens, Rotates, Idle
<1>. QED
  BY <1>1, <1>2, <1>4, <1>5 DEF Next

\* However many requests present a refresh token at the same time, and wherever the
\* server restarts, it is exchanged once, and its session does not outlive that.
THEOREM TokensRotateOnce == Spec => []RotatedOnce
<1>1. Init => RotationInv
  BY DEF Init, RotationInv, RotatedOnce, Tokens, Rotates, Idle
<1>2. RotationInv => RotatedOnce
  BY DEF RotationInv
<1>. QED
  BY <1>1, <1>2, AlwaysSound, NextRotation, PTL DEF Spec

----------------------------------------------------------------------------
(* Revocation *)

\* A step that revokes nothing and deletes no sessions of a user at once.
LEMMA RevocationFrame ==
    ASSUME SoundInv, RevokedSessionsGone, NEW h \in Handlers, NEW c,
           call' = [call EXCEPT ![h] = c], call[h].at # "sessions.delete",
           UNCHANGED crashes,
           \A s \in sessions' :
               s.epoch < account'[s.user].epoch => s \in sessions /\ s.epoch < account[s.user].epoch
    PROVE  RevokedSessionsGone'
<1>. SUFFICES ASSUME crashes = 0, NEW s \in sessions', s.epoch < account'[s.user].epoch
              PROVE  \E g \in Handlers : call'[g].at = "sessions.delete" /\ call'[g].user = s.user
  BY DEF RevokedSessionsGone
<1>1. PICK g \in Handlers : call[g].at = "sessions.delete" /\ call[g].user = s.user
  BY DEF RevokedSessionsGone
<1>2. call'[g] = call[g]
  BY <1>1, CallsAre
<1>. QED
  BY <1>1, <1>2

LEMMA SessionsHaveAccounts ==
    SoundInv => \A s \in sessions : s \in Session /\ s.user \in Users /\ account[s.user] \in Account
  BY DEF SoundInv, TypeOK, RowsSound, SessionSound, Exists, Session

LEMMA RevokeRevocation ==
    ASSUME SoundInv, RevokedSessionsGone, NEW h \in Handlers,
           ResetPassword(h) \/ WriteSuspended(h)
    PROVE  RevokedSessionsGone'
<1>. PICK u : u = call[h].user
  OBVIOUS
<1>1. /\ call' = [call EXCEPT ![h] = [at |-> "sessions.delete", user |-> u]]
      /\ sessions' = sessions /\ crashes' = crashes
      /\ call[h].at # "sessions.delete"
  BY DEF ResetPassword, WriteSuspended, Then, Continue
<1>2. call'[h] = [at |-> "sessions.delete", user |-> u]
      /\ \A g \in Handlers : g # h => call'[g] = call[g]
  BY <1>1, CallsAre
<1>3. \A v \in Users : v # u => account'[v] = account[v]
  BY DEF ResetPassword, WriteSuspended, SoundInv, RowsSound
<1>. SUFFICES ASSUME crashes = 0, NEW s \in sessions, s.epoch < account'[s.user].epoch
              PROVE  \E g \in Handlers : call'[g].at = "sessions.delete" /\ call'[g].user = s.user
  BY <1>1 DEF RevokedSessionsGone
<1>4. CASE s.user = u
  BY <1>2, <1>4
<1>5. CASE s.user # u
  <2>1. s.epoch < account[s.user].epoch
    BY <1>3, <1>5, SessionsHaveAccounts
  <2>2. PICK g \in Handlers : call[g].at = "sessions.delete" /\ call[g].user = s.user
    BY <2>1 DEF RevokedSessionsGone
  <2>. QED
    BY <1>1, <1>2, <2>2
<1>. QED
  BY <1>4, <1>5

LEMMA DeleteRevocation ==
    ASSUME SoundInv, RevokedSessionsGone, NEW h \in Handlers, DeleteSessions(h)
    PROVE  RevokedSessionsGone'
<1>1. /\ call' = [call EXCEPT ![h] = Idle] /\ crashes' = crashes /\ account' = account
      /\ \A s \in sessions' : s \in sessions /\ s.user # call[h].user
  BY DEF DeleteSessions, End, Continue, SessionsOf
<1>2. \A g \in Handlers : g # h => call'[g] = call[g]
  BY <1>1, CallsAre
<1>. SUFFICES ASSUME crashes = 0, NEW s \in sessions', s.epoch < account[s.user].epoch
              PROVE  \E g \in Handlers : call'[g].at = "sessions.delete" /\ call'[g].user = s.user
  BY <1>1 DEF RevokedSessionsGone
<1>3. PICK g \in Handlers : call[g].at = "sessions.delete" /\ call[g].user = s.user
  BY <1>1 DEF RevokedSessionsGone
<1>. QED
  BY <1>1, <1>2, <1>3

\* Nothing but a reset of the password and a suspension counts the epoch on.
LEMMA EpochsStay ==
    ASSUME SoundInv, NEW h \in Handlers, Proceed(h), ~ResetPassword(h), ~WriteSuspended(h)
    PROVE  \A u \in Users : account[u] \in Account => account'[u].epoch = account[u].epoch
<1>. PICK w : w = call[h].user
  OBVIOUS
<1>1. account \in [Users -> Account \cup {NoAccount}]
  BY DEF SoundInv, RowsSound
<1>2. CASE account' = account
  BY <1>2
<1>3. CASE CreateUser(h) \/ CreateGoogleUser(h)
  <2>1. \/ account' = account
        \/ ~Exists(w) /\ \A u \in Users : u # w => account'[u] = account[u]
    BY <1>1, <1>3 DEF CreateUser, CreateGoogleUser
  <2>2. ~Exists(w) => account[w] \notin Account
    BY DEF Exists, Account, NoAccount, Statuses
  <2>. QED
    BY <2>1, <2>2
<1>4. CASE \/ MergeGoogleAccount(h) \/ UpdateEmailVerified(h) \/ MarkIncomplete(h)
           \/ UpdateCountry(h) \/ StorePassword(h) \/ WriteReactivated(h)
  BY <1>1, <1>4 DEF MergeGoogleAccount, UpdateEmailVerified, MarkIncomplete, UpdateCountry,
                    StorePassword, WriteReactivated, Account
<1>5. \/ account' = account
      \/ CreateUser(h) \/ CreateGoogleUser(h)
      \/ MergeGoogleAccount(h) \/ UpdateEmailVerified(h) \/ MarkIncomplete(h)
      \/ UpdateCountry(h) \/ StorePassword(h) \/ WriteReactivated(h)
  BY DEF Proceed, DeleteOtp, ExpireOtps, StoreOtp, ReadOtp, MissOtp, SpendOtp, MarkSent,
         RereadUser, CreateSession, CheckUser, Rotate, DeleteSessions
<1>. QED
  BY <1>2, <1>3, <1>4, <1>5

LEMMA NextRevocation == SoundInv /\ RevokedSessionsGone /\ [Next]_vars => RevokedSessionsGone'
<1>. SUFFICES ASSUME SoundInv, RevokedSessionsGone, [Next]_vars PROVE RevokedSessionsGone'
  OBVIOUS
<1>1. ASSUME NEW h \in Handlers, NEW u \in Users, Ask(h, u) PROVE RevokedSessionsGone'
  <2>1. Calm(h) /\ account' = account /\ call[h] = Idle
    BY <1>1, AskIsCalm
  <2>2. PICK c : call' = [call EXCEPT ![h] = c]
    BY <2>1 DEF Calm
  <2>3. /\ call[h].at # "sessions.delete" /\ UNCHANGED crashes
        /\ \A s \in sessions' :
               s.epoch < account'[s.user].epoch => s \in sessions /\ s.epoch < account[s.user].epoch
    BY <2>1 DEF Calm, Idle
  <2>. QED
    BY <2>2, <2>3, RevocationFrame
<1>2. ASSUME NEW h \in Handlers, Proceed(h), ~ResetPassword(h), ~WriteSuspended(h),
             ~DeleteSessions(h), ~CreateSession(h)
      PROVE  RevokedSessionsGone'
  <2>1. /\ call[h].at # "sessions.delete" /\ UNCHANGED crashes /\ sessions' \subseteq sessions
        /\ \E c : call' = [call EXCEPT ![h] = c]
    <3>1. call[h].at # "sessions.delete"
      BY <1>2 DEF Proceed, DeleteOtp, ExpireOtps, StoreOtp, ReadOtp, MissOtp, SpendOtp, MarkSent,
         CreateUser, MergeGoogleAccount, CreateGoogleUser, UpdateEmailVerified, RereadUser,
         MarkIncomplete, UpdateCountry, StorePassword, ResetPassword, CreateSession, CheckUser,
         Rotate, WriteSuspended, WriteReactivated
    <3>2. CASE Rotate(h)
      BY <3>1, <3>2 DEF Rotate, End, Continue
    <3>3. CASE ~Rotate(h)
      BY <1>2, <3>1, <3>3, ProceedIsCalm DEF Calm
    <3>. QED
      BY <3>2, <3>3
  <2>2. PICK c : call' = [call EXCEPT ![h] = c]
    BY <2>1
  <2>3. \A s \in sessions' :
            s.epoch < account'[s.user].epoch => s \in sessions /\ s.epoch < account[s.user].epoch
    BY <1>2, <2>1, EpochsStay, SessionsHaveAccounts
  <2>. QED
    BY <2>1, <2>2, <2>3, RevocationFrame
<1>3. ASSUME NEW h \in Handlers, CreateSession(h) PROVE RevokedSessionsGone'
  <2>1. PICK s : s = [token |-> Len(lineage) + 1, user |-> call[h].user,
                      epoch |-> account[call[h].user].epoch]
    OBVIOUS
  <2>2. /\ sessions' = sessions \cup {s} /\ account' = account /\ UNCHANGED crashes
        /\ call[h].at # "sessions.delete"
        /\ call' = [call EXCEPT ![h] = Idle]
    BY <1>3, <2>1 DEF CreateSession, End, Continue
  <2>3. ~(s.epoch < account[s.user].epoch)
    <3>1. account[call[h].user] \in Account
      BY <1>3, Held DEF CreateSession, Unfounded
    <3>2. account[call[h].user].epoch \in Nat
      BY <3>1 DEF Account
    <3>. QED
      BY <2>1, <3>2
  <2>4. \A q \in sessions' :
            q.epoch < account'[q.user].epoch => q \in sessions /\ q.epoch < account[q.user].epoch
    BY <2>2, <2>3
  <2>. QED
    BY <2>2, <2>4, RevocationFrame
<1>4. CASE TimePasses \/ UNCHANGED vars
  BY <1>4 DEF TimePasses, OtpExpires, SessionEnds, vars, RevokedSessionsGone
<1>5. CASE Restart
  BY <1>5 DEF Restart, RevokedSessionsGone, SoundInv, RowsSound
<1>. QED
  BY <1>1, <1>2, <1>3, <1>4, <1>5, RevokeRevocation, DeleteRevocation DEF Next

\* Without a restart between its two writes, a suspension or a reset of the password
\* leaves no session stored before it, for any number of requests at the same time.
THEOREM RevokedAreGone == Spec => []RevokedSessionsGone
<1>1. Init => RevokedSessionsGone
  BY DEF Init, RevokedSessionsGone
<1>. QED
  BY <1>1, AlwaysSound, NextRevocation, PTL DEF Spec

----------------------------------------------------------------------------
(* Phone codes *)

\* The requests that have counted what was sent to the user, and not marked it yet.
Marking(u) == {h \in Handlers : call[h].at = "phone.mark" /\ call[h].user = u}

\* The code that was entered, and what is about to be spent, is the code of a mail.
HoldsMail(c) ==
    /\ c.at = "code.read" /\ c.entered # 0 =>
           c.entered \in DOMAIN otps /\ otps[c.entered].kind = "mail"
    /\ c.at = "code.spend" => c.row \in DOMAIN otps /\ otps[c.row].kind = "mail"

\* A request that was allowed to send counts as if it had.  A request that counts at
\* the limit leaves room for the others, and for itself it is allowed below the limit.
SendsBounded(u) ==
    Cardinality(SentThisHour(u)) + Cardinality(Marking(u))
        <= SendLimit + Cardinality(Handlers) - 1

SendsInv ==
    /\ \A h \in Handlers : HoldsMail(call[h])
    /\ \A u \in Users : SendsBounded(u)

\* What every step but the mark does to the table: rows keep their kind, and none
\* comes into the hour.
TableCalm ==
    /\ \A i \in DOMAIN otps : i \in DOMAIN otps' /\ otps'[i].kind = otps[i].kind
    /\ \A u \in Users : SentThisHour(u)' \subseteq SentThisHour(u)

LEMMA SentIsFinite ==
    ASSUME otps \in Seq(Otp), NEW u
    PROVE  IsFiniteSet(SentThisHour(u)) /\ Cardinality(SentThisHour(u)) \in Nat
<1>1. Len(otps) \in Nat /\ DOMAIN otps = 1..Len(otps)
  BY OtpsTyped
<1>2. SentThisHour(u) \in SUBSET (1..Len(otps)) /\ IsFiniteSet(1..Len(otps))
  BY <1>1, FS_Interval DEF SentThisHour
<1>. QED
  BY <1>2, FS_Subset, FS_CardinalityType

LEMMA MarkingIsFinite ==
    ASSUME NEW u
    PROVE  /\ IsFiniteSet(Marking(u)) /\ Cardinality(Marking(u)) \in Nat
           /\ Cardinality(Marking(u)) <= Cardinality(Handlers)
           /\ IsFiniteSet(Handlers) /\ Cardinality(Handlers) \in Nat
<1>1. IsFiniteSet(Handlers) /\ Marking(u) \in SUBSET Handlers
  BY AccountsAssumption DEF Marking
<1>2. IsFiniteSet(Marking(u)) /\ Cardinality(Marking(u)) <= Cardinality(Handlers)
  BY <1>1, FS_Subset
<1>. QED
  BY <1>1, <1>2, FS_CardinalityType

\* Fewer rows in the hour and fewer requests on their way keep the bound.
LEMMA FewerKeepBound ==
    ASSUME SoundInv, SoundInv', NEW u \in Users, SendsBounded(u),
           SentThisHour(u)' \subseteq SentThisHour(u), Marking(u)' \subseteq Marking(u)
    PROVE  SendsBounded(u)'
<1>. DEFINE S == SentThisHour(u)
            T == SentThisHour(u)'
            M == Marking(u)
            N == Marking(u)'
<1>1. /\ IsFiniteSet(S) /\ Cardinality(S) \in Nat
      /\ IsFiniteSet(M) /\ Cardinality(M) \in Nat /\ Cardinality(Handlers) \in Nat
  BY SentIsFinite, MarkingIsFinite DEF SoundInv, TypeOK
<1>2. T \in SUBSET S /\ N \in SUBSET M
  OBVIOUS
<1>. SUFFICES Cardinality(T) + Cardinality(N) <= SendLimit + Cardinality(Handlers) - 1
  BY DEF SendsBounded
<1>. HIDE DEF S, T, M, N
<1>3. /\ IsFiniteSet(T) /\ Cardinality(T) <= Cardinality(S)
      /\ IsFiniteSet(N) /\ Cardinality(N) <= Cardinality(M)
  BY <1>1, <1>2, FS_Subset
<1>4. Cardinality(T) \in Nat /\ Cardinality(N) \in Nat
  BY <1>3, FS_CardinalityType
<1>5. Cardinality(S) + Cardinality(M) <= SendLimit + Cardinality(Handlers) - 1
  BY DEF SendsBounded, S, M
<1>. QED
  BY <1>1, <1>3, <1>4, <1>5, AccountsAssumption

\* A step of a handler that is not on its way to mark what it sends afterwards.
LEMMA CalmSends ==
    ASSUME SoundInv, SoundInv', SendsInv, TableCalm, NEW h \in Handlers, NEW c,
           call' = [call EXCEPT ![h] = c], c.at # "phone.mark", HoldsMail(c)'
    PROVE  SendsInv'
<1>1. call \in [Handlers -> Calls]
  BY CallsAre
<1>2. call'[h] = c /\ \A g \in Handlers : g # h => call'[g] = call[g]
  BY <1>1
<1>3. ASSUME NEW g \in Handlers PROVE HoldsMail(call[g])'
  <2>1. CASE g = h
    BY <1>2, <2>1 DEF HoldsMail
  <2>2. CASE g # h
    BY <1>2, <2>2 DEF HoldsMail, SendsInv, TableCalm
  <2>. QED
    BY <2>1, <2>2
<1>4. ASSUME NEW u \in Users PROVE SendsBounded(u)'
  <2>1. Marking(u)' \subseteq Marking(u)
    BY <1>2 DEF Marking
  <2>2. SentThisHour(u)' \subseteq SentThisHour(u) /\ SendsBounded(u)
    BY DEF SendsInv, TableCalm
  <2>. QED
    BY <2>1, <2>2, FewerKeepBound
<1>. QED
  BY <1>3, <1>4 DEF SendsInv

\* Rows of which none is new, and none returns from "expired" into the hour.
LEMMA RowsCalm ==
    ASSUME DOMAIN otps' = DOMAIN otps,
           \A i \in DOMAIN otps :
               /\ otps'[i].kind = otps[i].kind /\ otps'[i].user = otps[i].user
               /\ otps[i].kind = "phone" /\ otps[i].state = "expired" => otps'[i].state = "expired"
    PROVE  TableCalm
  BY DEF TableCalm, SentThisHour

LEMMA SameCalm == otps' = otps => TableCalm
  BY DEF TableCalm, SentThisHour

LEMMA SendSends ==
    ASSUME SoundInv, SoundInv', SendsInv, NEW h \in Handlers, NEW u \in Users, SendOtp(h, u)
    PROVE  SendsInv'
<1>1. /\ call' = [call EXCEPT ![h] = [at |-> "phone.mark", user |-> u]]
      /\ otps' = otps /\ Cardinality(SentThisHour(u)) < SendLimit
  BY DEF SendOtp, Begin
<1>2. /\ call'[h] = [at |-> "phone.mark", user |-> u]
      /\ \A g \in Handlers : g # h => call'[g] = call[g]
  BY <1>1, CallsAre
<1>3. \A g \in Handlers : HoldsMail(call[g])'
  BY <1>1, <1>2 DEF HoldsMail, SendsInv
<1>4. ASSUME NEW v \in Users PROVE SendsBounded(v)'
  <2>1. SentThisHour(v)' = SentThisHour(v)
    BY <1>1 DEF SentThisHour
  <2>2. CASE v = u
    <3>1. Cardinality(Marking(v)') \in Nat /\ Cardinality(Marking(v)') <= Cardinality(Handlers)
          /\ Cardinality(Handlers) \in Nat
      <4>1. Marking(v)' \in SUBSET Handlers /\ IsFiniteSet(Handlers)
        BY AccountsAssumption DEF Marking
      <4>. QED
        BY <4>1, FS_Subset, FS_CardinalityType
    <3>2. Cardinality(SentThisHour(u)) \in Nat
      BY SentIsFinite DEF SoundInv, TypeOK
    <3>. QED
      BY <1>1, <2>1, <2>2, <3>1, <3>2, AccountsAssumption DEF SendsBounded
  <2>3. CASE v # u
    <3>1. Marking(v)' \subseteq Marking(v)
      BY <1>2, <2>3 DEF Marking
    <3>. QED
      BY <2>1, <3>1, FewerKeepBound DEF SendsInv
  <2>. QED
    BY <2>2, <2>3
<1>. QED
  BY <1>3, <1>4 DEF SendsInv

LEMMA MarkSends ==
    ASSUME SoundInv, SoundInv', SendsInv, NEW h \in Handlers, MarkSent(h)
    PROVE  SendsInv'
<1>. DEFINE u == call[h].user
            o == NewOtp(u, "phone")
<1>1. call[h].at = "phone.mark" /\ otps' = Append(otps, o) /\ call' = [call EXCEPT ![h] = Idle]
  BY DEF MarkSent, End, Continue
<1>2. u \in Users
  BY <1>1, Held
<1>3. call'[h] = Idle /\ \A g \in Handlers : g # h => call'[g] = call[g]
  BY <1>1, CallsAre
<1>4. /\ Len(otps) \in Nat /\ DOMAIN otps = 1..Len(otps)
      /\ DOMAIN otps' = 1..(Len(otps) + 1)
      /\ otps'[Len(otps) + 1] = o
      /\ \A i \in 1..Len(otps) : otps'[i] = otps[i]
  <2>1. o \in Otp /\ otps \in Seq(Otp)
    BY <1>2 DEF NewOtp, Otp, SoundInv, TypeOK
  <2>. HIDE DEF o
  <2>. QED
    BY <1>1, <2>1, OtpsTyped, AppendProperties, LenProperties
<1>5. ASSUME NEW g \in Handlers PROVE HoldsMail(call[g])'
  <2>1. CASE g = h
    BY <1>3, <2>1 DEF HoldsMail, Idle
  <2>2. CASE g # h
    <3>1. HoldsMail(call[g]) /\ call'[g] = call[g]
      BY <1>3, <2>2 DEF SendsInv
    <3>2. \A i \in DOMAIN otps : i \in DOMAIN otps' /\ otps'[i] = otps[i]
      BY <1>4
    <3>. QED
      BY <3>1, <3>2 DEF HoldsMail
  <2>. QED
    BY <2>1, <2>2
<1>6. ASSUME NEW v \in Users PROVE SendsBounded(v)'
  <2>1. CASE v = u
    <3>. DEFINE S == SentThisHour(v)
                M == Marking(v)
    <3>1. IsFiniteSet(S) /\ Cardinality(S) \in Nat /\ IsFiniteSet(M) /\ Cardinality(M) \in Nat
          /\ Cardinality(Handlers) \in Nat
      BY SentIsFinite, MarkingIsFinite DEF SoundInv, TypeOK
    <3>2. SentThisHour(v)' = S \cup {Len(otps) + 1}
      BY <1>4, <2>1 DEF SentThisHour, NewOtp
    <3>3. Len(otps) + 1 \notin S
      BY <1>4 DEF SentThisHour
    <3>4. Marking(v)' = M \ {h} /\ h \in M
      BY <1>1, <1>3, <2>1 DEF Marking, Idle
    <3>5. Cardinality(S) + Cardinality(M) <= SendLimit + Cardinality(Handlers) - 1
      BY DEF SendsInv, SendsBounded
    <3>. HIDE DEF S, M
    <3>6. /\ Cardinality(S \cup {Len(otps) + 1}) = Cardinality(S) + 1
          /\ Cardinality(M \ {h}) = Cardinality(M) - 1
      BY <3>1, <3>3, <3>4, FS_AddElement, FS_RemoveElement
    <3>. QED
      BY <3>1, <3>2, <3>4, <3>5, <3>6, AccountsAssumption DEF SendsBounded
  <2>2. CASE v # u
    <3>1. SentThisHour(v)' \subseteq SentThisHour(v)
      BY <1>4, <2>2 DEF SentThisHour, NewOtp
    <3>2. Marking(v)' \subseteq Marking(v)
      BY <1>3 DEF Marking, Idle
    <3>. QED
      BY <3>1, <3>2, FewerKeepBound DEF SendsInv
  <2>. QED
    BY <2>1, <2>2
<1>. QED
  BY <1>5, <1>6 DEF SendsInv

\* A request that has ended, or goes on to something else than reading a code.
LEMMA ElseHoldsMail ==
    ASSUME NEW c, c.at \notin {"phone.mark", "code.read", "code.spend"}
    PROVE  c.at # "phone.mark" /\ HoldsMail(c)'
  BY DEF HoldsMail

LEMMA IdleHoldsMail == Idle.at # "phone.mark" /\ HoldsMail(Idle)'
  BY DEF HoldsMail, Idle

LEMMA AskSends ==
    ASSUME SoundInv, SoundInv', SendsInv, NEW h \in Handlers, NEW u \in Users, Ask(h, u)
    PROVE  SendsInv'
<1>1. ASSUME NEW c, Begin(h, c), otps' = otps, c.at # "phone.mark", HoldsMail(c)
      PROVE  SendsInv'
  <2>1. call' = [call EXCEPT ![h] = c]
    BY <1>1 DEF Begin
  <2>2. HoldsMail(c)'
    BY <1>1 DEF HoldsMail
  <2>. QED
    BY <1>1, <2>1, <2>2, SameCalm, CalmSends
<1>2. CASE Signup(h, u) \/ Login(h, u) \/ ResendOtp(h, u) \/ ForgotPassword(h, u)
           \/ CompleteProfile(h, u) \/ SetPassword(h, u) \/ SuspendUser(h, u)
           \/ ReactivateUser(h, u)
  BY <1>1, <1>2 DEF Signup, Login, ResendOtp, ForgotPassword, CompleteProfile, SetPassword,
                    SuspendUser, ReactivateUser, HoldsMail
<1>3. CASE HandleGoogleLogin(h, u)
  BY <1>1, <1>3 DEF HandleGoogleLogin, HoldsMail
<1>4. ASSUME NEW purpose \in {"email", "reset"}, NEW code \in {0} \cup DOMAIN otps,
             EnterCode(h, u, purpose, code)
      PROVE  SendsInv'
  <2>1. HoldsMail([at |-> "code.read", for |-> purpose, user |-> u, entered |-> code,
                   row |-> 0, attempts |-> 0])
    BY <1>4 DEF EnterCode, HoldsMail
  <2>. QED
    BY <1>1, <1>4, <2>1 DEF EnterCode
<1>5. ASSUME NEW s \in SessionsOf(u), RefreshToken(h, s) PROVE SendsInv'
  BY <1>1, <1>5 DEF RefreshToken, HoldsMail
<1>. QED
  BY <1>2, <1>3, <1>4, <1>5, SendSends DEF Ask

LEMMA CodesSend ==
    ASSUME SoundInv, SoundInv', SendsInv, NEW h \in Handlers,
           \/ DeleteOtp(h) \/ ExpireOtps(h) \/ StoreOtp(h)
           \/ ReadOtp(h) \/ MissOtp(h) \/ SpendOtp(h)
    PROVE  SendsInv'
<1>. DEFINE u == call[h].user
<1>1. otps \in Seq(Otp)
  BY DEF SoundInv, TypeOK
<1>2. call[h] \in Calls /\ Holds(call[h])
  BY Held
<1>3. HoldsMail(call[h])
  BY DEF SendsInv
<1>. HIDE DEF u
<1>4. CASE DeleteOtp(h) \/ ExpireOtps(h)
  <2>1. PICK at \in {"code.expire", "code.create"} :
            UseAll(u) /\ call' = [call EXCEPT ![h] = [at |-> at, user |-> u]]
    BY <1>4 DEF DeleteOtp, ExpireOtps, Then, Continue, u
  <2>2. /\ DOMAIN otps' = DOMAIN otps
        /\ \A i \in DOMAIN otps : otps[i].state # "live" => otps'[i] = otps[i]
        /\ \A i \in DOMAIN otps : otps'[i] \in {otps[i], [otps[i] EXCEPT !.state = "used"]}
    BY <2>1 DEF UseAll, LiveOtps
  <2>3. \A i \in DOMAIN otps : otps[i] \in Otp
    BY <1>1, OtpsTyped
  <2>4. TableCalm
    BY <2>2, <2>3, RowsCalm DEF Otp
  <2>5. PICK c : c = [at |-> at, user |-> u]
    OBVIOUS
  <2>6. c.at # "phone.mark" /\ HoldsMail(c)'
    BY <2>5, ElseHoldsMail
  <2>7. call' = [call EXCEPT ![h] = c]
    BY <2>1, <2>5
  <2>. QED
    BY <2>4, <2>6, <2>7, CalmSends
<1>5. CASE StoreOtp(h)
  <2>1. otps' = Append(otps, NewOtp(u, "mail")) /\ call' = [call EXCEPT ![h] = Idle]
    BY <1>5 DEF StoreOtp, End, Continue, u
  <2>2. NewOtp(u, "mail") \in Otp
    BY <1>5, Held DEF StoreOtp, NewOtp, Otp, u
  <2>3. /\ Len(otps) \in Nat /\ DOMAIN otps = 1..Len(otps)
        /\ DOMAIN otps' = 1..(Len(otps) + 1)
        /\ otps'[Len(otps) + 1] = NewOtp(u, "mail")
        /\ \A i \in 1..Len(otps) : otps'[i] = otps[i]
    BY <1>1, <2>1, <2>2, OtpsTyped, AppendProperties, LenProperties
  <2>4. TableCalm
    <3>1. \A i \in DOMAIN otps : i \in DOMAIN otps' /\ otps'[i].kind = otps[i].kind
      BY <2>3
    <3>2. \A v \in Users : SentThisHour(v)' \subseteq SentThisHour(v)
      BY <2>3 DEF SentThisHour, NewOtp
    <3>. QED
      BY <3>1, <3>2 DEF TableCalm
  <2>. QED
    BY <2>1, <2>4, CalmSends, IdleHoldsMail
<1>6. CASE ReadOtp(h)
  <2>. DEFINE row == LatestOtp(u)
  <2>1. otps' = otps /\ TableCalm
    BY <1>6, SameCalm DEF ReadOtp
  <2>2. CASE row = 0 \/ IsOtpBlocked(u)
    <3>1. call' = [call EXCEPT ![h] = Idle]
      BY <1>6, <2>2 DEF ReadOtp, End, Continue, u
    <3>. QED
      BY <2>1, <3>1, CalmSends, IdleHoldsMail
  <2>3. CASE row # 0 /\ ~IsOtpBlocked(u)
    <3>. PICK c : c = [call[h] EXCEPT
                    !.at = IF row = call[h].entered THEN "code.spend" ELSE "code.miss",
                    !.row = row, !.attempts = otps[row].attempts]
      OBVIOUS
    <3>1. call' = [call EXCEPT ![h] = c]
      BY <1>6, <2>3 DEF ReadOtp, Continue, u
    <3>2. call[h] \in EnterCall /\ call[h].at = "code.read"
      BY <1>2, <1>6, CallShapes DEF ReadOtp
    <3>3. c.at = (IF row = call[h].entered THEN "code.spend" ELSE "code.miss") /\ c.row = row
      BY <3>2 DEF EnterCall
    <3>. HIDE DEF row
    <3>4. HoldsMail(c) /\ c.at # "phone.mark"
      BY <1>3, <2>3, <3>2, <3>3 DEF HoldsMail
    <3>5. HoldsMail(c)'
      BY <2>1, <3>4 DEF HoldsMail
    <3>. QED
      BY <2>1, <3>1, <3>4, <3>5, CalmSends
  <2>. QED
    BY <2>2, <2>3
<1>7. CASE MissOtp(h)
  <2>1. call[h].row \in DOMAIN otps
    BY <1>2, <1>7 DEF MissOtp, Holds
  <2>2. otps[call[h].row] \in Otp
    BY <1>1, <2>1, OtpsTyped
  <2>3. TableCalm
    BY <1>1, <1>7, <2>1, <2>2, OtpsTyped, RowsCalm DEF MissOtp, Otp
  <2>4. call' = [call EXCEPT ![h] = Idle]
    BY <1>7 DEF MissOtp, End, Continue
  <2>. QED
    BY <2>3, <2>4, CalmSends, IdleHoldsMail
<1>8. CASE SpendOtp(h)
  <2>1. call[h].row \in DOMAIN otps /\ otps[call[h].row].kind = "mail"
    BY <1>3, <1>8 DEF SpendOtp, HoldsMail
  <2>2. otps[call[h].row] \in Otp
    BY <1>1, <2>1, OtpsTyped
  <2>3. TableCalm
    BY <1>1, <1>8, <2>1, <2>2, OtpsTyped, RowsCalm DEF SpendOtp, Otp
  <2>4. PICK at \in {"email.verify", "password.reset"} :
            call' = [call EXCEPT ![h] = [at |-> at, user |-> u]]
    BY <1>8 DEF SpendOtp, Then, Continue, u
  <2>5. PICK c : c = [at |-> at, user |-> u]
    OBVIOUS
  <2>6. c.at # "phone.mark" /\ HoldsMail(c)'
    BY <2>5, ElseHoldsMail
  <2>7. call' = [call EXCEPT ![h] = c]
    BY <2>4, <2>5
  <2>. QED
    BY <2>3, <2>6, <2>7, CalmSends
<1>. QED
  BY <1>4, <1>5, <1>6, <1>7, <1>8

LEMMA ProceedSends ==
    ASSUME SoundInv, SoundInv', SendsInv, NEW h \in Handlers, Proceed(h)
    PROVE  SendsInv'
<1>1. ASSUME NEW c, call' = [call EXCEPT ![h] = c], otps' = otps,
             c.at \notin {"phone.mark", "code.read", "code.spend"}
      PROVE  SendsInv'
  BY <1>1, SameCalm, CalmSends, ElseHoldsMail
<1>2. CASE \/ CreateUser(h) \/ MergeGoogleAccount(h) \/ CreateGoogleUser(h)
           \/ UpdateEmailVerified(h) \/ RereadUser(h) \/ MarkIncomplete(h) \/ UpdateCountry(h)
  BY <1>1, <1>2 DEF CreateUser, MergeGoogleAccount, CreateGoogleUser, UpdateEmailVerified,
                    RereadUser, MarkIncomplete, UpdateCountry, StoreNext, Then, End, Continue, Idle
<1>3. CASE \/ StorePassword(h) \/ ResetPassword(h) \/ WriteSuspended(h) \/ WriteReactivated(h)
           \/ DeleteSessions(h) \/ CreateSession(h)
  BY <1>1, <1>3 DEF StorePassword, ResetPassword, WriteSuspended, WriteReactivated,
                    DeleteSessions, CreateSession, Then, End, Continue, Idle
<1>4. CASE CheckUser(h) \/ Rotate(h)
  <2>1. call[h] \in SessionCall
    BY <1>4, Held, CallShapes DEF CheckUser, Rotate, OfSession
  <2>2. PICK c \in {[at |-> "sessions.delete", user |-> call[h].user], Idle,
                    [call[h] EXCEPT !.at = "refresh.rotate"],
                    [call[h] EXCEPT !.at = "session.create"]} : call' = [call EXCEPT ![h] = c]
    BY <1>4 DEF CheckUser, Rotate, Then, End, Continue
  <2>3. c.at \notin {"phone.mark", "code.read", "code.spend"}
    BY <2>1 DEF SessionCall, Idle
  <2>. QED
    BY <1>1, <1>4, <2>2, <2>3 DEF CheckUser, Rotate
<1>. QED
  BY <1>2, <1>3, <1>4, CodesSend, MarkSends DEF Proceed

LEMMA NextSends == SoundInv /\ SoundInv' /\ SendsInv /\ [Next]_vars => SendsInv'
<1>. SUFFICES ASSUME SoundInv, SoundInv', SendsInv, [Next]_vars PROVE SendsInv'
  OBVIOUS
<1>1. ASSUME TableCalm, call' = call PROVE SendsInv'
  <2>1. \A h \in Handlers : HoldsMail(call[h])'
    BY <1>1 DEF SendsInv, HoldsMail, TableCalm
  <2>2. \A u \in Users : SendsBounded(u)'
    BY <1>1, FewerKeepBound DEF SendsInv, TableCalm, Marking
  <2>. QED
    BY <2>1, <2>2 DEF SendsInv
<1>2. ASSUME NEW i \in DOMAIN otps, OtpExpires(i) PROVE SendsInv'
  <2>1. otps \in Seq(Otp) /\ otps[i] \in Otp
    BY OtpsTyped DEF SoundInv, TypeOK
  <2>2. TableCalm
    BY <1>2, <2>1, OtpsTyped, RowsCalm DEF OtpExpires, Otp
  <2>. QED
    BY <1>1, <1>2, <2>2 DEF OtpExpires
<1>3. CASE (\E s \in sessions : SessionEnds(s)) \/ UNCHANGED vars
  BY <1>1, <1>3, SameCalm DEF SessionEnds, vars
<1>4. CASE Restart
  <2>1. otps' = otps /\ \A h \in Handlers : call'[h] = Idle
    BY <1>4 DEF Restart
  <2>2. \A h \in Handlers : HoldsMail(call[h])'
    BY <2>1 DEF HoldsMail, Idle
  <2>3. \A u \in Users : Marking(u)' \subseteq Marking(u) /\ SentThisHour(u)' \subseteq SentThisHour(u)
    BY <2>1 DEF Marking, Idle, SentThisHour
  <2>. QED
    BY <2>2, <2>3, FewerKeepBound DEF SendsInv
<1>. QED
  BY <1>2, <1>3, <1>4, AskSends, ProceedSends DEF Next, TimePasses

\* Parallel requests count the codes before any has marked its own, and a mail code
\* marks the markers used: no more than the limit and one for every other request are
\* sent within the hour, for any number of requests.
THEOREM SendsStayWithinLimit == Spec => []SendsWithinLimit
<1>1. ASSUME Init, SoundInv PROVE SendsInv
  <2>1. \A h \in Handlers : HoldsMail(call[h])
    BY <1>1 DEF Init, HoldsMail, Idle
  <2>2. ASSUME NEW u \in Users PROVE SendsBounded(u)
    <3>1. SentThisHour(u) = {} /\ Marking(u) = {}
      BY <1>1 DEF Init, SentThisHour, Marking, Idle
    <3>2. Cardinality(Handlers) \in Nat
      BY MarkingIsFinite
    <3>. QED
      BY <3>1, <3>2, FS_EmptySet, AccountsAssumption DEF SendsBounded
  <2>. QED
    BY <2>1, <2>2 DEF SendsInv
<1>2. ASSUME SoundInv, SendsInv PROVE SendsWithinLimit
  <2>. SUFFICES ASSUME NEW u \in Users
                PROVE  Cardinality(SentThisHour(u)) <= SendLimit + Cardinality(Handlers) - 1
    BY DEF SendsWithinLimit
  <2>1. /\ Cardinality(SentThisHour(u)) \in Nat /\ Cardinality(Marking(u)) \in Nat
        /\ Cardinality(Handlers) \in Nat
    BY <1>2, SentIsFinite, MarkingIsFinite DEF SoundInv, TypeOK
  <2>. QED
    BY <1>2, <2>1, AccountsAssumption DEF SendsInv, SendsBounded
<1>3. SoundInv /\ SoundInv' /\ SendsInv /\ [Next]_vars => SendsInv'
  BY NextSends
<1>. QED
  BY <1>1, <1>2, <1>3, AlwaysSound, PTL DEF Spec
=============================================================================
