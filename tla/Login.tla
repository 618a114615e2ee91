------------------------------- MODULE Login -------------------------------
(***************************************************************************)
(* Login to one account: password, second factor, lockouts and sessions    *)
(* (src/auth/auth.service.ts with users, mfa-attempts and sessions).       *)
(*                                                                         *)
(* A login reads the account once and goes on with that copy while other   *)
(* logins, the office and the owner change the account.  Every await       *)
(* between two database calls is a place where they can come in between.   *)
(***************************************************************************)
EXTENDS Integers, Sequences, FiniteSets

CONSTANTS
  None,
  Client,       \* handlers of requests that log in, or that come with a wrong code
  Desk,         \* handlers of changes of the account
  Method,       \* second factors: e-mail, PIN, authenticator (totp), or some of them
  MaxAttempts,  \* MAX_LOGIN_ATTEMPTS
  MaxCodes,     \* MAX_ATTEMPTS of mfa-attempts
  MaxLocks,     \* bound: locks placed on the account
  MaxKept,      \* bound: keys with a mailed code or a count of wrong codes, at a time
  MaxTokens,    \* bound: challenge and setup tokens issued
  MaxSessions,  \* bound: sessions opened
  MaxChanges,   \* bound: changes of the account that end its sessions
  MaxRoles      \* bound: changes of what the role requires

ASSUME LoginConstantsOK ==
  /\ Client \cap Desk = {} /\ IsFiniteSet(Client) /\ IsFiniteSet(Desk) /\ Client # {}
  /\ Method \subseteq {"email", "pin", "totp"} /\ None \notin Method
  /\ {MaxAttempts, MaxCodes} \subseteq Nat \ {0}
  /\ {MaxLocks, MaxKept, MaxTokens, MaxSessions, MaxChanges, MaxRoles} \subseteq Nat

VARIABLES
  status,    \* isActive, or gone
  version,   \* counts what must end the sessions: deactivations, removal, new passwords
  attempts,  \* failedLoginAttempts
  locked,    \* lockedUntil lies in the future
  locks,     \* locks placed so far
  required,  \* mfaRequired of the role
  roles,     \* counts the changes of required: the role was edited, or another one given
  mfa,       \* user.mfa
  fails,     \* [Key -> failureCount]
  mail,      \* keys for which a mailed code is stored
  tokens,    \* challenge and setup tokens, with the consumed flag of their record
  sessions,  \* sessions, oldest first
  op         \* what each handler does next, with what it keeps from its reads

account == <<status, version, required, roles>>
lock == <<attempts, locked, locks>>
codes == <<fails, mail>>
vars == <<status, version, required, roles, attempts, locked, locks, mfa, fails, mail, tokens, sessions, op>>

-----------------------------------------------------------------------------
(* Rows *)

Status == {"active", "inactive", "gone"}

\* What a login remembers of the account it read: its version, the locks it had seen, and the role.
Copy == [version : 0..MaxChanges, locks : 0..MaxLocks, roles : 0..MaxRoles]
Seen == [version |-> version, locks |-> locks, roles |-> roles]

Mfa == [methods : SUBSET Method, pending : Method \cup {None},
        secrets : SUBSET Method, pendingSecrets : SUBSET Method]
Token == [kind : {"mfa", "setup"}, consumed : BOOLEAN, copy : Copy]
NewToken(kind, copy) == [kind |-> kind, consumed |-> FALSE, copy |-> copy]
Session == [valid : BOOLEAN, made : 0..MaxChanges, read : 0..MaxChanges, roles : 0..MaxRoles, tok : 0..MaxTokens]

\* What codes are asked for: to log in, to change a method, to enable one, to reset the password.
Key == {"login", "stepup", "enable", "reset"}

Idle == [do |-> "idle"]
Op == {Idle} \cup [do : {"fail", "lock", "success", "verify", "reset", "forget", "revoke"}]
  \cup [do : {"wrongcode"}, key : Key]
  \cup [do : {"challenge"}, copy : Copy, send : BOOLEAN]
  \cup [do : {"open"}, copy : Copy, tok : 0..MaxTokens]
  \cup [do : {"check", "used", "consume", "clear"}, tok : 1..MaxTokens]

To(q, o) == op' = [op EXCEPT ![q] = o]
Goes(q, d) == To(q, [do |-> d])
Done(q) == To(q, Idle)

\* getEnabledMethods
Enabled == mfa.methods

\* verifiersFor: another enabled method vouches for a change of m; m itself when it is the only one.
VerifiersFor(m) == IF Enabled \ {m} # {} THEN Enabled \ {m} ELSE Enabled

\* assertNotLockedOut
CodesAllowedOneMore(k) == fails[k] <= MaxCodes   \* a slip: off by one
CodesAllowed(k) == fails[k] < MaxCodes

\* A code that turned out wrong is counted later, in a step of its own.
Wrong(q, k) == To(q, [do |-> "wrongcode", key |-> k])

\* recordFailure; records are kept for a few keys at a time.
Kept(f, m) == Cardinality({k \in Key : f[k] > 0 \/ k \in m})
CountWrong(k) == fails' = [fails EXCEPT ![k] = @ + 1] /\ Kept(fails', mail) <= MaxKept

\* issueAndSendEmailCode: the newest code replaces the one before.
Send(k) == Kept(fails, mail \cup {k}) <= MaxKept /\ mail' = mail \cup {k}

\* checkMfaCode: whether a code is right is left open, but a mailed code must be stored.
Passes(v, k) == v = "email" => k \in mail
Used(v, k) == IF v = "email" THEN mail \ {k} ELSE mail

-----------------------------------------------------------------------------
(* login: the password *)

MayTryAlways == TRUE   \* a slip: the lock is not looked at
MayTry == ~locked

MayEnterAlways == TRUE   \* a slip: a deactivated account logs in
MayEnter == status = "active"

\* A wrong password is counted; the right one leads on: to a challenge when a second factor is enabled,
\* to its setup when the role requires one, else to a session.
WrongPassword(q) ==
  /\ op[q] = Idle /\ status # "gone" /\ MayTry
  /\ Goes(q, "fail")
  /\ UNCHANGED <<account, lock, mfa, codes, tokens, sessions>>

RightPassword(q) ==
  /\ op[q] = Idle /\ status # "gone" /\ MayTry /\ MayEnter
  /\ \/ /\ Enabled # {}
        /\ To(q, [do |-> "challenge", copy |-> Seen, send |-> Enabled = {"email"}])
        /\ UNCHANGED tokens
     \/ /\ Enabled = {} /\ required
        /\ Len(tokens) < MaxTokens
        /\ tokens' = Append(tokens, NewToken("setup", Seen))
        /\ UNCHANGED op
     \/ /\ Enabled = {} /\ ~required
        /\ To(q, [do |-> "open", copy |-> Seen, tok |-> 0])
        /\ UNCHANGED tokens
  /\ UNCHANGED <<account, lock, mfa, codes, sessions>>

\* recordLoginFailure: the count goes up in one update, the lock follows in another.
Reached(n) == n >= MaxAttempts

Fail(q) ==
  /\ op[q].do = "fail"
  /\ IF status = "gone" THEN Done(q) /\ UNCHANGED attempts
     ELSE /\ attempts' = attempts + 1
          /\ IF Reached(attempts + 1) THEN Goes(q, "lock") ELSE Done(q)
  /\ UNCHANGED <<account, locked, locks, mfa, codes, tokens, sessions>>

Lock(q) ==
  /\ op[q].do = "lock"
  /\ locks < MaxLocks
  /\ Done(q)
  /\ IF status = "gone" THEN UNCHANGED lock
     ELSE attempts' = 0 /\ locked' = TRUE /\ locks' = locks + 1
  /\ UNCHANGED <<account, mfa, codes, tokens, sessions>>

\* assertNotLockedOut, then createChallenge; the code is mailed when e-mail is the one method.
Challenge(q) ==
  /\ op[q].do = "challenge"
  /\ Done(q)
  /\ IF CodesAllowed("login")
       THEN /\ Len(tokens) < MaxTokens
            /\ tokens' = Append(tokens, NewToken("mfa", op[q].copy))
            /\ IF op[q].send THEN Send("login") ELSE UNCHANGED mail
       ELSE UNCHANGED <<tokens, mail>>
  /\ UNCHANGED <<account, lock, mfa, fails, sessions>>

-----------------------------------------------------------------------------
(* verifyMfaLogin: the second factor *)

\* assertNotConsumed
Unread(c) == TRUE   \* a slip: a challenge that was used passes
NotConsumed(c) == ~tokens[c].consumed

\* selectLoginMethod and resendLoginEmailCode mail a code (reads, and one write that depends on no other).
SendLoginCode(c) ==
  /\ tokens[c].kind = "mfa" /\ NotConsumed(c) /\ CodesAllowed("login")
  /\ status # "gone" /\ "email" \in Enabled
  /\ Send("login")
  /\ UNCHANGED <<account, lock, mfa, fails, tokens, sessions, op>>

\* resendLoginEmailCode: the newer code takes the place of the older, as in selectLoginMethod.
ResendLoginCode(c) == SendLoginCode(c)

VerifyBegin(q, c) ==
  /\ op[q] = Idle
  /\ tokens[c].kind = "mfa" /\ NotConsumed(c)
  /\ To(q, [do |-> "check", tok |-> c])
  /\ UNCHANGED <<account, lock, mfa, codes, tokens, sessions>>

\* assertNotLockedOut; the account is read again, and the code of one of its methods compared.
VerifyCheck(q) ==
  /\ op[q].do = "check"
  /\ IF CodesAllowed("login") /\ status # "gone" /\ Enabled # {}
       THEN \/ Wrong(q, "login")
            \/ \E v \in Enabled :
                 /\ Passes(v, "login")
                 /\ To(q, [op[q] EXCEPT !.do = IF v = "email" THEN "used" ELSE "consume"])
       ELSE Done(q)
  /\ UNCHANGED <<account, lock, mfa, codes, tokens, sessions>>

WrongCode(q) ==
  /\ op[q].do = "wrongcode"
  /\ Done(q)
  /\ CountWrong(op[q].key)
  /\ UNCHANGED <<account, lock, mfa, mail, tokens, sessions>>

\* The mailed code is deleted; a handler that compared it before passes too.
CodeUsed(q) ==
  /\ op[q].do = "used"
  /\ mail' = Used("email", "login")
  /\ To(q, [op[q] EXCEPT !.do = "consume"])
  /\ UNCHANGED <<account, lock, mfa, fails, tokens, sessions>>

\* markConsumed, then the reset of the count of wrong codes.
Consume(q) ==
  /\ op[q].do = "consume"
  /\ tokens' = [tokens EXCEPT ![op[q].tok].consumed = TRUE]
  /\ To(q, [op[q] EXCEPT !.do = "clear"])
  /\ UNCHANGED <<account, lock, mfa, codes, sessions>>

ClearFails(q) ==
  /\ op[q].do = "clear"
  /\ fails' = [fails EXCEPT !["login"] = 0]
  /\ To(q, [do |-> "open", copy |-> tokens[op[q].tok].copy, tok |-> op[q].tok])
  /\ UNCHANGED <<account, lock, mfa, mail, tokens, sessions>>

-----------------------------------------------------------------------------
(* completeLogin: a session is created, then the count and the lock are cleared *)

Open(q) ==
  /\ op[q].do = "open"
  /\ Len(sessions) < MaxSessions
  /\ sessions' = Append(sessions, [valid |-> TRUE, made |-> version, read |-> op[q].copy.version,
                                   roles |-> op[q].copy.roles, tok |-> op[q].tok])
  /\ Goes(q, "success")
  /\ UNCHANGED <<account, lock, mfa, codes, tokens>>

\* recordLoginSuccess; also unlock by the office.
Unlocked == attempts' = 0 /\ locked' = FALSE /\ UNCHANGED locks

Success(q) ==
  /\ op[q].do = "success"
  /\ Done(q)
  /\ IF status = "gone" THEN UNCHANGED lock ELSE Unlocked
  /\ UNCHANGED <<account, mfa, codes, tokens, sessions>>

-----------------------------------------------------------------------------
(* The owner's settings: methods are set up, enabled and disabled, one request at a time *)

\* isValid; validateSessionPayload lets a request in with a valid session.
IsValid(s) == sessions[s].valid
LoggedIn == \E s \in DOMAIN sessions : IsValid(s)
SetupToken(c) == tokens[c].kind = "setup"

\* Who may set up e-mail: the owner, or a login that must enable a method first.
AtSetup(m) == LoggedIn \/ (m = "email" /\ \E c \in DOMAIN tokens : SetupToken(c))

\* assertStepUp: a code of a method that vouches for m, or none when no method is enabled.
StepUp(m) == VerifiersFor(m) = {} \/ CodesAllowed("stepup")
FailsAfterStepUp(m) == IF VerifiersFor(m) = {} THEN fails ELSE [fails EXCEPT !["stepup"] = 0]
MailAfterStepUp(m) ==
  IF VerifiersFor(m) = {} THEN {mail}
  ELSE {Used(v, "stepup") : v \in {w \in VerifiersFor(m) : Passes(w, "stepup")}}

SendStepUp(m) ==
  /\ LoggedIn /\ status # "gone" /\ "email" \in VerifiersFor(m) /\ CodesAllowed("stepup")
  /\ Send("stepup")
  /\ UNCHANGED <<account, lock, mfa, fails, tokens, sessions, op>>

\* setupMfa: the PIN or the secret waits with its method; e-mail needs none, a code is mailed for it.
Secret(m) == IF m = "email" THEN {} ELSE {m}
MaySetup(m) == AtSetup(m) /\ status # "gone" /\ (m = "email" => "email" \notin Enabled)
Setup(m) ==
  /\ MaySetup(m)
  /\ mfa' = [mfa EXCEPT !.pending = m, !.pendingSecrets = Secret(m)]
  /\ StepUp(m) /\ fails' = FailsAfterStepUp(m)
  /\ \E left \in MailAfterStepUp(m) : mail' = IF m = "email" THEN left \cup {"enable"} ELSE left
  /\ Kept(fails', mail') <= MaxKept
  /\ UNCHANGED <<account, lock, tokens, sessions, op>>

ResendSetup ==
  /\ AtSetup("email") /\ status # "gone" /\ mfa.pending = "email"
  /\ Send("enable")
  /\ UNCHANGED <<account, lock, mfa, fails, tokens, sessions, op>>

\* confirmMfaEnabled
Confirmed ==
  [methods |-> Enabled \cup {mfa.pending}, pending |-> None,
   secrets |-> mfa.secrets \cup Secret(mfa.pending),
   pendingSecrets |-> mfa.pendingSecrets \ {mfa.pending}]
MayConfirmUnasked == status # "gone"   \* a slip: nothing needs to be set up
MayConfirm == status # "gone" /\ mfa.pending # None /\ Secret(mfa.pending) \subseteq mfa.pendingSecrets

\* enableMfa: the mailed code, the PIN or the authenticator code proves the method set up.
Proven ==
  /\ MayConfirm /\ CodesAllowed("enable") /\ Passes(mfa.pending, "enable")
  /\ mfa' = Confirmed
  /\ mail' = Used(mfa.pending, "enable") /\ fails' = [fails EXCEPT !["enable"] = 0]

\* From the settings page, or with the token of a login that required it: that login completes.
Enable ==
  /\ LoggedIn /\ Proven
  /\ UNCHANGED <<account, lock, tokens, sessions, op>>

EnableForced(q, c) ==
  /\ op[q] = Idle /\ SetupToken(c) /\ Proven
  /\ To(q, [do |-> "open", copy |-> tokens[c].copy, tok |-> c])
  /\ UNCHANGED <<account, lock, tokens, sessions>>

\* removeMfaMethod
PendingKept(m) == mfa.pending   \* a slip: the setup of m goes on without its secret
PendingAfter(m) == IF mfa.pending = m THEN None ELSE mfa.pending
Without(m) ==
  [methods |-> Enabled \ {m}, pending |-> PendingAfter(m),
   secrets |-> mfa.secrets \ {m}, pendingSecrets |-> mfa.pendingSecrets \ {m}]

\* disableMfa
MayDisable(m) == LoggedIn /\ status # "gone" /\ m \in Enabled /\ (required => Enabled # {m})
Disable(m) ==
  /\ MayDisable(m)
  /\ StepUp(m) /\ fails' = FailsAfterStepUp(m) /\ mail' \in MailAfterStepUp(m)
  /\ mfa' = Without(m)
  /\ UNCHANGED <<account, lock, tokens, sessions, op>>

-----------------------------------------------------------------------------
(* Wrong codes but those of a login: the count is read first, and written once the code turned out wrong *)

\* assertStepUp at the setup or the end of a method, enableMfa, and resetPassword, which anybody may call.
MayGuess(k) ==
  \/ k = "stepup" /\ \E m \in Method : VerifiersFor(m) # {} /\ (MaySetup(m) \/ MayDisable(m))
  \/ k = "enable" /\ MayConfirm /\ (LoggedIn \/ \E c \in DOMAIN tokens : SetupToken(c))
  \/ k = "reset"

Guess(q, k) ==
  /\ op[q] = Idle /\ MayGuess(k) /\ CodesAllowed(k)
  /\ Wrong(q, k)
  /\ UNCHANGED <<account, lock, mfa, codes, tokens, sessions>>

-----------------------------------------------------------------------------
(* The office, and the owner who resets the password *)

\* setActive
Deactivate(q) ==
  /\ op[q] = Idle /\ status # "gone" /\ version < MaxChanges
  /\ status' = "inactive" /\ version' = version + 1 /\ UNCHANGED <<required, roles>>
  /\ Goes(q, "revoke")
  /\ UNCHANGED <<lock, mfa, codes, tokens, sessions>>

Reactivate ==
  /\ status = "inactive"
  /\ status' = "active"
  /\ UNCHANGED <<version, required, roles, lock, mfa, codes, tokens, sessions, op>>

\* update of a role, or of the user, who gets another one: no session ends, no method is asked for.
RoleChanges ==
  /\ roles < MaxRoles
  /\ required' = ~required /\ roles' = roles + 1
  /\ UNCHANGED <<status, version, lock, mfa, codes, tokens, sessions, op>>

\* users.remove
Remove(q) ==
  /\ op[q] = Idle /\ status # "gone" /\ version < MaxChanges
  /\ status' = "gone" /\ version' = version + 1 /\ UNCHANGED <<required, roles>>
  /\ Goes(q, "revoke")
  /\ UNCHANGED <<lock, mfa, codes, tokens, sessions>>

\* forgotPassword
Forgot ==
  /\ status = "active"
  /\ Send("reset")
  /\ UNCHANGED <<account, lock, mfa, fails, tokens, sessions, op>>

\* resetPassword: the count is read, then the account, and the mailed code is compared, with one of a method
\* when e-mail is not among the enabled.
ResetBegin(q) ==
  /\ op[q] = Idle /\ CodesAllowed("reset")
  /\ Goes(q, "verify")
  /\ UNCHANGED <<account, lock, mfa, codes, tokens, sessions>>

ResetVerify(q) ==
  /\ op[q].do = "verify"
  /\ \/ Wrong(q, "reset")
     \/ status = "active" /\ Passes("email", "reset") /\ Goes(q, "reset")
  /\ UNCHANGED <<account, lock, mfa, codes, tokens, sessions>>

\* The new hash is saved, the code and the count are deleted, the sessions end.
ResetWrite(q) ==
  /\ op[q].do = "reset"
  /\ IF status = "gone" THEN Done(q) /\ UNCHANGED version
     ELSE version < MaxChanges /\ version' = version + 1 /\ Goes(q, "forget")
  /\ UNCHANGED <<status, required, roles, lock, mfa, codes, tokens, sessions>>

ResetForgets(q) == Done(q)   \* a slip: the sessions go on
ResetGoesOn(q) == Goes(q, "revoke")
ResetForget(q) ==
  /\ op[q].do = "forget"
  /\ mail' = Used("email", "reset") /\ fails' = [fails EXCEPT !["reset"] = 0]
  /\ ResetGoesOn(q)
  /\ UNCHANGED <<account, lock, mfa, tokens, sessions>>

\* revokeAllForUser
RevokeAll(q) ==
  /\ op[q].do = "revoke"
  /\ sessions' = [s \in DOMAIN sessions |-> [sessions[s] EXCEPT !.valid = FALSE]]
  /\ Done(q)
  /\ UNCHANGED <<account, lock, mfa, codes, tokens>>

\* revokeOwn, revokeAny, or the time of a session runs out.
EndSession(s) ==
  /\ sessions[s].valid
  /\ sessions' = [sessions EXCEPT ![s].valid = FALSE]
  /\ UNCHANGED <<account, lock, mfa, codes, tokens, op>>

Unlock ==
  /\ status # "gone" /\ (locked \/ attempts > 0)
  /\ Unlocked
  /\ UNCHANGED <<account, mfa, codes, tokens, sessions, op>>

-----------------------------------------------------------------------------
(* Time *)

\* Fifteen minutes after the lock; the record of wrong codes is deleted as long after its first one, a
\* mailed code ten minutes after it was sent.  A token that runs out is used no more, which needs no action: the record that marks it outlives it.
LockExpires == locked /\ locked' = FALSE
  /\ UNCHANGED <<account, attempts, locks, mfa, codes, tokens, sessions, op>>
FailsExpire(k) == fails[k] > 0 /\ fails' = [fails EXCEPT ![k] = 0]
  /\ UNCHANGED <<account, lock, mfa, mail, tokens, sessions, op>>
MailExpires(k) == k \in mail /\ mail' = mail \ {k}
  /\ UNCHANGED <<account, lock, mfa, fails, tokens, sessions, op>>

-----------------------------------------------------------------------------

Init ==
  /\ status = "active" /\ version = 0
  /\ attempts = 0 /\ locked = FALSE /\ locks = 0
  /\ required \in BOOLEAN /\ roles = 0
  /\ \E methods \in {{}, Method \cap {"email"}} :
       mfa = [methods |-> methods, pending |-> None, secrets |-> {}, pendingSecrets |-> {}]
  /\ fails = [k \in Key |-> 0] /\ mail = {} /\ tokens = <<>> /\ sessions = <<>>
  /\ op = [q \in Client \cup Desk |-> Idle]

ClientStep(q) ==
  \/ WrongPassword(q) \/ RightPassword(q) \/ Fail(q) \/ Lock(q) \/ Challenge(q)
  \/ \E c \in DOMAIN tokens : VerifyBegin(q, c) \/ EnableForced(q, c)
  \/ VerifyCheck(q) \/ WrongCode(q) \/ CodeUsed(q) \/ Consume(q) \/ ClearFails(q)
  \/ Open(q) \/ Success(q)
  \/ \E k \in Key : Guess(q, k)

DeskStep(q) ==
  \/ Deactivate(q) \/ Remove(q) \/ RevokeAll(q)
  \/ ResetBegin(q) \/ ResetVerify(q) \/ WrongCode(q) \/ ResetWrite(q) \/ ResetForget(q)

Settings ==
  \/ \E m \in Method : Setup(m) \/ Disable(m) \/ SendStepUp(m)
  \/ ResendSetup \/ Enable

Time == LockExpires \/ \E k \in Key : FailsExpire(k) \/ MailExpires(k)

Next ==
  \/ \E q \in Client : ClientStep(q)
  \/ \E q \in Desk : DeskStep(q)
  \/ Reactivate \/ RoleChanges \/ Unlock
  \/ \E s \in DOMAIN sessions : EndSession(s)
  \/ \E c \in DOMAIN tokens : SendLoginCode(c) \/ ResendLoginCode(c)
  \/ Settings \/ Forgot
  \/ Time

Spec == Init /\ [][Next]_vars

-----------------------------------------------------------------------------
(* Properties *)

\* Types of the account's fields and of the handlers' steps.
TypeOK ==
  /\ status \in Status /\ version \in 0..MaxChanges
  /\ attempts \in Nat /\ fails \in [Key -> Nat] /\ mail \subseteq Key /\ locked \in BOOLEAN /\ locks \in 0..MaxLocks
  /\ required \in BOOLEAN /\ roles \in 0..MaxRoles /\ mfa \in Mfa
  /\ tokens \in Seq(Token) /\ Len(tokens) <= MaxTokens
  /\ sessions \in Seq(Session) /\ Len(sessions) <= MaxSessions
  /\ op \in [Client \cup Desk -> Op]

\* A lock ends by time, by the office, or by a login whose password was accepted before the lock was placed
\* (recordLoginSuccess clears it): never by a login that found the account locked.
LockHolds ==
  locked => \A q \in Client : op[q].do \in {"challenge", "open"} => op[q].copy.locks < locks

\* A challenge opens at most one session for each handler that read it before it was used.
Using(q, c) == op[q].do \in {"check", "used", "consume", "clear", "open"} /\ op[q].tok = c
ChallengeOpensOnce ==
  \A c \in DOMAIN tokens : tokens[c].kind = "mfa" =>
    Cardinality({s \in DOMAIN sessions : sessions[s].tok = c}) + Cardinality({q \in Client : Using(q, c)})
      <= Cardinality(Client)

\* Wrong codes stop at the limit, but for the handlers that read the count before it was reached: every
\* request under way at that moment may count one more.
Counting(k) == IF k = "reset" THEN Client \cup Desk ELSE Client
WrongCodesStop == \A k \in Key : fails[k] <= MaxCodes + Cardinality(Counting(k)) - 1

\* Once a deactivation, a removal or a password reset is done, every valid session was opened after it; one
\* that belongs to an account no longer active was let in by a password check that came before.
SessionsFollowAccount ==
  (\A q \in Desk : op[q].do \notin {"forget", "revoke"}) =>
    \A s \in DOMAIN sessions : sessions[s].valid =>
      /\ sessions[s].made = version
      /\ status # "active" => sessions[s].read < version

\* An enabled method has its secret, so does the one being set up.  Where the role requires a second factor, an
\* owner who logged in since it does has one enabled: the last one is neither disabled nor avoided by a login
\* that was under way.  An owner logged in before may have none.  (The requests of the
\* settings page come one at a time, and no role changes within one.)
MethodsUsable ==
  /\ \A m \in Enabled : Secret(m) \subseteq mfa.secrets
  /\ mfa.pending # None => Secret(mfa.pending) \subseteq mfa.pendingSecrets
  /\ required /\ (\E s \in DOMAIN sessions : sessions[s].roles = roles) => Enabled # {}
=============================================================================
