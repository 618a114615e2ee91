----------------------------- MODULE Login_proofs -----------------------------
(***************************************************************************)
(* Theorems about Login, for every value of its constants.                 *)
(***************************************************************************)
EXTENDS Login, FiniteSetTheorems, SequenceTheorems, TLAPS

Handler == Client \cup Desk
Tokens == 1..Len(tokens)

(***************************************************************************)
(* Type correctness.  The token that a handler works on has to exist.      *)
(***************************************************************************)
Fits(o) ==
  /\ o.do \in {"check", "used", "consume", "clear"} => o.tok \in Tokens
  /\ o.do = "open" => o.tok \in 0..Len(tokens)

TypeInv == TypeOK /\ \A q \in Handler : Fits(op[q])

LEMMA OpShapes ==
  ASSUME NEW o \in Op
  PROVE  /\ o.do \in {"challenge", "open"} => o.copy \in Copy
         /\ o.do = "open" => o.tok \in 0..MaxTokens /\ o \in [do : {"open"}, copy : Copy, tok : 0..MaxTokens]
         /\ o.do \in {"check", "used", "consume", "clear"} =>
              o \in [do : {"check", "used", "consume", "clear"}, tok : 1..MaxTokens]
         /\ o.do = "wrongcode" => o.key \in Key
         /\ (o = Idle => o.do = "idle")
BY DEF Op, Idle

\* The steps without a token or a copy
Plain == {"fail", "lock", "success", "verify", "reset", "forget", "revoke"}

LEMMA PlainOps ==
  /\ Idle \in Op /\ Idle.do = "idle" /\ Fits(Idle)
  /\ \A d \in Plain : [do |-> d] \in Op /\ [do |-> d].do = d /\ Fits([do |-> d])
BY DEF Op, Idle, Plain, Fits

LEMMA TokenNumbers ==
  ASSUME TypeInv
  PROVE  /\ Len(tokens) \in Nat /\ Tokens = DOMAIN tokens /\ Tokens \subseteq 1..MaxTokens
         /\ \A c \in Tokens : tokens[c] \in Token
         /\ Len(sessions) \in Nat /\ DOMAIN sessions = 1..Len(sessions)
         /\ \A s \in DOMAIN sessions : sessions[s] \in Session
<1>1. tokens \in Seq(Token) /\ Len(tokens) <= MaxTokens /\ sessions \in Seq(Session)
  BY DEF TypeInv, TypeOK
<1>2. Len(tokens) \in Nat /\ DOMAIN tokens = 1..Len(tokens) /\ Len(sessions) \in Nat
      /\ DOMAIN sessions = 1..Len(sessions)
  BY <1>1, LenProperties
<1>3. Tokens \subseteq 1..MaxTokens
  BY <1>1, <1>2, LoginConstantsOK DEF Tokens
<1> QED BY <1>1, <1>2, <1>3, ElementOfSeq DEF Tokens

\* Handlers after a step: what they hold fits the tokens there are then.
HandlersFit == op' \in [Handler -> Op] /\ \A q \in Handler : Fits(op[q])'

LEMMA OneHandler ==
  ASSUME TypeInv, NEW q \in Handler, NEW o \in Op, op' = [op EXCEPT ![q] = o], Fits(o), tokens' = tokens
  PROVE  HandlersFit /\ op'[q] = o /\ \A r \in Handler \ {q} : op'[r] = op[r]
<1>1. op \in [Handler -> Op]
  BY DEF TypeInv, TypeOK, Handler
<1>2. op'[q] = o /\ \A r \in Handler \ {q} : op'[r] = op[r]
  BY <1>1
<1> QED BY <1>1, <1>2 DEF HandlersFit, Fits, Tokens, TypeInv

LEMMA NoHandler == ASSUME TypeInv, op' = op, tokens' = tokens PROVE HandlersFit
BY DEF TypeInv, TypeOK, Handler, HandlersFit, Fits, Tokens

LEMMA DoneFits ==
  ASSUME TypeInv, NEW q \in Handler, Done(q), tokens' = tokens
  PROVE  HandlersFit /\ op'[q] = Idle /\ \A r \in Handler \ {q} : op'[r] = op[r]
BY PlainOps, OneHandler DEF Done, To

LEMMA GoesFits ==
  ASSUME TypeInv, NEW q \in Handler, NEW d \in Plain, Goes(q, d), tokens' = tokens
  PROVE  HandlersFit /\ op'[q] = [do |-> d] /\ op'[q].do = d /\ \A r \in Handler \ {q} : op'[r] = op[r]
<1> DEFINE o == [do |-> d]
<1>1. o \in Op /\ Fits(o) /\ o.do = d /\ op' = [op EXCEPT ![q] = o]
  BY PlainOps DEF Goes, To
<1> HIDE DEF o
<1>2. HandlersFit /\ op'[q] = o /\ \A r \in Handler \ {q} : op'[r] = op[r]
  BY <1>1, OneHandler
<1> QED BY <1>1, <1>2 DEF o

LEMMA WrongFits ==
  ASSUME TypeInv, NEW q \in Handler, NEW k \in Key, Wrong(q, k), tokens' = tokens
  PROVE  HandlersFit
<1> DEFINE o == [do |-> "wrongcode", key |-> k]
<1>1. o \in Op /\ Fits(o) /\ op' = [op EXCEPT ![q] = o]
  BY DEF Op, Fits, Wrong, To
<1> HIDE DEF o
<1> QED BY <1>1, OneHandler

AccountTyped ==
  status' \in Status /\ version' \in 0..MaxChanges /\ required' \in BOOLEAN /\ roles' \in 0..MaxRoles
LockTyped == attempts' \in Nat /\ locked' \in BOOLEAN /\ locks' \in 0..MaxLocks
CodesTyped == fails' \in [Key -> Nat] /\ mail' \subseteq Key
TokensTyped == tokens' \in Seq(Token) /\ Len(tokens') <= MaxTokens
SessionsTyped == sessions' \in Seq(Session) /\ Len(sessions') <= MaxSessions

LEMMA AllTyped ==
  ASSUME AccountTyped, LockTyped, CodesTyped, mfa' \in Mfa, TokensTyped, SessionsTyped, HandlersFit
  PROVE  TypeInv'
BY DEF AccountTyped, LockTyped, CodesTyped, TokensTyped, SessionsTyped, HandlersFit, TypeInv, TypeOK, Handler

LEMMA Unchanged ==
  ASSUME TypeInv
  PROVE  /\ UNCHANGED account => AccountTyped
         /\ UNCHANGED lock => LockTyped
         /\ UNCHANGED codes => CodesTyped
         /\ UNCHANGED mfa => mfa' \in Mfa
         /\ UNCHANGED tokens => TokensTyped
         /\ UNCHANGED sessions => SessionsTyped
BY DEF TypeInv, TypeOK, account, lock, codes, AccountTyped, LockTyped, CodesTyped, TokensTyped, SessionsTyped

(***************************************************************************)
(* Codes and mails                                                         *)
(***************************************************************************)
LEMMA SendTyped ==
  ASSUME TypeInv, NEW k \in Key, Send(k), fails' = fails PROVE CodesTyped
BY DEF Send, TypeInv, TypeOK, CodesTyped

LEMMA CountTyped ==
  ASSUME TypeInv, NEW k \in Key, CountWrong(k), mail' = mail PROVE CodesTyped
BY DEF CountWrong, TypeInv, TypeOK, CodesTyped

LEMMA UsedTyped == ASSUME TypeInv, NEW v, NEW k PROVE Used(v, k) \subseteq Key
BY DEF Used, TypeInv, TypeOK

LEMMA StepUpTyped ==
  ASSUME TypeInv, NEW m
  PROVE  FailsAfterStepUp(m) \in [Key -> Nat] /\ \A left \in MailAfterStepUp(m) : left \subseteq Key
<1>1. fails \in [Key -> Nat] /\ mail \subseteq Key /\ "stepup" \in Key
  BY DEF TypeInv, TypeOK, Key
<1>2. FailsAfterStepUp(m) \in [Key -> Nat]
  BY <1>1 DEF FailsAfterStepUp
<1>3. ASSUME NEW left \in MailAfterStepUp(m) PROVE left \subseteq Key
  <2>1. CASE VerifiersFor(m) = {}
    BY <1>1, <1>3, <2>1 DEF MailAfterStepUp
  <2>2. CASE VerifiersFor(m) # {}
    <3>1. PICK v \in VerifiersFor(m) : left = Used(v, "stepup")
      BY <1>3, <2>2 DEF MailAfterStepUp
    <3> QED BY <3>1, UsedTyped
  <2> QED BY <2>1, <2>2
<1> QED BY <1>2, <1>3

(***************************************************************************)
(* Types: the steps of a login                                             *)
(***************************************************************************)
LEMMA SeenTyped == TypeInv => Seen \in Copy
BY DEF TypeInv, TypeOK, Seen, Copy

\* A token is appended
LEMMA TokenAdded ==
  ASSUME TypeInv, NEW kind \in {"mfa", "setup"}, NEW copy \in Copy,
         Len(tokens) < MaxTokens, tokens' = Append(tokens, NewToken(kind, copy))
  PROVE  /\ TokensTyped /\ Len(tokens') = Len(tokens) + 1
         /\ \A c \in Tokens : tokens'[c] = tokens[c]
         /\ tokens'[Len(tokens) + 1] = NewToken(kind, copy)
<1> DEFINE n == NewToken(kind, copy)
<1>1. n \in Token
  BY DEF NewToken, Token
<1>2. tokens \in Seq(Token) /\ tokens' = Append(tokens, n)
  BY DEF TypeInv, TypeOK
<1> HIDE DEF n
<1>3. /\ tokens' \in Seq(Token) /\ Len(tokens') = Len(tokens) + 1 /\ Len(tokens) \in Nat
      /\ \A c \in 1..Len(tokens) : tokens'[c] = tokens[c]
      /\ tokens'[Len(tokens) + 1] = n
  BY <1>1, <1>2, AppendProperties, LenProperties
<1>4. Len(tokens') <= MaxTokens
  BY <1>3, LoginConstantsOK
<1> QED BY <1>3, <1>4 DEF n, Tokens, TokensTyped

\* More tokens: what fitted still fits
LEMMA MoreTokens ==
  ASSUME TypeInv, op' \in [Handler -> Op], Len(tokens') \in Nat, Len(tokens') >= Len(tokens),
         NEW q \in Handler, Fits(op'[q]), \A r \in Handler \ {q} : op'[r] = op[r]
  PROVE  HandlersFit
<1>1. Len(tokens) \in Nat
  BY TokenNumbers
<1>2. ASSUME NEW r \in Handler PROVE Fits(op[r])'
  <2>1. Fits(op'[r])
    BY DEF TypeInv
  <2> QED BY <1>1, <2>1 DEF Fits, Tokens
<1> QED BY <1>2 DEF HandlersFit

LEMMA RightPasswordTyped ==
  ASSUME TypeInv, NEW q \in Client, RightPassword(q)
  PROVE  TypeInv'
<1>q. q \in Handler
  BY DEF Handler
<1>1. AccountTyped /\ LockTyped /\ CodesTyped /\ mfa' \in Mfa /\ SessionsTyped
  BY Unchanged DEF RightPassword
<1>2. CASE tokens' = tokens /\ To(q, [do |-> "challenge", copy |-> Seen, send |-> Enabled = {"email"}])
  <2> DEFINE o == [do |-> "challenge", copy |-> Seen, send |-> Enabled = {"email"}]
  <2>1. o \in Op /\ Fits(o)
    BY SeenTyped DEF Op, Fits
  <2>2. op' = [op EXCEPT ![q] = o]
    BY <1>2 DEF To
  <2> HIDE DEF o
  <2> QED BY <1>q, <1>1, <1>2, <2>1, <2>2, OneHandler, Unchanged, AllTyped
<1>3. CASE Len(tokens) < MaxTokens /\ tokens' = Append(tokens, NewToken("setup", Seen)) /\ op' = op
  <2>1. TokensTyped /\ Len(tokens') = Len(tokens) + 1
    BY <1>3, SeenTyped, TokenAdded
  <2>2. op' \in [Handler -> Op] /\ Fits(op'[q])
    BY <1>q, <1>3 DEF TypeInv, TypeOK, Handler
  <2>3. HandlersFit
    BY <1>q, <1>3, <2>1, <2>2, TokenNumbers, MoreTokens
  <2> QED BY <1>1, <2>1, <2>3, AllTyped
<1>4. CASE tokens' = tokens /\ To(q, [do |-> "open", copy |-> Seen, tok |-> 0])
  <2> DEFINE o == [do |-> "open", copy |-> Seen, tok |-> 0]
  <2>1. o \in Op /\ Fits(o)
    BY SeenTyped, TokenNumbers, LoginConstantsOK DEF Op, Fits
  <2>2. op' = [op EXCEPT ![q] = o]
    BY <1>4 DEF To
  <2> HIDE DEF o
  <2> QED BY <1>q, <1>1, <1>4, <2>1, <2>2, OneHandler, Unchanged, AllTyped
<1> QED BY <1>2, <1>3, <1>4 DEF RightPassword

LEMMA ChallengeTyped ==
  ASSUME TypeInv, NEW q \in Client, Challenge(q)
  PROVE  TypeInv'
<1>q. q \in Handler
  BY DEF Handler
<1>1. AccountTyped /\ LockTyped /\ mfa' \in Mfa /\ SessionsTyped
  BY Unchanged DEF Challenge
<1>2. CodesTyped
  BY SendTyped, Unchanged DEF Challenge, Key, codes
<1>3. op[q] \in Op /\ op \in [Handler -> Op] /\ op[q].do = "challenge"
  BY <1>q DEF Challenge, TypeInv, TypeOK, Handler
<1>4. op' = [op EXCEPT ![q] = Idle]
  BY DEF Challenge, Done, To
<1>5. op' \in [Handler -> Op] /\ op'[q] = Idle /\ \A r \in Handler \ {q} : op'[r] = op[r]
  BY <1>q, <1>3, <1>4, PlainOps
<1>6. CASE CodesAllowed("login")
  <2>1. TokensTyped /\ Len(tokens') = Len(tokens) + 1
    BY <1>3, <1>6, OpShapes, TokenAdded DEF Challenge
  <2>2. HandlersFit
    BY <1>q, <1>5, <2>1, PlainOps, TokenNumbers, MoreTokens
  <2> QED BY <1>1, <1>2, <2>1, <2>2, AllTyped
<1>7. CASE ~CodesAllowed("login")
  <2>1. tokens' = tokens
    BY <1>7 DEF Challenge
  <2> QED BY <1>q, <1>1, <1>2, <1>4, <2>1, PlainOps, OneHandler, Unchanged, AllTyped
<1> QED BY <1>6, <1>7

\* Steps that handle a token: the handler keeps it.
LEMMA TokenOp ==
  ASSUME TypeInv, NEW c \in Tokens, NEW d \in {"check", "used", "consume", "clear"}
  PROVE  [do |-> d, tok |-> c] \in Op /\ Fits([do |-> d, tok |-> c])
BY TokenNumbers DEF Op, Fits

LEMMA NextDo ==
  ASSUME NEW o \in [do : {"check", "used", "consume", "clear"}, tok : 1..MaxTokens],
         NEW d \in {"check", "used", "consume", "clear"}, Fits(o)
  PROVE  /\ [o EXCEPT !.do = d] \in Op /\ Fits([o EXCEPT !.do = d])
         /\ [o EXCEPT !.do = d].do = d /\ [o EXCEPT !.do = d].tok = o.tok
BY DEF Op, Fits

LEMMA VerifyCheckTyped ==
  ASSUME TypeInv, NEW q \in Client, VerifyCheck(q)
  PROVE  TypeInv'
<1>q. q \in Handler
  BY DEF Handler
<1>1. AccountTyped /\ LockTyped /\ CodesTyped /\ mfa' \in Mfa /\ TokensTyped /\ SessionsTyped /\ tokens' = tokens
  BY Unchanged DEF VerifyCheck
<1>2. op[q] \in [do : {"check", "used", "consume", "clear"}, tok : 1..MaxTokens] /\ Fits(op[q])
  BY <1>q, OpShapes DEF VerifyCheck, TypeInv, TypeOK, Handler
<1>3. CASE Done(q)
  BY <1>q, <1>1, <1>3, DoneFits, AllTyped
<1>4. CASE Wrong(q, "login")
  BY <1>q, <1>1, <1>4, WrongFits, AllTyped DEF Key
<1>5. ASSUME NEW d \in {"used", "consume"}, To(q, [op[q] EXCEPT !.do = d]) PROVE TypeInv'
  <2>1. [op[q] EXCEPT !.do = d] \in Op /\ Fits([op[q] EXCEPT !.do = d])
    BY <1>2, NextDo
  <2> QED BY <1>q, <1>1, <1>5, <2>1, OneHandler, AllTyped DEF To
<1> QED BY <1>3, <1>4, <1>5 DEF VerifyCheck

LEMMA ConsumeTyped ==
  ASSUME TypeInv, NEW q \in Client, Consume(q)
  PROVE  /\ TypeInv' /\ Len(tokens') = Len(tokens) /\ op[q].tok \in Tokens
         /\ \A c \in Tokens : tokens'[c].kind = tokens[c].kind /\ tokens'[c].copy = tokens[c].copy
         /\ \A c \in Tokens : tokens'[c].consumed <=> (tokens[c].consumed \/ c = op[q].tok)
         /\ op'[q].do = "clear" /\ op'[q].tok = op[q].tok /\ \A r \in Handler \ {q} : op'[r] = op[r]
<1> DEFINE t == op[q].tok
           new == [tokens[t] EXCEPT !.consumed = TRUE]
<1>q. q \in Handler
  BY DEF Handler
<1>1. AccountTyped /\ LockTyped /\ CodesTyped /\ mfa' \in Mfa /\ SessionsTyped
  BY Unchanged DEF Consume
<1>2. op \in [Handler -> Op] /\ op[q] \in [do : {"check", "used", "consume", "clear"}, tok : 1..MaxTokens] /\ Fits(op[q])
  BY <1>q, OpShapes DEF Consume, TypeInv, TypeOK, Handler
<1>3. t \in Tokens /\ t \in DOMAIN tokens /\ tokens[t] \in Token /\ tokens \in Seq(Token)
  BY <1>2, TokenNumbers DEF Consume, Fits, TypeInv, TypeOK
<1>4. new \in Token /\ new.kind = tokens[t].kind /\ new.copy = tokens[t].copy /\ new.consumed
  BY <1>3 DEF Token
<1>5. tokens' = [tokens EXCEPT ![t] = new]
  BY <1>3 DEF Consume
<1> DEFINE o == [op[q] EXCEPT !.do = "clear"]
<1>6. o \in Op /\ Fits(o) /\ o.do = "clear" /\ o.tok = t
  BY <1>2, NextDo
<1>7. op' = [op EXCEPT ![q] = o]
  BY DEF Consume, To
<1> HIDE DEF o, new, t
<1>8. tokens' \in Seq(Token) /\ Len(tokens') = Len(tokens) /\ tokens'[t] = new /\ \A c \in Tokens \ {t} : tokens'[c] = tokens[c]
  BY <1>3, <1>4, <1>5, TokenNumbers, ExceptSeq
<1>9. TokensTyped
  BY <1>8 DEF TokensTyped, TypeInv, TypeOK
<1>10. op' \in [Handler -> Op] /\ op'[q] = o /\ \A r \in Handler \ {q} : op'[r] = op[r]
  BY <1>q, <1>2, <1>6, <1>7
<1>11. HandlersFit
  BY <1>q, <1>6, <1>8, <1>10, TokenNumbers, MoreTokens
<1>12. TypeInv'
  BY <1>1, <1>9, <1>11, AllTyped
<1>13. \A c \in Tokens : tokens'[c].consumed <=> (tokens[c].consumed \/ c = t)
  BY <1>3, <1>4, <1>8
<1>14. \A c \in Tokens : tokens'[c].kind = tokens[c].kind /\ tokens'[c].copy = tokens[c].copy
  BY <1>4, <1>8
<1> QED BY <1>3, <1>6, <1>8, <1>10, <1>12, <1>13, <1>14 DEF t

LEMMA SessionAdded ==
  ASSUME TypeInv, NEW s \in Session, Len(sessions) < MaxSessions, sessions' = Append(sessions, s)
  PROVE  /\ SessionsTyped /\ Len(sessions') = Len(sessions) + 1 /\ Len(sessions) \in Nat
         /\ DOMAIN sessions' = 1..(Len(sessions) + 1)
         /\ \A i \in DOMAIN sessions : sessions'[i] = sessions[i]
         /\ sessions'[Len(sessions) + 1] = s
<1>1. sessions \in Seq(Session)
  BY DEF TypeInv, TypeOK
<1>2. /\ sessions' \in Seq(Session) /\ Len(sessions') = Len(sessions) + 1 /\ Len(sessions) \in Nat
      /\ DOMAIN sessions = 1..Len(sessions) /\ DOMAIN sessions' = 1..Len(sessions')
      /\ \A i \in 1..Len(sessions) : sessions'[i] = sessions[i]
      /\ sessions'[Len(sessions) + 1] = s
  BY <1>1, AppendProperties, LenProperties
<1> QED BY <1>2, LoginConstantsOK DEF SessionsTyped

\* The session that Open creates
Opened(q) == [valid |-> TRUE, made |-> version, read |-> op[q].copy.version,
              roles |-> op[q].copy.roles, tok |-> op[q].tok]

LEMMA OpenTyped ==
  ASSUME TypeInv, NEW q \in Client, Open(q)
  PROVE  /\ TypeInv' /\ op[q].copy \in Copy
         /\ DOMAIN sessions' = DOMAIN sessions \cup {Len(sessions) + 1} /\ Len(sessions) + 1 \notin DOMAIN sessions
         /\ \A i \in DOMAIN sessions : sessions'[i] = sessions[i]
         /\ sessions'[Len(sessions) + 1] = Opened(q)
<1>q. q \in Handler
  BY DEF Handler
<1>1. AccountTyped /\ LockTyped /\ CodesTyped /\ mfa' \in Mfa /\ TokensTyped
  BY Unchanged DEF Open
<1>2. op[q].copy \in Copy /\ op[q].tok \in 0..MaxTokens
  BY <1>q, OpShapes DEF Open, TypeInv, TypeOK, Handler
<1>3. Opened(q) \in Session
  BY <1>2 DEF Opened, Session, Copy, TypeInv, TypeOK
<1>4. sessions' = Append(sessions, Opened(q)) /\ Len(sessions) < MaxSessions
  BY DEF Open, Opened
<1>5. /\ SessionsTyped /\ Len(sessions) \in Nat /\ DOMAIN sessions' = 1..(Len(sessions) + 1)
      /\ \A i \in DOMAIN sessions : sessions'[i] = sessions[i]
      /\ sessions'[Len(sessions) + 1] = Opened(q)
  BY <1>3, <1>4, SessionAdded
<1>6. HandlersFit
  BY <1>q, GoesFits DEF Open, Plain
<1>7. TypeInv'
  BY <1>1, <1>5, <1>6, AllTyped
<1> QED BY <1>2, <1>5, <1>7, TokenNumbers

LEMMA ConfirmedTyped == ASSUME TypeInv, mfa.pending # None PROVE Confirmed \in Mfa
BY DEF TypeInv, TypeOK, Confirmed, Mfa, Secret, Enabled

LEMMA ProvenTyped == ASSUME TypeInv, Proven PROVE mfa' \in Mfa /\ CodesTyped
<1>1. mfa' \in Mfa
  BY ConfirmedTyped DEF Proven, MayConfirm
<1>2. CodesTyped
  BY UsedTyped DEF Proven, CodesTyped, TypeInv, TypeOK
<1> QED BY <1>1, <1>2

LEMMA EnableForcedTyped ==
  ASSUME TypeInv, NEW q \in Client, NEW c \in DOMAIN tokens, EnableForced(q, c)
  PROVE  TypeInv'
<1> DEFINE o == [do |-> "open", copy |-> tokens[c].copy, tok |-> c]
<1>1. q \in Handler /\ tokens' = tokens
  BY DEF Handler, EnableForced
<1>2. AccountTyped /\ LockTyped /\ TokensTyped /\ SessionsTyped
  BY Unchanged DEF EnableForced
<1>3. mfa' \in Mfa /\ CodesTyped
  BY ProvenTyped DEF EnableForced
<1>4. o \in Op /\ Fits(o)
  BY TokenNumbers DEF Op, Fits, Token, Tokens
<1>5. op' = [op EXCEPT ![q] = o]
  BY DEF EnableForced, To
<1> HIDE DEF o
<1>6. HandlersFit
  BY <1>1, <1>4, <1>5, OneHandler
<1> QED BY <1>2, <1>3, <1>6, AllTyped

LEMMA ClearFailsTyped ==
  ASSUME TypeInv, NEW q \in Client, ClearFails(q)
  PROVE  TypeInv' /\ op[q].tok \in Tokens
<1> DEFINE t == op[q].tok
           o == [do |-> "open", copy |-> tokens[t].copy, tok |-> t]
<1>1. q \in Handler /\ tokens' = tokens
  BY DEF Handler, ClearFails
<1>2. AccountTyped /\ LockTyped /\ TokensTyped /\ SessionsTyped /\ mfa' \in Mfa
  BY Unchanged DEF ClearFails
<1>3. CodesTyped
  BY DEF ClearFails, TypeInv, TypeOK, CodesTyped
<1>4. t \in Tokens
  BY <1>1 DEF ClearFails, TypeInv, Fits
<1>5. o \in Op /\ Fits(o)
  BY <1>4, TokenNumbers DEF Op, Fits, Token, Tokens
<1>6. op' = [op EXCEPT ![q] = o]
  BY DEF ClearFails, To
<1> HIDE DEF o
<1>7. HandlersFit
  BY <1>1, <1>5, <1>6, OneHandler
<1> QED BY <1>2, <1>3, <1>4, <1>7, AllTyped

LEMMA UnlockedTyped == ASSUME TypeInv, Unlocked PROVE LockTyped
BY DEF Unlocked, TypeInv, TypeOK, LockTyped

LEMMA WrongCodeTyped ==
  ASSUME TypeInv, NEW q \in Handler, WrongCode(q)
  PROVE  TypeInv'
<1>1. AccountTyped /\ LockTyped /\ mfa' \in Mfa /\ TokensTyped /\ SessionsTyped /\ HandlersFit
  BY Unchanged, DoneFits DEF WrongCode
<1>2. op[q].key \in Key
  BY OpShapes DEF WrongCode, TypeInv, TypeOK, Handler
<1>3. CodesTyped
  BY <1>2, CountTyped DEF WrongCode
<1> QED BY <1>1, <1>3, AllTyped

LEMMA ClientTyped ==
  ASSUME TypeInv, NEW q \in Client, ClientStep(q)
  PROVE  TypeInv'
<1>q. q \in Handler
  BY DEF Handler
<1>1. CASE WrongPassword(q)
  BY <1>q, <1>1, Unchanged, GoesFits, AllTyped DEF WrongPassword, Plain
<1>2. CASE Fail(q)
  <2>1. AccountTyped /\ CodesTyped /\ mfa' \in Mfa /\ TokensTyped /\ SessionsTyped /\ HandlersFit
    BY <1>q, <1>2, Unchanged, GoesFits, DoneFits DEF Fail, Plain
  <2>2. LockTyped
    BY <1>2 DEF Fail, TypeInv, TypeOK, LockTyped
  <2> QED BY <2>1, <2>2, AllTyped
<1>3. CASE Lock(q)
  <2>1. AccountTyped /\ CodesTyped /\ mfa' \in Mfa /\ TokensTyped /\ SessionsTyped /\ HandlersFit
    BY <1>q, <1>3, Unchanged, DoneFits DEF Lock
  <2>2. LockTyped
    <3>1. CASE UNCHANGED lock
      BY <3>1, Unchanged
    <3>2. CASE attempts' = 0 /\ locked' = TRUE /\ locks' = locks + 1
      BY <1>3, <3>2, LoginConstantsOK DEF Lock, TypeInv, TypeOK, LockTyped
    <3> QED BY <1>3, <3>1, <3>2 DEF Lock
  <2> QED BY <2>1, <2>2, AllTyped
<1>4. CASE \E c \in DOMAIN tokens : VerifyBegin(q, c)
  <2>1. PICK c \in DOMAIN tokens : VerifyBegin(q, c)
    BY <1>4
  <2> DEFINE o == [do |-> "check", tok |-> c]
  <2>2. o \in Op /\ Fits(o)
    BY TokenNumbers, TokenOp
  <2>3. op' = [op EXCEPT ![q] = o] /\ tokens' = tokens
    BY <2>1 DEF VerifyBegin, To
  <2> HIDE DEF o
  <2>4. HandlersFit
    BY <1>q, <2>2, <2>3, OneHandler
  <2> QED BY <2>1, <2>4, Unchanged, AllTyped DEF VerifyBegin
<1>5. CASE \E k \in Key : Guess(q, k)
  BY <1>q, <1>5, Unchanged, WrongFits, AllTyped DEF Guess
<1>6. CASE CodeUsed(q)
  <2>1. AccountTyped /\ LockTyped /\ mfa' \in Mfa /\ TokensTyped /\ SessionsTyped /\ tokens' = tokens
    BY <1>6, Unchanged DEF CodeUsed
  <2>2. CodesTyped
    BY <1>6, UsedTyped DEF CodeUsed, CodesTyped, TypeInv, TypeOK
  <2>3. op[q] \in [do : {"check", "used", "consume", "clear"}, tok : 1..MaxTokens] /\ Fits(op[q])
    BY <1>q, <1>6, OpShapes DEF CodeUsed, TypeInv, TypeOK, Handler
  <2>4. [op[q] EXCEPT !.do = "consume"] \in Op /\ Fits([op[q] EXCEPT !.do = "consume"])
    BY <2>3, NextDo
  <2>5. HandlersFit
    BY <1>q, <1>6, <2>1, <2>4, OneHandler DEF CodeUsed, To
  <2> QED BY <2>1, <2>2, <2>5, AllTyped
<1>7. CASE Success(q)
  <2>1. AccountTyped /\ CodesTyped /\ mfa' \in Mfa /\ TokensTyped /\ SessionsTyped /\ HandlersFit
    BY <1>q, <1>7, Unchanged, DoneFits DEF Success
  <2>2. LockTyped
    <3>1. CASE UNCHANGED lock
      BY <3>1, Unchanged
    <3>2. CASE Unlocked
      BY <3>2, UnlockedTyped
    <3> QED BY <1>7, <3>1, <3>2 DEF Success
  <2> QED BY <2>1, <2>2, AllTyped
<1> QED
  BY <1>q, <1>1, <1>2, <1>3, <1>4, <1>5, <1>6, <1>7, RightPasswordTyped, ChallengeTyped, VerifyCheckTyped,
     WrongCodeTyped, ConsumeTyped, OpenTyped, EnableForcedTyped, ClearFailsTyped DEF ClientStep

(***************************************************************************)
(* Types: the office, the owner's settings, time                           *)
(***************************************************************************)
LEMMA RevokeAllTyped ==
  ASSUME TypeInv, NEW q \in Desk, RevokeAll(q)
  PROVE  TypeInv' /\ DOMAIN sessions' = DOMAIN sessions /\ \A s \in DOMAIN sessions' : ~sessions'[s].valid
<1>1. q \in Handler /\ sessions \in Seq(Session)
  BY DEF Handler, TypeInv, TypeOK
<1>2. AccountTyped /\ LockTyped /\ CodesTyped /\ mfa' \in Mfa /\ TokensTyped /\ HandlersFit
  BY <1>1, DoneFits, Unchanged DEF RevokeAll
<1> DEFINE Ended(s) == [sessions[s] EXCEPT !.valid = FALSE]
<1>3. \A s \in DOMAIN sessions : Ended(s) \in Session /\ ~Ended(s).valid
  BY TokenNumbers DEF Session
<1>4. sessions' = [s \in DOMAIN sessions |-> Ended(s)]
  BY DEF RevokeAll
<1> HIDE DEF Ended
<1>5. /\ DOMAIN sessions' = DOMAIN sessions
      /\ \A s \in DOMAIN sessions : sessions'[s] \in Session /\ ~sessions'[s].valid
  BY <1>3, <1>4
<1>6. sessions' \in [1..Len(sessions) -> Session]
  BY <1>3, <1>4, <1>5, TokenNumbers
<1>7. sessions' \in Seq(Session) /\ Len(sessions') = Len(sessions)
  BY <1>5, <1>6, TokenNumbers, IsASeq, LenProperties
<1>8. SessionsTyped
  BY <1>7 DEF SessionsTyped, TypeInv, TypeOK
<1> QED BY <1>2, <1>5, <1>8, AllTyped

LEMMA EndSessionTyped ==
  ASSUME TypeInv, NEW s \in DOMAIN sessions, EndSession(s)
  PROVE  /\ TypeInv' /\ DOMAIN sessions' = DOMAIN sessions
         /\ \A i \in DOMAIN sessions : /\ sessions'[i].made = sessions[i].made
                                       /\ sessions'[i].read = sessions[i].read
                                       /\ sessions'[i].tok = sessions[i].tok /\ sessions'[i].roles = sessions[i].roles
                                       /\ sessions'[i].valid => sessions[i].valid
<1> DEFINE e == [sessions[s] EXCEPT !.valid = FALSE]
<1>1. sessions \in Seq(Session) /\ sessions[s] \in Session
  BY TokenNumbers DEF TypeInv, TypeOK
<1>2. AccountTyped /\ LockTyped /\ CodesTyped /\ mfa' \in Mfa /\ TokensTyped /\ HandlersFit
  BY NoHandler, Unchanged DEF EndSession
<1>3. e \in Session /\ ~e.valid /\ e.made = sessions[s].made /\ e.read = sessions[s].read
      /\ e.tok = sessions[s].tok /\ e.roles = sessions[s].roles
  BY <1>1 DEF Session
<1>4. sessions' = [sessions EXCEPT ![s] = e]
  BY <1>1 DEF EndSession
<1> HIDE DEF e
<1>5. sessions' \in Seq(Session) /\ Len(sessions') = Len(sessions) /\ DOMAIN sessions' = DOMAIN sessions
  BY <1>1, <1>3, <1>4, TokenNumbers, ExceptSeq
<1>6. SessionsTyped
  BY <1>5 DEF SessionsTyped, TypeInv, TypeOK
<1>7. sessions'[s] = e /\ \A i \in DOMAIN sessions \ {s} : sessions'[i] = sessions[i]
  BY <1>4
<1>8. TypeInv'
  BY <1>2, <1>6, AllTyped
<1> QED BY <1>3, <1>5, <1>7, <1>8

LEMMA DeskTyped ==
  ASSUME TypeInv, NEW q \in Desk, DeskStep(q)
  PROVE  TypeInv'
<1>q. q \in Handler
  BY DEF Handler
<1>1. CASE Deactivate(q)
  <2>1. LockTyped /\ CodesTyped /\ mfa' \in Mfa /\ TokensTyped /\ SessionsTyped /\ HandlersFit
    BY <1>q, <1>1, Unchanged, GoesFits DEF Deactivate, Plain
  <2>2. AccountTyped
    BY <1>1, LoginConstantsOK DEF Deactivate, TypeInv, TypeOK, AccountTyped, Status
  <2> QED BY <2>1, <2>2, AllTyped
<1>2. CASE Remove(q)
  <2>1. LockTyped /\ CodesTyped /\ mfa' \in Mfa /\ TokensTyped /\ SessionsTyped /\ HandlersFit
    BY <1>q, <1>2, Unchanged, GoesFits DEF Remove, Plain
  <2>2. AccountTyped
    BY <1>2, LoginConstantsOK DEF Remove, TypeInv, TypeOK, AccountTyped, Status
  <2> QED BY <2>1, <2>2, AllTyped
<1>3. CASE ResetBegin(q)
  BY <1>q, <1>3, Unchanged, GoesFits, AllTyped DEF ResetBegin, Plain
<1>4. CASE ResetWrite(q)
  <2>1. LockTyped /\ CodesTyped /\ mfa' \in Mfa /\ TokensTyped /\ SessionsTyped /\ HandlersFit
    BY <1>q, <1>4, Unchanged, GoesFits, DoneFits DEF ResetWrite, Plain
  <2>2. AccountTyped
    BY <1>4, LoginConstantsOK DEF ResetWrite, TypeInv, TypeOK, AccountTyped
  <2> QED BY <2>1, <2>2, AllTyped
<1>5. CASE ResetForget(q)
  <2>1. AccountTyped /\ LockTyped /\ mfa' \in Mfa /\ TokensTyped /\ SessionsTyped /\ HandlersFit
    BY <1>q, <1>5, Unchanged, GoesFits DEF ResetForget, ResetGoesOn, Plain
  <2>2. CodesTyped
    BY <1>5, UsedTyped DEF ResetForget, CodesTyped, TypeInv, TypeOK
  <2> QED BY <2>1, <2>2, AllTyped
<1>6. CASE RevokeAll(q)
  BY <1>6, RevokeAllTyped
<1>7. CASE ResetVerify(q)
  <2>1. HandlersFit
    BY <1>q, <1>7, WrongFits, GoesFits DEF ResetVerify, Plain, Key
  <2> QED BY <1>7, <2>1, Unchanged, AllTyped DEF ResetVerify
<1>8. CASE WrongCode(q)
  BY <1>q, <1>8, WrongCodeTyped
<1> QED BY <1>1, <1>2, <1>3, <1>4, <1>5, <1>6, <1>7, <1>8 DEF DeskStep

LEMMA SettingsTyped ==
  ASSUME TypeInv, Settings
  PROVE  TypeInv'
<1>1. CASE \E m \in Method : Setup(m)
  <2>1. PICK m \in Method : Setup(m)
    BY <1>1
  <2>2. AccountTyped /\ LockTyped /\ TokensTyped /\ SessionsTyped /\ HandlersFit
    BY <2>1, Unchanged, NoHandler DEF Setup
  <2>3. CodesTyped
    BY <2>1, StepUpTyped DEF Setup, CodesTyped, Key
  <2>4. mfa' \in Mfa
    BY <2>1 DEF Setup, Secret, TypeInv, TypeOK, Mfa
  <2> QED BY <2>2, <2>3, <2>4, AllTyped
<1>2. CASE \E m \in Method : Disable(m)
  <2>1. PICK m \in Method : Disable(m)
    BY <1>2
  <2>2. AccountTyped /\ LockTyped /\ TokensTyped /\ SessionsTyped /\ HandlersFit
    BY <2>1, Unchanged, NoHandler DEF Disable
  <2>3. CodesTyped
    BY <2>1, StepUpTyped DEF Disable, CodesTyped
  <2>4. mfa' \in Mfa
    BY <2>1 DEF Disable, Without, PendingAfter, Enabled, TypeInv, TypeOK, Mfa
  <2> QED BY <2>2, <2>3, <2>4, AllTyped
<1>3. CASE \E m \in Method : SendStepUp(m)
  <2>1. PICK m \in Method : SendStepUp(m)
    BY <1>3
  <2> QED BY <2>1, SendTyped, Unchanged, NoHandler, AllTyped DEF SendStepUp, Key
<1>4. CASE ResendSetup
  BY <1>4, SendTyped, Unchanged, NoHandler, AllTyped DEF ResendSetup, Key
<1>5. CASE Enable
  BY <1>5, ProvenTyped, Unchanged, NoHandler, AllTyped DEF Enable
<1> QED BY <1>1, <1>2, <1>3, <1>4, <1>5 DEF Settings

LEMMA TimeTyped ==
  ASSUME TypeInv, Time
  PROVE  TypeInv'
<1>1. CASE LockExpires
  <2>1. LockTyped
    BY <1>1 DEF LockExpires, LockTyped, TypeInv, TypeOK
  <2> QED BY <1>1, <2>1, Unchanged, NoHandler, AllTyped DEF LockExpires
<1>2. ASSUME NEW k \in Key, FailsExpire(k) \/ MailExpires(k) PROVE TypeInv'
  <2>1. CodesTyped
    BY <1>2 DEF FailsExpire, MailExpires, CodesTyped, TypeInv, TypeOK
  <2> QED BY <1>2, <2>1, Unchanged, NoHandler, AllTyped DEF FailsExpire, MailExpires
<1> QED BY <1>1, <1>2 DEF Time

LEMMA InitTyped == Init => TypeInv
<1> SUFFICES ASSUME Init PROVE TypeInv
  OBVIOUS
<1>1. tokens = <<>> /\ sessions = <<>> /\ op = [q \in Handler |-> Idle]
  BY DEF Init, Handler
<1>2. tokens \in Seq(Token) /\ Len(tokens) = 0 /\ sessions \in Seq(Session) /\ Len(sessions) = 0
  BY <1>1, EmptySeq
<1>3. mfa \in Mfa
  BY LoginConstantsOK DEF Init, Mfa
<1>4. op \in [Handler -> Op] /\ \A q \in Handler : Fits(op[q])
  BY <1>1, PlainOps
<1>5. /\ status \in Status /\ version \in 0..MaxChanges /\ required \in BOOLEAN /\ roles \in 0..MaxRoles
      /\ attempts \in Nat /\ locked \in BOOLEAN /\ locks \in 0..MaxLocks
      /\ fails \in [Key -> Nat] /\ mail \subseteq Key
  <2>1. MaxLocks \in Nat /\ MaxChanges \in Nat /\ MaxRoles \in Nat
    BY LoginConstantsOK
  <2>2. fails \in [Key -> Nat] /\ mail \subseteq Key
    BY DEF Init
  <2>3. status \in Status /\ required \in BOOLEAN /\ locked \in BOOLEAN
    BY DEF Init, Status
  <2>4. attempts = 0 /\ version = 0 /\ locks = 0 /\ roles = 0
    BY DEF Init
  <2>5. attempts \in Nat /\ version \in 0..MaxChanges /\ locks \in 0..MaxLocks /\ roles \in 0..MaxRoles
    BY <2>1, <2>4
  <2> QED BY <2>2, <2>3, <2>5
<1> QED BY <1>2, <1>3, <1>4, <1>5, LoginConstantsOK DEF TypeInv, TypeOK, Handler

LEMMA NextTyped == TypeInv /\ [Next]_vars => TypeInv'
<1> SUFFICES ASSUME TypeInv, [Next]_vars PROVE TypeInv'
  OBVIOUS
<1>1. CASE UNCHANGED vars
  BY <1>1 DEF vars, TypeInv, TypeOK, Fits, Tokens
<1>2. CASE \E q \in Client : ClientStep(q)
  BY <1>2, ClientTyped
<1>3. CASE \E q \in Desk : DeskStep(q)
  BY <1>3, DeskTyped
<1>4. CASE Reactivate
  <2>1. AccountTyped
    BY <1>4 DEF Reactivate, AccountTyped, TypeInv, TypeOK, Status
  <2> QED BY <1>4, <2>1, Unchanged, NoHandler, AllTyped DEF Reactivate
<1>5. CASE Unlock
  BY <1>5, UnlockedTyped, Unchanged, NoHandler, AllTyped DEF Unlock
<1>6. CASE \E s \in DOMAIN sessions : EndSession(s)
  BY <1>6, EndSessionTyped
<1>7. CASE \E c \in DOMAIN tokens : SendLoginCode(c) \/ ResendLoginCode(c)
  <2>1. PICK c \in DOMAIN tokens : SendLoginCode(c)
    BY <1>7 DEF ResendLoginCode
  <2> QED BY <2>1, SendTyped, Unchanged, NoHandler, AllTyped DEF SendLoginCode, Key
<1>8. CASE Settings
  BY <1>8, SettingsTyped
<1>9. CASE Forgot
  BY <1>9, SendTyped, Unchanged, NoHandler, AllTyped DEF Forgot, Key
<1>10. CASE RoleChanges
  <2>1. AccountTyped
    BY <1>10, LoginConstantsOK DEF RoleChanges, AccountTyped, TypeInv, TypeOK
  <2> QED BY <1>10, <2>1, Unchanged, NoHandler, AllTyped DEF RoleChanges
<1>11. CASE Time
  BY <1>11, TimeTyped
<1> QED BY <1>1, <1>2, <1>3, <1>4, <1>5, <1>6, <1>7, <1>8, <1>9, <1>10, <1>11 DEF Next

\* The account, the tokens, the sessions and the steps of the handlers keep their types.
THEOREM LoginTypeCorrect == Spec => []TypeOK
<1>1. TypeInv => TypeOK
  BY DEF TypeInv
<1> QED BY <1>1, InitTyped, NextTyped, PTL DEF Spec

(***************************************************************************)
(* What a login remembers of the account                                   *)
(*                                                                         *)
(* A copy is taken only while the account is active and not locked.  So as *)
(* long as it is, or once it is not any more, the copy is older than the   *)
(* change: Good holds of every copy that a handler or a token keeps.       *)
(***************************************************************************)
Good(c) ==
  /\ c.version <= version /\ c.locks <= locks /\ c.roles <= roles
  /\ status # "active" => c.version < version
  /\ locked => c.locks < locks

HasCopy(o) == o.do \in {"challenge", "open"}

CopyInv ==
  /\ \A c \in Tokens : Good(tokens[c].copy)
  /\ \A q \in Handler : HasCopy(op[q]) => Good(op[q].copy)

AccountMoves ==
  /\ version' \in Nat /\ version' >= version /\ locks' \in Nat /\ locks' >= locks
  /\ roles' \in Nat /\ roles' >= roles
  /\ status' # "active" => status # "active" \/ version' > version
  /\ locked' => locked \/ locks' > locks

LEMMA NextMoves ==
  ASSUME TypeInv, [Next]_vars
  PROVE  AccountMoves
<1>1. version \in Nat /\ locks \in Nat /\ roles \in Nat /\ status \in Status
  BY DEF TypeInv, TypeOK
<1>2. CASE UNCHANGED <<account, lock>>
  BY <1>1, <1>2 DEF account, lock, AccountMoves
<1>3. CASE UNCHANGED vars
  BY <1>1, <1>3 DEF vars, AccountMoves
<1>4. ASSUME NEW q \in Client, ClientStep(q) PROVE AccountMoves
  <2>1. CASE Fail(q)
    BY <1>1, <2>1 DEF Fail, account, AccountMoves
  <2>2. CASE Lock(q)
    BY <1>1, <2>2 DEF Lock, account, lock, AccountMoves
  <2>3. CASE Success(q)
    BY <1>1, <2>3 DEF Success, Unlocked, account, lock, AccountMoves
  <2>4. CASE WrongPassword(q) \/ RightPassword(q) \/ Challenge(q)
    BY <1>2, <2>4 DEF WrongPassword, RightPassword, Challenge
  <2>5. CASE \E c \in DOMAIN tokens : VerifyBegin(q, c) \/ EnableForced(q, c)
    BY <1>2, <2>5 DEF VerifyBegin, EnableForced
  <2>6. CASE VerifyCheck(q) \/ WrongCode(q) \/ CodeUsed(q) \/ \E k \in Key : Guess(q, k)
    BY <1>2, <2>6 DEF VerifyCheck, WrongCode, CodeUsed, Guess
  <2>7. CASE Consume(q) \/ ClearFails(q) \/ Open(q)
    BY <1>2, <2>7 DEF Consume, ClearFails, Open
  <2> QED BY <1>4, <2>1, <2>2, <2>3, <2>4, <2>5, <2>6, <2>7 DEF ClientStep
<1>5. ASSUME NEW q \in Desk, DeskStep(q) PROVE AccountMoves
  <2>1. CASE Deactivate(q) \/ Remove(q)
    BY <1>1, <2>1 DEF Deactivate, Remove, lock, AccountMoves
  <2>2. CASE ResetWrite(q)
    BY <1>1, <2>2 DEF ResetWrite, lock, AccountMoves
  <2>3. CASE ResetBegin(q) \/ ResetVerify(q) \/ WrongCode(q) \/ ResetForget(q) \/ RevokeAll(q)
    BY <1>2, <2>3 DEF ResetBegin, ResetVerify, WrongCode, ResetForget, RevokeAll
  <2> QED BY <1>5, <2>1, <2>2, <2>3 DEF DeskStep
<1>6. CASE Reactivate \/ RoleChanges
  BY <1>1, <1>6 DEF Reactivate, RoleChanges, lock, AccountMoves
<1>7. CASE Unlock \/ LockExpires
  BY <1>1, <1>7 DEF Unlock, Unlocked, LockExpires, account, AccountMoves
<1>8. CASE (\E s \in DOMAIN sessions : EndSession(s)) \/ (\E c \in DOMAIN tokens : SendLoginCode(c) \/ ResendLoginCode(c))
  BY <1>2, <1>8 DEF EndSession, ResendLoginCode, SendLoginCode
<1>9. CASE Settings
  BY <1>2, <1>9 DEF Settings, Setup, Disable, SendStepUp, ResendSetup, Enable
<1>10. CASE Forgot
  BY <1>2, <1>10 DEF Forgot
<1>11. CASE Time
  BY <1>2, <1>7, <1>11 DEF Time, FailsExpire, MailExpires
<1> QED BY <1>3, <1>4, <1>5, <1>6, <1>7, <1>8, <1>9, <1>10, <1>11 DEF Next

LEMMA GoodKept ==
  ASSUME TypeInv, AccountMoves, NEW c, c \in Copy, Good(c)
  PROVE  c.version <= version' /\ c.locks <= locks' /\ c.roles <= roles'
         /\ (status' # "active" => c.version < version') /\ (locked' => c.locks < locks')
<1>1. /\ version \in Nat /\ locks \in Nat /\ roles \in Nat
      /\ c.version \in Nat /\ c.locks \in Nat /\ c.roles \in Nat
  BY DEF TypeInv, TypeOK, Copy
<1> QED BY <1>1 DEF AccountMoves, Good

\* The copies there are after a step, against the account before it
OpsGood == \A q \in Handler : HasCopy(op'[q]) => op'[q].copy \in Copy /\ Good(op'[q].copy)
TokensGood == \A c \in 1..Len(tokens') : tokens'[c].copy \in Copy /\ Good(tokens'[c].copy)

LEMMA CopiesGood == ASSUME TypeInv, AccountMoves, OpsGood, TokensGood PROVE CopyInv'
<1>1. ASSUME NEW q \in Handler, HasCopy(op[q])' PROVE Good(op[q].copy)'
  BY <1>1, GoodKept DEF OpsGood, HasCopy, Good
<1>2. ASSUME NEW c \in 1..Len(tokens') PROVE Good(tokens[c].copy)'
  BY <1>2, GoodKept DEF TokensGood, Good
<1> QED BY <1>1, <1>2 DEF CopyInv, Tokens

LEMMA OldCopies ==
  ASSUME TypeInv, CopyInv
  PROVE  /\ \A q \in Handler : HasCopy(op[q]) => op[q].copy \in Copy /\ Good(op[q].copy)
         /\ op' = op => OpsGood
         /\ \A c \in Tokens : tokens[c].copy \in Copy /\ Good(tokens[c].copy)
         /\ tokens' = tokens => TokensGood
<1>1. ASSUME NEW q \in Handler, HasCopy(op[q]) PROVE op[q].copy \in Copy /\ Good(op[q].copy)
  BY <1>1, OpShapes DEF HasCopy, CopyInv, TypeInv, TypeOK, Handler
<1>2. \A c \in Tokens : tokens[c].copy \in Copy /\ Good(tokens[c].copy)
  BY TokenNumbers DEF CopyInv, Token
<1> QED BY <1>1, <1>2 DEF OpsGood, TokensGood, Tokens

LEMMA ToMoves ==
  ASSUME TypeInv, NEW q \in Handler, NEW o, To(q, o)
  PROVE  op'[q] = o /\ \A r \in Handler \ {q} : op'[r] = op[r]
BY DEF TypeInv, TypeOK, Handler, To

LEMMA GoesMoves ==
  ASSUME TypeInv, NEW q \in Handler, NEW d, Goes(q, d) \/ (Done(q) /\ d = "idle")
  PROVE  op'[q].do = d /\ \A r \in Handler \ {q} : op'[r] = op[r]
<1>1. CASE Goes(q, d)
  <2>1. op'[q] = [do |-> d] /\ \A r \in Handler \ {q} : op'[r] = op[r]
    BY <1>1, ToMoves DEF Goes
  <2> QED BY <2>1
<1>2. CASE Done(q) /\ d = "idle"
  BY <1>2, ToMoves DEF Done, Idle
<1> QED BY <1>1, <1>2

LEMMA WrongMoves ==
  ASSUME TypeInv, NEW q \in Handler, NEW k, Wrong(q, k)
  PROVE  op'[q].do = "wrongcode" /\ op'[q].key = k /\ \A r \in Handler \ {q} : op'[r] = op[r]
BY ToMoves DEF Wrong

LEMMA OneCopy ==
  ASSUME TypeInv, CopyInv, NEW q \in Handler, \A r \in Handler \ {q} : op'[r] = op[r],
         HasCopy(op'[q]) => op'[q].copy \in Copy /\ Good(op'[q].copy)
  PROVE  OpsGood
BY OldCopies DEF OpsGood

LEMMA NoCopy ==
  ASSUME TypeInv, CopyInv, NEW q \in Handler, NEW d, Goes(q, d) \/ (Done(q) /\ d = "idle"),
         d \notin {"challenge", "open"}
  PROVE  OpsGood
<1>1. op'[q].do = d /\ \A r \in Handler \ {q} : op'[r] = op[r]
  BY GoesMoves
<1> QED BY <1>1, OneCopy DEF HasCopy

LEMMA NoCopyWrong ==
  ASSUME TypeInv, CopyInv, NEW q \in Handler, NEW k, Wrong(q, k) PROVE OpsGood
<1>1. op'[q].do = "wrongcode" /\ \A r \in Handler \ {q} : op'[r] = op[r]
  BY WrongMoves
<1> QED BY <1>1, OneCopy DEF HasCopy

LEMMA SeenGood == ASSUME TypeInv, MayTry, MayEnter PROVE Seen \in Copy /\ Good(Seen)
<1>1. /\ Seen.version = version /\ Seen.locks = locks /\ Seen.roles = roles
      /\ version \in Nat /\ locks \in Nat /\ roles \in Nat
  BY DEF Seen, TypeInv, TypeOK
<1> QED BY <1>1, SeenTyped DEF Good, MayTry, MayEnter

LEMMA AppendGood ==
  ASSUME TypeInv, CopyInv, NEW kind \in {"mfa", "setup"}, NEW copy \in Copy, Good(copy),
         Len(tokens) < MaxTokens, tokens' = Append(tokens, NewToken(kind, copy))
  PROVE  TokensGood
<1>1. /\ Len(tokens') = Len(tokens) + 1 /\ Len(tokens) \in Nat
      /\ \A c \in Tokens : tokens'[c] = tokens[c]
      /\ tokens'[Len(tokens) + 1] = NewToken(kind, copy)
  BY TokenAdded, TokenNumbers
<1>2. NewToken(kind, copy).copy = copy
  BY DEF NewToken
<1> QED BY <1>1, <1>2, OldCopies DEF TokensGood, Tokens

LEMMA ClientCopies ==
  ASSUME TypeInv, CopyInv, NEW q \in Client, ClientStep(q)
  PROVE  OpsGood /\ TokensGood
<1>q. q \in Handler
  BY DEF Handler
<1>1. CASE WrongPassword(q)
  BY <1>q, <1>1, NoCopy, OldCopies DEF WrongPassword
<1>2. CASE RightPassword(q)
  <2>1. Seen \in Copy /\ Good(Seen)
    BY <1>2, SeenGood DEF RightPassword
  <2>2. CASE tokens' = tokens /\ To(q, [do |-> "challenge", copy |-> Seen, send |-> Enabled = {"email"}])
    <3>1. op'[q].copy = Seen /\ \A r \in Handler \ {q} : op'[r] = op[r]
      BY <1>q, <2>2, ToMoves
    <3> QED BY <1>q, <2>1, <2>2, <3>1, OneCopy, OldCopies
  <2>3. CASE Len(tokens) < MaxTokens /\ tokens' = Append(tokens, NewToken("setup", Seen)) /\ op' = op
    BY <2>1, <2>3, AppendGood, OldCopies
  <2>4. CASE tokens' = tokens /\ To(q, [do |-> "open", copy |-> Seen, tok |-> 0])
    <3>1. op'[q].copy = Seen /\ \A r \in Handler \ {q} : op'[r] = op[r]
      BY <1>q, <2>4, ToMoves
    <3> QED BY <1>q, <2>1, <2>4, <3>1, OneCopy, OldCopies
  <2> QED BY <1>2, <2>2, <2>3, <2>4 DEF RightPassword
<1>3. CASE Fail(q)
  BY <1>q, <1>3, NoCopy, OldCopies DEF Fail
<1>4. CASE Lock(q)
  BY <1>q, <1>4, NoCopy, OldCopies DEF Lock
<1>5. CASE Challenge(q)
  <2>1. OpsGood
    <3>1. Done(q)
      BY <1>5 DEF Challenge
    <3>2. "idle" \notin {"challenge", "open"}
      OBVIOUS
    <3> QED BY <1>q, <3>1, <3>2, NoCopy
  <2>2. op[q].copy \in Copy /\ Good(op[q].copy)
    BY <1>q, <1>5, OldCopies DEF Challenge, HasCopy
  <2>3. TokensGood
    BY <1>5, <2>2, AppendGood, OldCopies DEF Challenge
  <2> QED BY <2>1, <2>3
<1>6. ASSUME NEW c \in DOMAIN tokens, VerifyBegin(q, c) PROVE OpsGood /\ TokensGood
  <2>1. op'[q].do = "check" /\ \A r \in Handler \ {q} : op'[r] = op[r]
    BY <1>q, <1>6, ToMoves DEF VerifyBegin
  <2> QED BY <1>q, <1>6, <2>1, OneCopy, OldCopies DEF HasCopy, VerifyBegin
<1>7. ASSUME NEW c \in DOMAIN tokens, EnableForced(q, c) PROVE OpsGood /\ TokensGood
  <2>1. op'[q].copy = tokens[c].copy /\ \A r \in Handler \ {q} : op'[r] = op[r]
    BY <1>q, <1>7, ToMoves DEF EnableForced
  <2>2. c \in Tokens
    BY TokenNumbers
  <2> QED BY <1>q, <1>7, <2>1, <2>2, OneCopy, OldCopies DEF EnableForced
<1>8. CASE VerifyCheck(q)
  <2>1. ASSUME NEW d \in {"used", "consume"}, To(q, [op[q] EXCEPT !.do = d]) PROVE OpsGood
    <3>1. op[q] \in [do : {"check", "used", "consume", "clear"}, tok : 1..MaxTokens] /\ Fits(op[q])
      BY <1>q, <1>8, OpShapes DEF VerifyCheck, TypeInv, TypeOK, Handler
    <3>2. [op[q] EXCEPT !.do = d].do = d
      BY <3>1, NextDo
    <3>3. op'[q].do = d /\ \A r \in Handler \ {q} : op'[r] = op[r]
      BY <1>q, <2>1, <3>2, ToMoves
    <3> QED BY <1>q, <3>3, OneCopy DEF HasCopy
  <2> QED BY <1>q, <1>8, <2>1, NoCopy, NoCopyWrong, OldCopies DEF VerifyCheck
<1>9. CASE WrongCode(q)
  BY <1>q, <1>9, NoCopy, OldCopies DEF WrongCode
<1>10. CASE CodeUsed(q)
  <2>1. op[q] \in [do : {"check", "used", "consume", "clear"}, tok : 1..MaxTokens] /\ Fits(op[q])
    BY <1>q, <1>10, OpShapes DEF CodeUsed, TypeInv, TypeOK, Handler
  <2>2. op'[q].do = "consume" /\ \A r \in Handler \ {q} : op'[r] = op[r]
    BY <1>q, <1>10, <2>1, NextDo, ToMoves DEF CodeUsed
  <2> QED BY <1>q, <1>10, <2>2, OneCopy, OldCopies DEF HasCopy, CodeUsed
<1>11. CASE Consume(q)
  <2>1. /\ Len(tokens') = Len(tokens) /\ \A c \in Tokens : tokens'[c].copy = tokens[c].copy
        /\ op'[q].do = "clear" /\ \A r \in Handler \ {q} : op'[r] = op[r]
    BY <1>11, ConsumeTyped
  <2>2. OpsGood
    BY <1>q, <2>1, OneCopy DEF HasCopy
  <2> QED BY <2>1, <2>2, OldCopies DEF TokensGood, Tokens
<1>12. CASE ClearFails(q)
  <2>1. op[q].tok \in Tokens
    BY <1>12, ClearFailsTyped
  <2>2. op'[q].copy = tokens[op[q].tok].copy /\ \A r \in Handler \ {q} : op'[r] = op[r]
    BY <1>q, <1>12, ToMoves DEF ClearFails
  <2> QED BY <1>q, <1>12, <2>1, <2>2, OneCopy, OldCopies DEF ClearFails
<1>13. CASE Open(q)
  BY <1>q, <1>13, NoCopy, OldCopies DEF Open
<1>14. CASE Success(q)
  BY <1>q, <1>14, NoCopy, OldCopies DEF Success
<1>15. CASE \E k \in Key : Guess(q, k)
  BY <1>q, <1>15, NoCopyWrong, OldCopies DEF Guess
<1> QED
  BY <1>1, <1>2, <1>3, <1>4, <1>5, <1>6, <1>7, <1>8, <1>9, <1>10, <1>11, <1>12, <1>13, <1>14, <1>15 DEF ClientStep

\* Where a desk's step leads it
DeskMove(q) == Done(q) \/ Wrong(q, "reset") \/ \E d \in {"revoke", "verify", "reset", "forget"} : Goes(q, d)

LEMMA DeskMoves == ASSUME NEW q, DeskStep(q) PROVE DeskMove(q)
BY DEF DeskStep, Deactivate, Remove, ResetBegin, ResetVerify, WrongCode, ResetWrite, ResetForget, ResetGoesOn,
       RevokeAll, DeskMove

LEMMA DeskCopies ==
  ASSUME TypeInv, CopyInv, NEW q \in Desk, DeskStep(q)
  PROVE  OpsGood /\ TokensGood
<1>q. q \in Handler
  BY DEF Handler
<1>1. tokens' = tokens
  BY DEF DeskStep, Deactivate, Remove, ResetBegin, ResetVerify, WrongCode, ResetWrite, ResetForget, RevokeAll, codes
<1>2. DeskMove(q)
  BY DeskMoves
<1>3. OpsGood
  BY <1>q, <1>2, NoCopy, NoCopyWrong DEF DeskMove
<1> QED BY <1>1, <1>3, OldCopies

\* The steps of the owner, the office and time leave handlers and tokens alone.
Outside ==
  \/ UNCHANGED vars \/ Reactivate \/ RoleChanges \/ Unlock \/ Settings \/ Forgot \/ Time
  \/ \E s \in DOMAIN sessions : EndSession(s)
  \/ \E c \in DOMAIN tokens : SendLoginCode(c) \/ ResendLoginCode(c)

LEMMA NextCases ==
  [Next]_vars => (\E q \in Client : ClientStep(q)) \/ (\E q \in Desk : DeskStep(q)) \/ Outside
BY DEF Next, Outside

LEMMA OutsideKeeps == Outside => op' = op /\ tokens' = tokens
<1>1. CASE UNCHANGED vars
  BY <1>1 DEF vars
<1>2. CASE Settings
  BY <1>2 DEF Settings, Setup, Disable, SendStepUp, ResendSetup, Enable
<1>3. CASE Time
  BY <1>3 DEF Time, LockExpires, FailsExpire, MailExpires
<1> QED BY <1>1, <1>2, <1>3 DEF Outside, Reactivate, RoleChanges, Unlock, Forgot, EndSession, SendLoginCode, ResendLoginCode

LEMMA NextCopies == TypeInv /\ CopyInv /\ [Next]_vars => CopyInv'
<1> SUFFICES ASSUME TypeInv, CopyInv, [Next]_vars PROVE CopyInv'
  OBVIOUS
<1>1. OpsGood /\ TokensGood
  BY NextCases, ClientCopies, DeskCopies, OutsideKeeps, OldCopies
<1> QED BY <1>1, NextMoves, CopiesGood

LEMMA InitCopies == Init => CopyInv
<1> SUFFICES ASSUME Init PROVE CopyInv
  OBVIOUS
<1>1. Tokens = {}
  BY DEF Init, Tokens
<1>2. \A q \in Handler : op[q].do = "idle"
  BY DEF Init, Idle, Handler
<1> QED BY <1>1, <1>2 DEF CopyInv, HasCopy

LEMMA CopiesInvariant == Spec => [](TypeInv /\ CopyInv)
BY InitTyped, NextTyped, InitCopies, NextCopies, PTL DEF Spec

\* A lock is ended by time, by the office, or by a login whose password was accepted before it.
THEOREM LockSafe == Spec => []LockHolds
<1>1. TypeInv /\ CopyInv => LockHolds
  BY DEF CopyInv, Good, HasCopy, LockHolds, Handler
<1> QED BY <1>1, CopiesInvariant, PTL

(***************************************************************************)
(* Sessions follow the account                                             *)
(*                                                                         *)
(* A desk that changes the account has its sessions still to end until its *)
(* RevokeAll, which ends every one there is then.                          *)
(***************************************************************************)
Pending == \E q \in Desk : op[q].do \in {"forget", "revoke"}
Current(s) == s.valid => s.made = version /\ (status # "active" => s.read < version)
SessionInv == ~Pending => \A s \in DOMAIN sessions : Current(sessions[s])

LEMMA FollowsIsInv == SessionsFollowAccount <=> SessionInv
BY DEF SessionsFollowAccount, SessionInv, Pending, Current

\* Sessions that a step leaves, or ends, go on following an account it leaves, or makes active.
LEMMA SessionsKept ==
  ASSUME SessionInv, Pending => Pending', version' = version, status' = status \/ status' = "active",
         DOMAIN sessions' = DOMAIN sessions,
         \A s \in DOMAIN sessions : /\ sessions'[s].valid => sessions[s].valid
                                    /\ sessions'[s].made = sessions[s].made
                                    /\ sessions'[s].read = sessions[s].read
  PROVE  SessionInv'
<1>1. ASSUME ~Pending', NEW s \in DOMAIN sessions', sessions'[s].valid
      PROVE  sessions'[s].made = version' /\ (status' # "active" => sessions'[s].read < version')
  BY <1>1 DEF SessionInv, Current
<1> QED BY <1>1 DEF SessionInv, Current

LEMMA SamePending ==
  ASSUME \A q \in Desk : op'[q] = op[q]
  PROVE  Pending' <=> Pending
BY DEF Pending

LEMMA ClientMoves ==
  ASSUME TypeInv, NEW q \in Client, ClientStep(q)
  PROVE  \A r \in Handler \ {q} : op'[r] = op[r]
<1>1. q \in Handler /\ op \in [Handler -> Op]
  BY DEF Handler, TypeInv, TypeOK
<1>2. op' = op \/ \E o : To(q, o)
  BY DEF ClientStep, WrongPassword, RightPassword, Fail, Lock, Challenge, VerifyBegin, EnableForced, VerifyCheck,
         WrongCode, CodeUsed, Consume, ClearFails, Open, Success, Guess, Wrong, Goes, Done
<1> QED BY <1>1, <1>2, ToMoves

LEMMA ClientKeepsAccount ==
  ASSUME NEW q \in Client, ClientStep(q)
  PROVE  status' = status /\ version' = version /\ required' = required /\ roles' = roles
BY DEF ClientStep, WrongPassword, RightPassword, Fail, Lock, Challenge, VerifyBegin, EnableForced, VerifyCheck,
       WrongCode, CodeUsed, Consume, ClearFails, Open, Success, Guess, account

LEMMA ClientSessions ==
  ASSUME NEW q \in Client, ClientStep(q)
  PROVE  Open(q) \/ sessions' = sessions
BY DEF ClientStep, WrongPassword, RightPassword, Fail, Lock, Challenge, VerifyBegin, EnableForced, VerifyCheck,
       WrongCode, CodeUsed, Consume, ClearFails, Success, Guess

LEMMA ClientFollows ==
  ASSUME TypeInv, CopyInv, SessionInv, NEW q \in Client, ClientStep(q)
  PROVE  SessionInv'
<1>1. Pending' <=> Pending
  <2>1. \A r \in Desk : r \in Handler \ {q}
    BY LoginConstantsOK DEF Handler
  <2> QED BY <2>1, ClientMoves, SamePending
<1>2. status' = status /\ version' = version
  BY ClientKeepsAccount
<1>3. CASE sessions' = sessions
  BY <1>1, <1>2, <1>3, SessionsKept
<1>4. CASE Open(q)
  <2> DEFINE n == Len(sessions) + 1
  <2>1. /\ DOMAIN sessions' = DOMAIN sessions \cup {n} /\ sessions'[n] = Opened(q)
        /\ \A i \in DOMAIN sessions : sessions'[i] = sessions[i]
    BY <1>4, OpenTyped
  <2>2. Good(op[q].copy)
    BY <1>4 DEF Open, HasCopy, CopyInv, Handler
  <2>3. Opened(q).made = version /\ (status # "active" => Opened(q).read < version)
    BY <2>2 DEF Opened, Good
  <2>4. ASSUME ~Pending', NEW i \in DOMAIN sessions', sessions'[i].valid
        PROVE  sessions'[i].made = version' /\ (status' # "active" => sessions'[i].read < version')
    <3>1. CASE i \in DOMAIN sessions
      BY <1>1, <1>2, <2>1, <2>4, <3>1 DEF SessionInv, Current
    <3>2. CASE i = n
      BY <1>2, <2>1, <2>3, <3>2
    <3> QED BY <2>1, <3>1, <3>2
  <2> QED BY <2>4 DEF SessionInv, Current
<1> QED BY <1>3, <1>4, ClientSessions

LEMMA DeskFollows ==
  ASSUME TypeInv, SessionInv, NEW q \in Desk, DeskStep(q)
  PROVE  SessionInv'
<1>q. q \in Handler
  BY DEF Handler
<1>1. CASE RevokeAll(q)
  BY <1>1, RevokeAllTyped DEF SessionInv, Current
<1>2. ASSUME NEW d \in {"forget", "revoke"}, Goes(q, d) PROVE SessionInv'
  <2>1. op'[q].do = d
    BY <1>q, <1>2, GoesMoves
  <2> QED BY <2>1 DEF SessionInv, Pending
<1>3. CASE op[q].do \notin {"forget", "revoke"} /\ sessions' = sessions /\ status' = status /\ version' = version
  <2>1. \A r \in Handler \ {q} : op'[r] = op[r]
    BY <1>q, DeskMoves, GoesMoves, WrongMoves DEF DeskMove
  <2>2. Pending => Pending'
    BY <1>3, <2>1 DEF Pending, Handler
  <2> QED BY <1>3, <2>2, SessionsKept
<1>4. CASE ResetBegin(q) \/ ResetVerify(q) \/ WrongCode(q)
  BY <1>3, <1>4 DEF ResetBegin, ResetVerify, WrongCode, Idle, account
<1>5. CASE ResetWrite(q)
  BY <1>2, <1>3, <1>5 DEF ResetWrite
<1>6. CASE Deactivate(q) \/ Remove(q) \/ ResetForget(q)
  BY <1>2, <1>6 DEF Deactivate, Remove, ResetForget, ResetGoesOn
<1> QED BY <1>1, <1>4, <1>5, <1>6 DEF DeskStep

LEMMA OutsideFollows ==
  ASSUME TypeInv, SessionInv, Outside
  PROVE  SessionInv'
<1>1. Pending' <=> Pending
  BY OutsideKeeps, SamePending
<1>2. version' = version /\ (status' = status \/ status' = "active")
  <2>1. CASE UNCHANGED vars
    BY <2>1 DEF vars
  <2>2. CASE Settings
    BY <2>2 DEF Settings, Setup, Disable, SendStepUp, ResendSetup, Enable, account
  <2>3. CASE Time
    BY <2>3 DEF Time, LockExpires, FailsExpire, MailExpires, account
  <2> QED BY <2>1, <2>2, <2>3
      DEF Outside, Reactivate, RoleChanges, Unlock, Forgot, EndSession, SendLoginCode, ResendLoginCode, account
<1>3. CASE \E s \in DOMAIN sessions : EndSession(s)
  BY <1>1, <1>2, <1>3, EndSessionTyped, SessionsKept
<1>4. CASE sessions' = sessions
  BY <1>1, <1>2, <1>4, SessionsKept
<1>5. (\E s \in DOMAIN sessions : EndSession(s)) \/ sessions' = sessions
  <2>1. CASE UNCHANGED vars
    BY <2>1 DEF vars
  <2>2. CASE Settings
    BY <2>2 DEF Settings, Setup, Disable, SendStepUp, ResendSetup, Enable
  <2>3. CASE Time
    BY <2>3 DEF Time, LockExpires, FailsExpire, MailExpires
  <2> QED BY <2>1, <2>2, <2>3 DEF Outside, Reactivate, RoleChanges, Unlock, Forgot, SendLoginCode, ResendLoginCode
<1> QED BY <1>3, <1>4, <1>5

LEMMA NextFollows == TypeInv /\ CopyInv /\ SessionInv /\ [Next]_vars => SessionInv'
BY NextCases, ClientFollows, DeskFollows, OutsideFollows

\* After a deactivation, a removal or a password reset is done, the valid sessions were opened later, and one
\* of an account no longer active by a login that had read it before.
THEOREM SessionsSafe == Spec => []SessionsFollowAccount
<1>1. Init => SessionInv
  BY DEF Init, SessionInv
<1>2. SessionInv => SessionsFollowAccount
  BY FollowsIsInv
<1> QED BY <1>1, <1>2, NextFollows, CopiesInvariant, PTL DEF Spec

(***************************************************************************)
(* Wrong codes                                                             *)
(*                                                                         *)
(* A handler waiting to record a wrong code, or about to compare one, has  *)
(* passed the check of the count: the count and those waiting together     *)
(* stay below the limit.                                                   *)
(***************************************************************************)
WaitsFor(o, k) == (o.do = "wrongcode" /\ o.key = k) \/ (o.do = "verify" /\ k = "reset")
Waiting(k) == {q \in Counting(k) : WaitsFor(op[q], k)}

CodeInv ==
  /\ \A q \in Desk : op[q].do = "wrongcode" => op[q].key = "reset"
  /\ \A k \in Key : fails[k] + Cardinality(Waiting(k)) <= MaxCodes + Cardinality(Counting(k)) - 1

FailsFall == \A k \in Key : fails'[k] <= fails[k]

LEMMA FailsNumbers == TypeInv => \A k \in Key : fails[k] \in Nat
BY DEF TypeInv, TypeOK

LEMMA SameFails == ASSUME TypeInv, fails' = fails PROVE FailsFall
BY FailsNumbers DEF FailsFall

LEMMA ResetFall == ASSUME TypeInv, NEW k \in Key, fails' = [fails EXCEPT ![k] = 0] PROVE FailsFall
BY DEF FailsFall, TypeInv, TypeOK

LEMMA ClientFails ==
  ASSUME TypeInv, NEW q \in Client, ClientStep(q)
  PROVE  FailsFall \/ WrongCode(q)
<1>1. CASE ClearFails(q)
  BY <1>1, ResetFall DEF ClearFails, Key
<1>2. CASE \E c \in DOMAIN tokens : EnableForced(q, c)
  BY <1>2, ResetFall DEF EnableForced, Proven, Key
<1>3. CASE fails' = fails
  BY <1>3, SameFails
<1>4. ClearFails(q) \/ (\E c \in DOMAIN tokens : EnableForced(q, c)) \/ fails' = fails \/ WrongCode(q)
  BY DEF ClientStep, WrongPassword, RightPassword, Fail, Lock, Challenge, VerifyBegin, VerifyCheck, CodeUsed,
         Consume, Open, Success, Guess, codes
<1> QED BY <1>1, <1>2, <1>3, <1>4

LEMMA DeskFails ==
  ASSUME TypeInv, NEW q \in Desk, DeskStep(q), ~WrongCode(q)
  PROVE  FailsFall
<1>1. fails' = fails \/ fails' = [fails EXCEPT !["reset"] = 0]
  BY DEF DeskStep, Deactivate, Remove, ResetBegin, ResetVerify, ResetWrite, ResetForget, RevokeAll, codes
<1> QED BY <1>1, SameFails, ResetFall DEF Key

LEMMA OutsideFails ==
  ASSUME TypeInv, Outside
  PROVE  FailsFall
<1>1. ASSUME NEW m \in Method, Setup(m) \/ Disable(m) PROVE FailsFall
  BY <1>1, SameFails, ResetFall DEF Setup, Disable, FailsAfterStepUp, Key
<1>2. CASE Enable
  BY <1>2, ResetFall DEF Enable, Proven, Key
<1>3. CASE (\E m \in Method : SendStepUp(m)) \/ ResendSetup
  BY <1>3, SameFails DEF SendStepUp, ResendSetup
<1>4. CASE Settings
  BY <1>1, <1>2, <1>3, <1>4 DEF Settings
<1>5. CASE Time
  <2>1. ASSUME NEW k \in Key, FailsExpire(k) PROVE FailsFall
    BY <2>1, ResetFall DEF FailsExpire
  <2> QED BY <1>5, <2>1, SameFails DEF Time, LockExpires, MailExpires, codes
<1>6. CASE UNCHANGED vars \/ Reactivate \/ RoleChanges \/ Unlock \/ Forgot \/ \E s \in DOMAIN sessions : EndSession(s)
  BY <1>6, SameFails DEF vars, Reactivate, RoleChanges, Unlock, Forgot, EndSession, codes
<1>7. CASE \E c \in DOMAIN tokens : SendLoginCode(c) \/ ResendLoginCode(c)
  BY <1>7, SameFails DEF ResendLoginCode, SendLoginCode
<1> QED BY <1>4, <1>5, <1>6, <1>7 DEF Outside

\* What a client's step makes it do next
LEMMA ClientNext ==
  ASSUME TypeInv, NEW q \in Client, ClientStep(q)
  PROVE  \/ op' = op
         \/ WrongPassword(q) /\ op'[q].do = "fail"
         \/ RightPassword(q) /\ op'[q].do = "challenge"
         \/ RightPassword(q) /\ ~required /\ op'[q].do = "open" /\ op'[q].tok = 0
         \/ op'[q].do \in {"idle", "lock", "success"}
         \/ \E c \in Tokens : VerifyBegin(q, c) /\ op'[q].do = "check" /\ op'[q].tok = c
         \/ \E c \in Tokens : EnableForced(q, c) /\ op'[q].do = "open" /\ op'[q].tok = c
         \/ VerifyCheck(q) /\ CodesAllowed("login") /\ Enabled # {}
              /\ \/ Wrong(q, "login") /\ op'[q].do = "wrongcode"
                 \/ op'[q].do \in {"used", "consume"} /\ op'[q].tok = op[q].tok
         \/ \E k \in Key : Guess(q, k) /\ op'[q].do = "wrongcode"
         \/ CodeUsed(q) /\ op'[q].do = "consume" /\ op'[q].tok = op[q].tok
         \/ Consume(q) /\ op'[q].do = "clear" /\ op'[q].tok = op[q].tok
         \/ ClearFails(q) /\ op'[q].do = "open" /\ op'[q].tok = op[q].tok /\ op'[q].copy = tokens[op[q].tok].copy
<1>q. q \in Handler
  BY DEF Handler
<1>1. CASE WrongPassword(q)
  BY <1>q, <1>1, GoesMoves DEF WrongPassword
<1>2. CASE RightPassword(q)
  <2>1. CASE To(q, [do |-> "challenge", copy |-> Seen, send |-> Enabled = {"email"}])
    <3>1. op'[q].do = "challenge"
      BY <1>q, <2>1, ToMoves
    <3> QED BY <1>2, <3>1
  <2>2. CASE ~required /\ To(q, [do |-> "open", copy |-> Seen, tok |-> 0])
    <3>1. op'[q].do = "open" /\ op'[q].tok = 0
      BY <1>q, <2>2, ToMoves
    <3> QED BY <1>2, <2>2, <3>1
  <2> QED BY <1>2, <2>1, <2>2 DEF RightPassword
<1>3. CASE Done(q) \/ Goes(q, "lock") \/ Goes(q, "success")
  <2>1. op'[q].do \in {"idle", "lock", "success"}
    BY <1>q, <1>3, GoesMoves
  <2> QED BY <2>1
<1>4. ASSUME NEW c \in DOMAIN tokens, VerifyBegin(q, c) PROVE op'[q].do = "check" /\ op'[q].tok = c /\ c \in Tokens
  BY <1>q, <1>4, ToMoves, TokenNumbers DEF VerifyBegin
<1>5. ASSUME NEW c \in DOMAIN tokens, EnableForced(q, c) PROVE op'[q].do = "open" /\ op'[q].tok = c /\ c \in Tokens
  BY <1>q, <1>5, ToMoves, TokenNumbers DEF EnableForced
<1>6. ASSUME op[q].do \in {"check", "used"}, NEW d \in {"used", "consume"}, To(q, [op[q] EXCEPT !.do = d])
      PROVE  op'[q].do = d /\ op'[q].tok = op[q].tok
  <2>1. op[q] \in [do : {"check", "used", "consume", "clear"}, tok : 1..MaxTokens] /\ Fits(op[q])
    BY <1>q, <1>6, OpShapes DEF TypeInv, TypeOK, Handler
  <2> QED BY <1>q, <1>6, <2>1, NextDo, ToMoves
<1>7. CASE VerifyCheck(q) /\ CodesAllowed("login") /\ Enabled # {}
  <2>1. CASE Wrong(q, "login")
    <3>1. op'[q].do = "wrongcode"
      BY <1>q, <2>1, WrongMoves
    <3> QED BY <1>7, <2>1, <3>1
  <2>2. CASE Done(q)
    BY <1>3, <2>2
  <2>3. CASE \E d \in {"used", "consume"} : To(q, [op[q] EXCEPT !.do = d])
    <3>1. op'[q].do \in {"used", "consume"} /\ op'[q].tok = op[q].tok
      BY <1>6, <1>7, <2>3 DEF VerifyCheck
    <3> QED BY <1>7, <3>1
  <2> QED BY <1>7, <2>1, <2>2, <2>3 DEF VerifyCheck
<1>8. CASE VerifyCheck(q) /\ ~(CodesAllowed("login") /\ Enabled # {})
  BY <1>3, <1>8 DEF VerifyCheck
<1>9. CASE CodeUsed(q)
  <2>1. op'[q].do = "consume" /\ op'[q].tok = op[q].tok
    BY <1>6, <1>9 DEF CodeUsed
  <2> QED BY <1>9, <2>1
<1>10. CASE Consume(q)
  BY <1>10, ConsumeTyped
<1>11. CASE ClearFails(q)
  <2>1. op'[q].do = "open" /\ op'[q].tok = op[q].tok /\ op'[q].copy = tokens[op[q].tok].copy
    BY <1>q, <1>11, ToMoves DEF ClearFails
  <2> QED BY <1>11, <2>1
<1>12. CASE Fail(q) \/ Lock(q) \/ Challenge(q) \/ WrongCode(q) \/ Open(q) \/ Success(q)
  BY <1>3, <1>12 DEF Fail, Lock, Challenge, WrongCode, Open, Success
<1>13. ASSUME NEW k \in Key, Guess(q, k) PROVE op'[q].do = "wrongcode"
  BY <1>q, <1>13, WrongMoves DEF Guess
<1> QED BY <1>1, <1>2, <1>4, <1>5, <1>7, <1>8, <1>9, <1>10, <1>11, <1>12, <1>13 DEF ClientStep

LEMMA CountingHandlers ==
  ASSUME NEW k
  PROVE  /\ IsFiniteSet(Counting(k)) /\ Cardinality(Counting(k)) \in Nat /\ Cardinality(Counting(k)) >= 1
         /\ Client \subseteq Counting(k) /\ Counting(k) \subseteq Handler /\ Counting("reset") = Handler
<1>1. IsFiniteSet(Counting(k)) /\ Counting(k) # {}
  BY LoginConstantsOK, FS_Union DEF Counting
<1>2. Cardinality(Counting(k)) \in Nat /\ Cardinality(Counting(k)) # 0
  BY <1>1, FS_EmptySet, FS_CardinalityType
<1> QED BY <1>1, <1>2 DEF Counting, Handler

LEMMA WaitingFinite ==
  ASSUME NEW k
  PROVE  /\ IsFiniteSet(Waiting(k)) /\ Cardinality(Waiting(k)) \in Nat
         /\ Cardinality(Waiting(k)) <= Cardinality(Counting(k))
         /\ Cardinality(Waiting(k)') \in Nat /\ Cardinality(Waiting(k)') <= Cardinality(Counting(k))
<1>1. Waiting(k) \subseteq Counting(k) /\ Waiting(k)' \subseteq Counting(k)
  BY DEF Waiting, Counting
<1> QED BY <1>1, CountingHandlers, FS_Subset, FS_CardinalityType

DeskKeys == \A q \in Desk : op'[q].do = "wrongcode" => op'[q].key = "reset"
Fewer(k) == \A q \in Counting(k) : WaitsFor(op'[q], k) => WaitsFor(op[q], k)

LEMMA FewerWaiting ==
  ASSUME NEW k, Fewer(k)
  PROVE  Cardinality(Waiting(k)') <= Cardinality(Waiting(k))
<1>1. Waiting(k)' \subseteq Waiting(k)
  BY DEF Fewer, Waiting, WaitsFor, Counting
<1> QED BY <1>1, WaitingFinite, FS_Subset

LEMMA CodeNumbers ==
  ASSUME TypeInv, TypeInv'
  PROVE  /\ \A k \in Key : fails[k] \in Nat /\ fails'[k] \in Nat
         /\ fails \in [Key -> Nat] /\ MaxCodes \in Nat
BY FailsNumbers, LoginConstantsOK DEF TypeInv, TypeOK

\* A step that raises no count, and sends no handler to compare a code or to record a wrong one
LEMMA CodesFall ==
  ASSUME TypeInv, TypeInv', CodeInv, FailsFall, DeskKeys, \A k \in Key : Fewer(k)
  PROVE  CodeInv'
<1>1. ASSUME NEW k \in Key
      PROVE  fails'[k] + Cardinality(Waiting(k)') <= MaxCodes + Cardinality(Counting(k)) - 1
  <2>1. Cardinality(Waiting(k)') <= Cardinality(Waiting(k)) /\ fails'[k] <= fails[k]
        /\ fails[k] + Cardinality(Waiting(k)) <= MaxCodes + Cardinality(Counting(k)) - 1
    BY FewerWaiting DEF FailsFall, CodeInv
  <2> QED BY <2>1, CodeNumbers, WaitingFinite, CountingHandlers
<1> QED BY <1>1 DEF CodeInv, DeskKeys, Counting

\* A wrong code is recorded
LEMMA CodeCounted ==
  ASSUME TypeInv, TypeInv', CodeInv, NEW q \in Handler, WrongCode(q)
  PROVE  CodeInv'
<1>k. op[q].key \in Key /\ op[q].do = "wrongcode"
  BY OpShapes DEF WrongCode, TypeInv, TypeOK, Handler
<1>p. PICK k \in Key : k = op[q].key
  BY <1>k
<1>1. op[q].do = "wrongcode" /\ op[q].key = k /\ q \in Counting(k)
  <2>1. op[q].do = "wrongcode" /\ op[q].key = k
    BY <1>k, <1>p
  <2>2. CASE q \in Client
    BY <2>1, <2>2, CountingHandlers
  <2>3. CASE q \in Desk
    BY <2>1, <2>3, CountingHandlers DEF CodeInv
  <2> QED BY <2>1, <2>2, <2>3 DEF Handler
<1>2. op'[q].do = "idle" /\ \A r \in Handler \ {q} : op'[r] = op[r]
  BY GoesMoves DEF WrongCode
<1>3. fails'[k] = fails[k] + 1 /\ \A j \in Key \ {k} : fails'[j] = fails[j]
  BY <1>p, CodeNumbers DEF WrongCode, CountWrong
<1>4. DeskKeys /\ \A j \in Key : Fewer(j)
  BY <1>2, CountingHandlers DEF DeskKeys, Fewer, WaitsFor, CodeInv, Handler
<1>5. Cardinality(Waiting(k)') = Cardinality(Waiting(k)) - 1
  <2>1. q \in Waiting(k)
    BY <1>1 DEF Waiting, WaitsFor
  <2>2. Waiting(k)' = Waiting(k) \ {q}
    BY <1>1, <1>2, CountingHandlers DEF Waiting, WaitsFor, Counting
  <2> QED BY <2>1, <2>2, WaitingFinite, FS_RemoveElement
<1>6. ASSUME NEW j \in Key
      PROVE  fails'[j] + Cardinality(Waiting(j)') <= MaxCodes + Cardinality(Counting(j)) - 1
  <2>1. fails[j] + Cardinality(Waiting(j)) <= MaxCodes + Cardinality(Counting(j)) - 1
    BY DEF CodeInv
  <2>2. CASE j = k
    BY <1>1, <1>3, <1>5, <2>1, <2>2, CodeNumbers, WaitingFinite, CountingHandlers
  <2>3. CASE j # k
    <3>1. Cardinality(Waiting(j)') <= Cardinality(Waiting(j)) /\ fails'[j] = fails[j]
      BY <1>3, <1>4, <2>3, FewerWaiting
    <3> QED BY <2>1, <3>1, CodeNumbers, WaitingFinite, CountingHandlers
  <2> QED BY <2>2, <2>3
<1> QED BY <1>4, <1>6 DEF CodeInv, DeskKeys, Counting

\* A handler that has just read a count below the limit
LEMMA CodeRead ==
  ASSUME TypeInv, TypeInv', CodeInv, NEW k \in Key, CodesAllowed(k), fails' = fails, DeskKeys,
         \A j \in Key \ {k} : Fewer(j)
  PROVE  CodeInv'
<1>1. ASSUME NEW j \in Key
      PROVE  fails'[j] + Cardinality(Waiting(j)') <= MaxCodes + Cardinality(Counting(j)) - 1
  <2>1. CASE j = k
    BY <2>1, CodeNumbers, WaitingFinite, CountingHandlers DEF CodesAllowed
  <2>2. CASE j # k
    <3>1. Cardinality(Waiting(j)') <= Cardinality(Waiting(j))
          /\ fails[j] + Cardinality(Waiting(j)) <= MaxCodes + Cardinality(Counting(j)) - 1
      BY <2>2, FewerWaiting DEF CodeInv
    <3> QED BY <3>1, CodeNumbers, WaitingFinite, CountingHandlers
  <2> QED BY <2>1, <2>2
<1> QED BY <1>1 DEF CodeInv, DeskKeys, Counting

LEMMA ClientCodes ==
  ASSUME TypeInv, TypeInv', CodeInv, NEW q \in Client, ClientStep(q)
  PROVE  CodeInv'
<1>q. q \in Handler /\ Client \subseteq Handler /\ Desk \subseteq Handler \ {q}
  BY LoginConstantsOK DEF Handler
<1>1. \A r \in Handler \ {q} : op'[r] = op[r]
  BY ClientMoves
<1>2. DeskKeys
  BY <1>q, <1>1 DEF DeskKeys, CodeInv
<1>3. ASSUME op' = op \/ op'[q].do \notin {"wrongcode", "verify"}, NEW k PROVE Fewer(k)
  BY <1>q, <1>1, <1>3, CountingHandlers DEF Fewer, WaitsFor
<1>4. CASE WrongCode(q)
  BY <1>q, <1>4, CodeCounted
<1>5. CASE ~WrongCode(q) /\ (op' = op \/ op'[q].do \notin {"wrongcode", "verify"})
  BY <1>2, <1>3, <1>5, ClientFails, CodesFall
<1>6. ASSUME NEW k \in Key, CodesAllowed(k), Wrong(q, k), fails' = fails PROVE CodeInv'
  <2>1. op'[q].do = "wrongcode" /\ op'[q].key = k
    BY <1>q, <1>6, WrongMoves
  <2>2. \A j \in Key \ {k} : Fewer(j)
    BY <1>q, <1>1, <2>1, CountingHandlers DEF Fewer, WaitsFor
  <2> QED BY <1>2, <1>6, <2>2, CodeRead
<1>7. CASE VerifyCheck(q) /\ CodesAllowed("login") /\ Wrong(q, "login")
  BY <1>6, <1>7 DEF VerifyCheck, Key, codes
<1>8. CASE \E k \in Key : Guess(q, k)
  BY <1>6, <1>8 DEF Guess, codes
<1> QED BY <1>4, <1>5, <1>7, <1>8, ClientNext

LEMMA DeskCodes ==
  ASSUME TypeInv, TypeInv', CodeInv, NEW q \in Desk, DeskStep(q)
  PROVE  CodeInv'
<1>q. q \in Handler /\ Desk \subseteq Handler
  BY DEF Handler
<1>1. CASE WrongCode(q)
  BY <1>q, <1>1, CodeCounted
<1>2. (\A r \in Handler \ {q} : op'[r] = op[r]) /\ (op'[q].do = "wrongcode" => op'[q].key = "reset")
  BY <1>q, DeskMoves, GoesMoves, WrongMoves DEF DeskMove
<1>3. DeskKeys
  BY <1>q, <1>2 DEF DeskKeys, CodeInv
<1>4. CASE ResetBegin(q)
  <2>1. op'[q].do = "verify"
    BY <1>q, <1>4, GoesMoves DEF ResetBegin
  <2>2. \A j \in Key \ {"reset"} : Fewer(j)
    BY <1>q, <1>2, <2>1, CountingHandlers DEF Fewer, WaitsFor
  <2> QED BY <1>3, <1>4, <2>2, CodeRead DEF ResetBegin, Key, codes
<1>5. CASE ~WrongCode(q) /\ ~ResetBegin(q)
  <2>1. op'[q].do \in {"wrongcode", "verify"} => ResetVerify(q) /\ op'[q].do = "wrongcode" /\ op'[q].key = "reset"
    <3>1. CASE ResetVerify(q) /\ Wrong(q, "reset")
      BY <1>q, <3>1, WrongMoves
    <3>2. CASE Done(q) \/ \E d \in {"revoke", "reset", "forget"} : Goes(q, d)
      <4>1. op'[q].do \in {"idle", "revoke", "reset", "forget"}
        BY <1>q, <3>2, GoesMoves
      <4> QED BY <4>1
    <3> QED BY <1>5, <3>1, <3>2
        DEF DeskStep, Deactivate, Remove, ResetVerify, ResetWrite, ResetForget, ResetGoesOn, RevokeAll
  <2>2. ResetVerify(q) => op[q].do = "verify"
    BY DEF ResetVerify
  <2>3. ASSUME NEW j \in Key PROVE Fewer(j)
    BY <1>q, <1>2, <2>1, <2>2, CountingHandlers DEF Fewer, WaitsFor
  <2> QED BY <1>3, <1>5, <2>3, DeskFails, CodesFall
<1> QED BY <1>1, <1>4, <1>5

LEMMA NextCodes == TypeInv /\ CodeInv /\ [Next]_vars => CodeInv'
<1> SUFFICES ASSUME TypeInv, CodeInv, [Next]_vars PROVE CodeInv'
  OBVIOUS
<1>1. TypeInv'
  BY NextTyped
<1>2. CASE Outside
  <2>1. DeskKeys /\ \A k \in Key : Fewer(k)
    BY <1>2, OutsideKeeps DEF DeskKeys, Fewer, CodeInv
  <2> QED BY <1>1, <1>2, <2>1, OutsideFails, CodesFall
<1> QED BY <1>1, <1>2, ClientCodes, DeskCodes, NextCases

\* Wrong codes stop at the limit, but for those of the requests that read the count before it was reached.
THEOREM CodesSafe == Spec => []WrongCodesStop
<1>1. Init => CodeInv
  <2> SUFFICES ASSUME Init PROVE CodeInv
    OBVIOUS
  <2>1. \A q \in Handler : op[q].do = "idle"
    BY DEF Init, Idle, Handler
  <2>2. ASSUME NEW k \in Key PROVE fails[k] + Cardinality(Waiting(k)) <= MaxCodes + Cardinality(Counting(k)) - 1
    <3>1. Waiting(k) = {} /\ fails[k] = 0
      BY <2>1, CountingHandlers DEF Waiting, WaitsFor, Init
    <3>2. Cardinality(Waiting(k)) = 0 /\ MaxCodes \in Nat
      BY <3>1, FS_EmptySet, LoginConstantsOK
    <3> QED BY <3>1, <3>2, CountingHandlers
  <2> QED BY <2>1, <2>2 DEF CodeInv, Handler
<1>2. TypeInv /\ CodeInv => WrongCodesStop
  <2> SUFFICES ASSUME TypeInv, CodeInv, NEW k \in Key PROVE fails[k] <= MaxCodes + Cardinality(Counting(k)) - 1
    BY DEF WrongCodesStop
  <2>1. fails[k] \in Nat /\ MaxCodes \in Nat
    BY FailsNumbers, LoginConstantsOK
  <2> QED BY <2>1, WaitingFinite, CountingHandlers DEF CodeInv
<1> QED BY <1>1, <1>2, InitTyped, NextTyped, NextCodes, PTL DEF Spec

(***************************************************************************)
(* Usable methods                                                          *)
(*                                                                         *)
(* Where the role requires a second factor, a login that read it so and is *)
(* about to open a session has found a method enabled, or enabled one.     *)
(* A change of the role makes every copy and every session an older one.   *)
(***************************************************************************)
Near(o) == o.do \in {"used", "consume", "clear", "open"}

SecretsInv ==
  /\ \A m \in Enabled : Secret(m) \subseteq mfa.secrets
  /\ mfa.pending # None => Secret(mfa.pending) \subseteq mfa.pendingSecrets

\* The role that the login of handler q had read
RoleOf(o, t) == IF o.do = "open" THEN o.copy.roles ELSE t[o.tok].copy.roles

OfPresentRole ==
  \/ \E s \in DOMAIN sessions : sessions[s].roles = roles
  \/ \E q \in Client : Near(op[q]) /\ RoleOf(op[q], tokens) = roles

FactorInv ==
  /\ \A s \in DOMAIN sessions : sessions[s].roles <= roles
  /\ required /\ OfPresentRole => Enabled # {}

LEMMA ConfirmedSecrets == ASSUME TypeInv, SecretsInv, Proven PROVE SecretsInv' /\ Enabled' # {}
<1>1. mfa' = Confirmed /\ mfa.pending # None
  BY DEF Proven, MayConfirm
<1>2. /\ mfa'.methods = Enabled \cup {mfa.pending} /\ mfa'.pending = None
      /\ mfa'.secrets = mfa.secrets \cup Secret(mfa.pending)
  BY <1>1 DEF Confirmed
<1>3. \A m \in Enabled' : Secret(m) \subseteq mfa'.secrets
  BY <1>2 DEF SecretsInv, Enabled
<1> QED BY <1>2, <1>3 DEF SecretsInv, Enabled

LEMMA WithoutSecrets ==
  ASSUME TypeInv, SecretsInv, NEW m \in Method, mfa' = Without(m)
  PROVE  SecretsInv'
<1>1. /\ mfa'.methods = Enabled \ {m} /\ mfa'.pending = PendingAfter(m)
      /\ mfa'.secrets = mfa.secrets \ {m} /\ mfa'.pendingSecrets = mfa.pendingSecrets \ {m}
  BY DEF Without
<1>2. \A n : Secret(n) \subseteq {n}
  BY DEF Secret
<1>3. \A n \in Enabled' : Secret(n) \subseteq mfa'.secrets
  BY <1>1, <1>2 DEF SecretsInv, Enabled
<1>4. mfa'.pending # None => Secret(mfa'.pending) \subseteq mfa'.pendingSecrets
  BY <1>1, <1>2 DEF SecretsInv, PendingAfter
<1> QED BY <1>3, <1>4 DEF SecretsInv

LEMMA SetupSecrets ==
  ASSUME TypeInv, SecretsInv, NEW m \in Method, Setup(m)
  PROVE  SecretsInv' /\ Enabled' = Enabled
<1>1. /\ mfa'.methods = mfa.methods /\ mfa'.secrets = mfa.secrets
      /\ mfa'.pending = m /\ mfa'.pendingSecrets = Secret(m)
  BY DEF Setup, TypeInv, TypeOK, Mfa
<1> QED BY <1>1 DEF SecretsInv, Enabled

LEMMA OutsideMethods ==
  ASSUME TypeInv, SecretsInv, Outside
  PROVE  SecretsInv' /\ (required /\ Enabled # {} => Enabled' # {})
<1>1. CASE mfa' = mfa
  BY <1>1 DEF SecretsInv, Enabled
<1>2. ASSUME NEW m \in Method, Setup(m) PROVE SecretsInv' /\ Enabled' = Enabled
  BY <1>2, SetupSecrets
<1>3. CASE Enable
  BY <1>3, ConfirmedSecrets DEF Enable
<1>4. ASSUME NEW m \in Method, Disable(m) PROVE SecretsInv' /\ (required /\ Enabled # {} => Enabled' # {})
  <2>1. mfa' = Without(m) /\ m \in Enabled /\ (required => Enabled # {m})
    BY <1>4 DEF Disable, MayDisable
  <2>2. Enabled' = Enabled \ {m}
    BY <2>1 DEF Without, Enabled
  <2> QED BY <2>1, <2>2, WithoutSecrets
<1>5. CASE Settings
  BY <1>1, <1>2, <1>3, <1>4, <1>5 DEF Settings, SendStepUp, ResendSetup
<1>6. CASE Time
  BY <1>1, <1>6 DEF Time, LockExpires, FailsExpire, MailExpires
<1>7. CASE UNCHANGED vars
  BY <1>1, <1>7 DEF vars
<1> QED BY <1>1, <1>5, <1>6, <1>7
    DEF Outside, Reactivate, RoleChanges, Unlock, Forgot, EndSession, SendLoginCode, ResendLoginCode

LEMMA ClientMethods ==
  ASSUME TypeInv, SecretsInv, NEW q \in Client, ClientStep(q)
  PROVE  SecretsInv' /\ (Enabled' = Enabled \/ Enabled' # {})
<1>1. CASE mfa' = mfa
  BY <1>1 DEF SecretsInv, Enabled
<1>2. mfa' = mfa \/ Proven
  BY DEF ClientStep, WrongPassword, RightPassword, Fail, Lock, Challenge, VerifyBegin, EnableForced, VerifyCheck,
         WrongCode, CodeUsed, Consume, ClearFails, Open, Success, Guess
<1> QED BY <1>1, <1>2, ConfirmedSecrets

LEMMA TokensKeep ==
  ASSUME TypeInv, NEW q \in Client, ClientStep(q), ~Consume(q)
  PROVE  Len(tokens') >= Len(tokens) /\ \A c \in Tokens : tokens'[c] = tokens[c]
<1>n. Len(tokens) \in Nat
  BY TokenNumbers
<1>1. CASE tokens' = tokens
  BY <1>n, <1>1
<1>2. ASSUME NEW kind \in {"mfa", "setup"}, NEW copy \in Copy,
             Len(tokens) < MaxTokens, tokens' = Append(tokens, NewToken(kind, copy))
      PROVE  Len(tokens') >= Len(tokens) /\ \A c \in Tokens : tokens'[c] = tokens[c]
  <2>1. Len(tokens') = Len(tokens) + 1 /\ \A c \in Tokens : tokens'[c] = tokens[c]
    BY <1>2, TokenAdded
  <2> QED BY <1>n, <2>1
<1>3. CASE RightPassword(q)
  BY <1>1, <1>2, <1>3, SeenTyped DEF RightPassword
<1>4. CASE Challenge(q)
  <2>1. op[q].copy \in Copy
    BY <1>4, OpShapes DEF Challenge, TypeInv, TypeOK
  <2> QED BY <1>1, <1>2, <1>4, <2>1 DEF Challenge
<1>5. tokens' = tokens \/ RightPassword(q) \/ Challenge(q)
  BY DEF ClientStep, WrongPassword, Fail, Lock, VerifyBegin, EnableForced, VerifyCheck,
         WrongCode, CodeUsed, ClearFails, Open, Success, Guess, codes
<1> QED BY <1>1, <1>3, <1>4, <1>5

\* What a handler near the end of its login had read stays what it was.
LEMMA RoleKept ==
  ASSUME TypeInv, NEW q \in Client, ClientStep(q), NEW r \in Client, Near(op[r]), op'[r] = op[r]
  PROVE  RoleOf(op'[r], tokens') = RoleOf(op[r], tokens)
<1>1. op[r].do # "open" => op[r].tok \in Tokens
  BY DEF Near, TypeInv, Fits, Handler
<1>2. \A c \in Tokens : tokens'[c].copy = tokens[c].copy
  BY TokensKeep, ConsumeTyped
<1> QED BY <1>1, <1>2 DEF RoleOf

LEMMA ClientRole ==
  ASSUME TypeInv, NEW q \in Client, ClientStep(q), Near(op'[q]), ~(\E c \in DOMAIN tokens : EnableForced(q, c))
  PROVE  \/ Near(op[q]) /\ RoleOf(op'[q], tokens') = RoleOf(op[q], tokens)
         \/ required => Enabled # {}
<1>1. \A c \in Tokens : tokens'[c].copy = tokens[c].copy
  BY TokensKeep, ConsumeTyped
<1>2. Near(op[q]) /\ op[q].do # "open" => op[q].tok \in Tokens
  BY DEF Near, TypeInv, Fits, Handler
<1>3. CASE op' = op
  BY <1>3, RoleKept
<1>4. CASE VerifyCheck(q) /\ Enabled # {}
  BY <1>4
<1>5. CASE RightPassword(q) /\ ~required
  BY <1>5
<1>6. CASE (CodeUsed(q) \/ Consume(q)) /\ op'[q].do \in {"consume", "clear"} /\ op'[q].tok = op[q].tok
  <2>1. Near(op[q]) /\ op[q].do # "open"
    BY <1>6 DEF CodeUsed, Consume, Near
  <2> QED BY <1>1, <1>2, <1>6, <2>1 DEF RoleOf
<1>7. CASE ClearFails(q) /\ op'[q].do = "open" /\ op'[q].copy = tokens[op[q].tok].copy
  <2>1. Near(op[q]) /\ op[q].do # "open"
    BY <1>7 DEF ClearFails, Near
  <2> QED BY <1>7, <2>1 DEF RoleOf
<1>8. Tokens = DOMAIN tokens
  BY TokenNumbers
<1> QED BY <1>3, <1>4, <1>5, <1>6, <1>7, <1>8, ClientNext DEF Near

LEMMA ClientFactor ==
  ASSUME TypeInv, CopyInv, SecretsInv, FactorInv, NEW q \in Client, ClientStep(q)
  PROVE  FactorInv'
<1>q. q \in Handler /\ Client \subseteq Handler
  BY DEF Handler
<1>1. required' = required /\ roles' = roles /\ \A r \in Client \ {q} : op'[r] = op[r]
  BY <1>q, ClientKeepsAccount, ClientMoves
<1>2. Enabled # {} => Enabled' # {}
  BY ClientMethods
<1>3. /\ \A s \in DOMAIN sessions' : sessions'[s].roles <= roles'
      /\ (\E s \in DOMAIN sessions' : sessions'[s].roles = roles) => OfPresentRole
  <2>1. CASE Open(q)
    <3> DEFINE n == Len(sessions) + 1
    <3>1. /\ DOMAIN sessions' = DOMAIN sessions \cup {n} /\ sessions'[n] = Opened(q)
          /\ \A i \in DOMAIN sessions : sessions'[i] = sessions[i]
      BY <2>1, OpenTyped
    <3>2. Near(op[q]) /\ HasCopy(op[q]) /\ RoleOf(op[q], tokens) = op[q].copy.roles
      BY <2>1 DEF Open, Near, HasCopy, RoleOf
    <3>3. Opened(q).roles = op[q].copy.roles /\ op[q].copy.roles <= roles
      BY <1>q, <3>2, OldCopies DEF Opened, Good
    <3> HIDE DEF n
    <3>4. \A s \in DOMAIN sessions' : sessions'[s].roles <= roles'
      BY <1>1, <3>1, <3>3 DEF FactorInv
    <3>5. (\E s \in DOMAIN sessions' : sessions'[s].roles = roles) => OfPresentRole
      BY <3>1, <3>2, <3>3 DEF OfPresentRole
    <3> QED BY <3>4, <3>5
  <2>2. CASE sessions' = sessions
    BY <1>1, <2>2 DEF FactorInv, OfPresentRole
  <2> QED BY <2>1, <2>2, ClientSessions
<1>4. CASE \E c \in DOMAIN tokens : EnableForced(q, c)
  BY <1>3, <1>4, ConfirmedSecrets DEF FactorInv, EnableForced
<1>5. CASE ~(\E c \in DOMAIN tokens : EnableForced(q, c))
  <2> SUFFICES ASSUME required, OfPresentRole' PROVE Enabled # {}
    BY <1>1, <1>2, <1>3 DEF FactorInv
  <2>1. CASE OfPresentRole
    BY <2>1 DEF FactorInv
  <2>2. ASSUME NEW r \in Client, Near(op'[r]), RoleOf(op'[r], tokens') = roles PROVE Enabled # {}
    <3>1. CASE r = q
      <4>1. CASE Near(op[q]) /\ RoleOf(op'[q], tokens') = RoleOf(op[q], tokens)
        BY <2>2, <3>1, <4>1 DEF FactorInv, OfPresentRole
      <4> QED BY <1>5, <2>2, <3>1, <4>1, ClientRole
    <3>2. CASE r # q
      <4>1. op'[r] = op[r] /\ Near(op[r])
        BY <1>1, <2>2, <3>2
      <4>2. RoleOf(op[r], tokens) = roles
        BY <2>2, <4>1, RoleKept
      <4> QED BY <4>1, <4>2 DEF FactorInv, OfPresentRole
    <3> QED BY <3>1, <3>2
  <2>3. OfPresentRole \/ \E r \in Client : Near(op'[r]) /\ RoleOf(op'[r], tokens') = roles
    BY <1>1, <1>3 DEF OfPresentRole, Near, RoleOf
  <2> QED BY <2>1, <2>2, <2>3
<1> QED BY <1>4, <1>5

LEMMA OpenedKept ==
  ASSUME DOMAIN sessions' = DOMAIN sessions, \A s \in DOMAIN sessions : sessions'[s].roles = sessions[s].roles,
         \A r \in Client : op'[r] = op[r], tokens' = tokens, required' = required, roles' = roles,
         required /\ Enabled # {} => Enabled' # {}, FactorInv
  PROVE  FactorInv'
<1>1. OfPresentRole' <=> OfPresentRole
  BY DEF OfPresentRole, Near, RoleOf
<1> QED BY <1>1 DEF FactorInv

\* After a change of the role every login under way, and every session, has read an older one.
LEMMA RoleFactor ==
  ASSUME TypeInv, CopyInv, FactorInv, RoleChanges
  PROVE  FactorInv'
<1>1. roles \in Nat /\ roles' = roles + 1 /\ op' = op /\ tokens' = tokens /\ sessions' = sessions
  BY DEF RoleChanges, TypeInv, TypeOK
<1>2. ASSUME NEW q \in Client, Near(op[q]) PROVE RoleOf(op[q], tokens) \in Nat /\ RoleOf(op[q], tokens) <= roles
  <2>1. CASE op[q].do = "open"
    BY <2>1, OldCopies DEF RoleOf, HasCopy, Good, Copy, Handler
  <2>2. CASE op[q].do # "open"
    <3>1. op[q].tok \in Tokens
      BY <1>2, <2>2 DEF Near, TypeInv, Fits, Handler
    <3> QED BY <2>2, <3>1, OldCopies DEF RoleOf, Good, Copy
  <2> QED BY <2>1, <2>2
<1>3. \A s \in DOMAIN sessions : sessions[s].roles \in Nat /\ sessions[s].roles <= roles
  BY TokenNumbers DEF Session, FactorInv
<1>4. ~OfPresentRole'
  BY <1>1, <1>2, <1>3 DEF OfPresentRole, Near, RoleOf
<1>5. \A s \in DOMAIN sessions' : sessions'[s].roles <= roles'
  BY <1>1, <1>3
<1> QED BY <1>4, <1>5 DEF FactorInv

LEMMA OutsideSessions ==
  ASSUME TypeInv, Outside
  PROVE  /\ RoleChanges \/ (required' = required /\ roles' = roles)
         /\ DOMAIN sessions' = DOMAIN sessions
         /\ \A s \in DOMAIN sessions : sessions'[s].tok = sessions[s].tok /\ sessions'[s].roles = sessions[s].roles
<1>1. CASE UNCHANGED vars
  BY <1>1 DEF vars
<1>2. CASE Settings
  BY <1>2 DEF Settings, Setup, Disable, SendStepUp, ResendSetup, Enable, account
<1>3. CASE Time
  BY <1>3 DEF Time, LockExpires, FailsExpire, MailExpires, account
<1>4. CASE \E s \in DOMAIN sessions : EndSession(s)
  BY <1>4, EndSessionTyped DEF EndSession, account
<1> QED BY <1>1, <1>2, <1>3, <1>4
    DEF Outside, Reactivate, RoleChanges, Unlock, Forgot, SendLoginCode, ResendLoginCode, account

LEMMA DeskSessions ==
  ASSUME TypeInv, NEW q \in Desk, DeskStep(q)
  PROVE  /\ required' = required /\ roles' = roles /\ mfa' = mfa /\ tokens' = tokens
         /\ DOMAIN sessions' = DOMAIN sessions
         /\ \A s \in DOMAIN sessions : sessions'[s].tok = sessions[s].tok /\ sessions'[s].roles = sessions[s].roles
         /\ \A r \in Client : op'[r] = op[r]
<1>1. \A r \in Client : op'[r] = op[r]
  BY DeskMoves, GoesMoves, WrongMoves, LoginConstantsOK DEF DeskMove, Handler
<1>2. required' = required /\ roles' = roles /\ mfa' = mfa /\ tokens' = tokens
  BY DEF DeskStep, Deactivate, Remove, ResetBegin, ResetVerify, WrongCode, ResetWrite, ResetForget, RevokeAll,
         account, codes
<1>3. CASE RevokeAll(q)
  <2> DEFINE Ended(s) == [sessions[s] EXCEPT !.valid = FALSE]
  <2>1. sessions' = [s \in DOMAIN sessions |-> Ended(s)]
    BY <1>3 DEF RevokeAll
  <2>2. \A s \in DOMAIN sessions : Ended(s).tok = sessions[s].tok /\ Ended(s).roles = sessions[s].roles
    BY TokenNumbers DEF Session
  <2> HIDE DEF Ended
  <2>3. /\ DOMAIN sessions' = DOMAIN sessions
        /\ \A s \in DOMAIN sessions : sessions'[s].tok = sessions[s].tok /\ sessions'[s].roles = sessions[s].roles
    BY <2>1, <2>2
  <2> QED BY <1>1, <1>2, <2>3
<1>4. CASE sessions' = sessions
  BY <1>1, <1>2, <1>4
<1> QED BY <1>3, <1>4 DEF DeskStep, Deactivate, Remove, ResetBegin, ResetVerify, WrongCode, ResetWrite, ResetForget

LEMMA NextFactor == TypeInv /\ CopyInv /\ SecretsInv /\ FactorInv /\ [Next]_vars => SecretsInv' /\ FactorInv'
<1> SUFFICES ASSUME TypeInv, CopyInv, SecretsInv, FactorInv, [Next]_vars PROVE SecretsInv' /\ FactorInv'
  OBVIOUS
<1>1. CASE \E q \in Client : ClientStep(q)
  BY <1>1, ClientMethods, ClientFactor
<1>2. ASSUME NEW q \in Desk, DeskStep(q) PROVE SecretsInv' /\ FactorInv'
  <2>1. SecretsInv' /\ Enabled' = Enabled
    BY <1>2, DeskSessions DEF SecretsInv, Enabled
  <2> QED BY <1>2, <2>1, DeskSessions, OpenedKept
<1>3. CASE Outside
  <2>1. (\A r \in Client : op'[r] = op[r]) /\ tokens' = tokens
    BY <1>3, OutsideKeeps
  <2> QED BY <1>3, <2>1, OutsideMethods, OutsideSessions, OpenedKept, RoleFactor
<1> QED BY <1>1, <1>2, <1>3, NextCases

\* Every method enabled, or being set up, has its secret; an owner whose role requires a second factor and who
\* logged in since it does has a method enabled.
THEOREM MethodsSafe == Spec => []MethodsUsable
<1>1. Init => SecretsInv /\ FactorInv
  <2> SUFFICES ASSUME Init PROVE SecretsInv /\ FactorInv
    OBVIOUS
  <2>1. mfa.methods \subseteq {"email"} /\ mfa.pending = None
    BY DEF Init
  <2>2. DOMAIN sessions = {} /\ \A q \in Client : op[q].do = "idle"
    BY DEF Init, Idle
  <2>3. FactorInv
    BY <2>2 DEF FactorInv, OfPresentRole, Near
  <2>4. SecretsInv
    BY <2>1 DEF SecretsInv, Enabled, Secret
  <2> QED BY <2>3, <2>4
<1>2. SecretsInv /\ FactorInv => MethodsUsable
  BY DEF MethodsUsable, SecretsInv, FactorInv, OfPresentRole
<1> QED BY <1>1, <1>2, CopiesInvariant, NextFactor, PTL DEF Spec

(***************************************************************************)
(* A challenge opens few sessions                                          *)
(*                                                                         *)
(* Handlers start on a challenge only while it is not consumed, when it    *)
(* has opened no session yet; then each opens one at most.                 *)
(***************************************************************************)
OpenedBy(c) == {s \in DOMAIN sessions : sessions[s].tok = c}
Users(c) == {q \in Client : Using(q, c)}
Challenges == {c \in Tokens : tokens[c].kind = "mfa"}

OnceInv ==
  /\ \A s \in DOMAIN sessions : sessions[s].tok \in 0..Len(tokens)
  /\ \A c \in Challenges : Cardinality(OpenedBy(c)) + Cardinality(Users(c)) <= Cardinality(Client)
  /\ \A c \in Challenges : (OpenedBy(c) # {} \/ \E q \in Users(c) : op[q].do \in {"clear", "open"}) => tokens[c].consumed

LEMMA FiniteUses ==
  ASSUME TypeInv, NEW c
  PROVE  /\ IsFiniteSet(OpenedBy(c)) /\ Cardinality(OpenedBy(c)) \in Nat
         /\ IsFiniteSet(Users(c)) /\ Cardinality(Users(c)) \in Nat
         /\ Cardinality(Users(c)) <= Cardinality(Client) /\ Cardinality(Client) \in Nat
<1>1. OpenedBy(c) \subseteq 1..Len(sessions) /\ IsFiniteSet(1..Len(sessions))
  BY TokenNumbers, FS_Interval DEF OpenedBy
<1>2. Users(c) \subseteq Client /\ IsFiniteSet(Client)
  BY LoginConstantsOK DEF Users
<1> QED BY <1>1, <1>2, FS_Subset, FS_CardinalityType

\* A step that lets no handler begin on a challenge and opens no session with one
LEMMA OnceKept ==
  ASSUME TypeInv, TypeInv', OnceInv,
         Len(tokens') >= Len(tokens),
         \A c \in Tokens : tokens'[c].kind = tokens[c].kind /\ (tokens[c].consumed => tokens'[c].consumed),
         DOMAIN sessions' = DOMAIN sessions, \A s \in DOMAIN sessions : sessions'[s].tok = sessions[s].tok,
         \A c \in Challenges' : Users(c)' \subseteq Users(c),
         \A c \in Challenges' : \A q \in Users(c)' :
            op'[q].do \in {"clear", "open"} => op[q].do \in {"clear", "open"} \/ tokens'[c].consumed
  PROVE  OnceInv'
<1>n. Len(tokens) \in Nat /\ Len(tokens') \in Nat /\ Cardinality(Client) \in Nat
  <2>1. tokens' \in Seq(Token)
    BY DEF TypeInv, TypeOK
  <2> QED BY <2>1, TokenNumbers, FiniteUses, LenProperties
<1>1. \A c : OpenedBy(c)' = OpenedBy(c)
  BY DEF OpenedBy
<1>2. \A s \in DOMAIN sessions' : sessions'[s].tok \in 0..Len(tokens')
  BY <1>n DEF OnceInv
<1>3. ASSUME NEW c \in Challenges', c \notin Challenges
      PROVE  /\ Cardinality(OpenedBy(c)') + Cardinality(Users(c)') <= Cardinality(Client)
             /\ OpenedBy(c)' = {} /\ Users(c)' = {}
  <2>1. c \in 1..Len(tokens') /\ c \notin Tokens
    BY <1>3 DEF Challenges, Tokens
  <2>2. OpenedBy(c) = {}
    BY <1>n, <2>1 DEF OnceInv, OpenedBy, Tokens
  <2>3. Users(c) = {}
    BY <1>n, <2>1 DEF Users, Using, TypeInv, Fits, Tokens, Handler
  <2>4. OpenedBy(c)' = {} /\ Users(c)' = {}
    BY <1>1, <1>3, <2>2, <2>3
  <2>5. Cardinality(OpenedBy(c)') = 0 /\ Cardinality(Users(c)') = 0
    BY <2>4, FS_EmptySet
  <2> QED BY <1>n, <2>4, <2>5
<1>4. ASSUME NEW c \in Challenges
      PROVE  Cardinality(OpenedBy(c)') + Cardinality(Users(c)') <= Cardinality(Client)
  <2>1. c \in Challenges'
    BY <1>n DEF Challenges, Tokens
  <2>2. Cardinality(Users(c)') <= Cardinality(Users(c)) /\ Cardinality(Users(c)') \in Nat
    BY <2>1, FiniteUses, FS_Subset, FS_CardinalityType
  <2> QED BY <1>1, <2>2, FiniteUses DEF OnceInv
<1>5. ASSUME NEW c \in Challenges', OpenedBy(c)' # {} \/ \E q \in Users(c)' : op'[q].do \in {"clear", "open"}
      PROVE  tokens'[c].consumed
  <2>1. c \in Challenges
    BY <1>3, <1>5
  <2>2. CASE OpenedBy(c) # {} \/ \E q \in Users(c) : op[q].do \in {"clear", "open"}
    BY <2>1, <2>2 DEF OnceInv, Challenges
  <2> QED BY <1>1, <1>5, <2>2
<1>6. \A c \in Challenges' : Cardinality(OpenedBy(c)') + Cardinality(Users(c)') <= Cardinality(Client)
  BY <1>3, <1>4
<1> QED BY <1>2, <1>5, <1>6 DEF OnceInv, Users, OpenedBy

\* Users after a step of client q
LEMMA UsersMove ==
  ASSUME TypeInv, NEW q \in Client, ClientStep(q), NEW c
  PROVE  /\ Users(c)' \subseteq Users(c) \cup {q}
         /\ \A r \in Users(c)' \ {q} : op'[r] = op[r]
<1>1. \A r \in Client \ {q} : op'[r] = op[r]
  BY ClientMoves DEF Handler
<1> QED BY <1>1 DEF Users, Using

\* The step of q neither begins on a challenge nor opens a session
LEMMA QuietOnce ==
  ASSUME TypeInv, TypeInv', OnceInv, NEW q \in Client, ClientStep(q), ~Open(q),
         \A c \in DOMAIN tokens : ~VerifyBegin(q, c)
  PROVE  OnceInv'
<1>q. q \in Handler
  BY DEF Handler
<1>s. sessions' = sessions
  BY ClientSessions
<1>k. /\ Len(tokens') >= Len(tokens)
      /\ \A c \in Tokens : tokens'[c].kind = tokens[c].kind /\ (tokens[c].consumed => tokens'[c].consumed)
  BY TokensKeep, ConsumeTyped, TokenNumbers
<1>1. ASSUME NEW c \in Challenges', q \in Users(c)'
      PROVE  q \in Users(c) /\ (op'[q].do \in {"clear", "open"} => op[q].do \in {"clear", "open"} \/ tokens'[c].consumed)
  <2>1. op'[q].do \in {"check", "used", "consume", "clear", "open"} /\ op'[q].tok = c /\ c \in 1..Len(tokens')
        /\ tokens'[c].kind = "mfa"
    BY <1>1 DEF Users, Using, Challenges, Tokens
  <2>2. CASE op' = op
    BY <2>1, <2>2 DEF Users, Using
  <2>3. CASE \E d \in Tokens : EnableForced(q, d) /\ op'[q].tok = d
    BY <1>k, <2>1, <2>3 DEF EnableForced, SetupToken
  <2>4. CASE VerifyCheck(q) /\ op'[q].do \in {"used", "consume"} /\ op'[q].tok = op[q].tok
    BY <2>1, <2>4 DEF VerifyCheck, Users, Using
  <2>5. CASE CodeUsed(q) /\ op'[q].do = "consume" /\ op'[q].tok = op[q].tok
    BY <2>1, <2>5 DEF CodeUsed, Users, Using
  <2>6. CASE Consume(q) /\ op'[q].do = "clear" /\ op'[q].tok = op[q].tok
    <3>1. tokens'[c].consumed
      BY <2>1, <2>6, ConsumeTyped
    <3> QED BY <2>1, <2>6, <3>1 DEF Consume, Users, Using
  <2>7. CASE ClearFails(q) /\ op'[q].do = "open" /\ op'[q].tok = op[q].tok
    BY <2>1, <2>7 DEF ClearFails, Users, Using
  <2>8. Tokens = DOMAIN tokens
    BY TokenNumbers
  <2> QED BY <2>1, <2>2, <2>3, <2>4, <2>5, <2>6, <2>7, <2>8, ClientNext
<1>2. \A c \in Challenges' : Users(c)' \subseteq Users(c)
  BY <1>1, UsersMove
<1>3. ASSUME NEW c \in Challenges', NEW r \in Users(c)', op'[r].do \in {"clear", "open"}
      PROVE  op[r].do \in {"clear", "open"} \/ tokens'[c].consumed
  <2>1. CASE r = q
    BY <1>1, <1>3, <2>1
  <2>2. CASE r # q
    BY <1>3, <2>2, UsersMove
  <2> QED BY <2>1, <2>2
<1> QED BY <1>s, <1>k, <1>2, <1>3, OnceKept

\* A handler begins on a challenge that is not consumed
LEMMA BeginOnce ==
  ASSUME TypeInv, OnceInv, NEW q \in Client, NEW d \in DOMAIN tokens, VerifyBegin(q, d)
  PROVE  OnceInv'
<1>1. sessions' = sessions /\ tokens' = tokens /\ d \in Challenges /\ ~tokens[d].consumed
  BY TokenNumbers DEF VerifyBegin, NotConsumed, Challenges
<1>2. op'[q].do = "check" /\ op'[q].tok = d /\ \A r \in Client \ {q} : op'[r] = op[r]
  BY ToMoves DEF VerifyBegin, Handler
<1>3. Challenges' = Challenges /\ \A c : OpenedBy(c)' = OpenedBy(c)
  BY <1>1 DEF Challenges, OpenedBy, Tokens
<1>4. ASSUME NEW c \in Challenges
      PROVE  Cardinality(OpenedBy(c)') + Cardinality(Users(c)') <= Cardinality(Client)
  <2>1. CASE c = d
    <3>1. OpenedBy(d)' = {} /\ Cardinality({}) = 0
      BY <1>1, <1>3, FS_EmptySet DEF OnceInv
    <3>2. Users(c)' \subseteq Client /\ IsFiniteSet(Client)
      BY LoginConstantsOK DEF Users
    <3>3. Cardinality(Users(c)') \in Nat /\ Cardinality(Users(c)') <= Cardinality(Client)
      BY <3>2, FS_Subset, FS_CardinalityType
    <3> QED BY <2>1, <3>1, <3>3
  <2>2. CASE c # d
    <3>1. Users(c)' \subseteq Users(c)
      BY <1>2, <2>2 DEF Users, Using
    <3>2. Cardinality(Users(c)') \in Nat /\ Cardinality(Users(c)') <= Cardinality(Users(c))
      BY <3>1, FiniteUses, FS_Subset, FS_CardinalityType
    <3> QED BY <1>3, <3>2, FiniteUses DEF OnceInv
  <2> QED BY <2>1, <2>2
<1>5. ASSUME NEW c \in Challenges, NEW r \in Users(c)', op'[r].do \in {"clear", "open"}
      PROVE  r \in Users(c) /\ op[r].do \in {"clear", "open"}
  BY <1>2, <1>5 DEF Users, Using
<1>6. \A c \in Challenges : (OpenedBy(c) # {} \/ \E r \in Users(c)' : op'[r].do \in {"clear", "open"}) => tokens[c].consumed
  BY <1>5 DEF OnceInv
<1> QED BY <1>1, <1>3, <1>4, <1>6 DEF OnceInv

\* A session is opened: the challenge has one user less
LEMMA OpenOnce ==
  ASSUME TypeInv, OnceInv, NEW q \in Client, Open(q)
  PROVE  OnceInv'
<1> DEFINE n == Len(sessions) + 1
           t == op[q].tok
<1>q. q \in Handler
  BY DEF Handler
<1>1. /\ DOMAIN sessions' = DOMAIN sessions \cup {n} /\ n \notin DOMAIN sessions
      /\ \A i \in DOMAIN sessions : sessions'[i] = sessions[i]
      /\ sessions'[n].tok = t /\ tokens' = tokens
  BY OpenTyped DEF Open, Opened
<1>2. op[q].do = "open" /\ t \in 0..Len(tokens)
  BY <1>q DEF Open, TypeInv, Fits
<1>3. op'[q].do = "success" /\ \A r \in Client \ {q} : op'[r] = op[r]
  BY <1>q, GoesMoves DEF Open, Handler
<1>4. Challenges' = Challenges
  BY <1>1 DEF Challenges, Tokens
<1>5. \A s \in DOMAIN sessions' : sessions'[s].tok \in 0..Len(tokens')
  BY <1>1, <1>2 DEF OnceInv
<1>6. \A c : Users(c)' = Users(c) \ {q}
  BY <1>3 DEF Users, Using
<1>7. \A c : OpenedBy(c)' = IF c = t THEN OpenedBy(c) \cup {n} ELSE OpenedBy(c)
  BY <1>1 DEF OpenedBy
<1>8. q \in Users(t)
  BY <1>2 DEF Users, Using
<1>9. ASSUME NEW c \in Challenges
      PROVE  Cardinality(OpenedBy(c)') + Cardinality(Users(c)') <= Cardinality(Client)
  <2>1. CASE c = t
    <3>1. n \notin OpenedBy(t)
      BY <1>1 DEF OpenedBy
    <3>2. Cardinality(OpenedBy(t) \cup {n}) = Cardinality(OpenedBy(t)) + 1
      BY <3>1, FiniteUses, FS_AddElement
    <3>3. Cardinality(Users(t) \ {q}) = Cardinality(Users(t)) - 1
      BY <1>8, FiniteUses, FS_RemoveElement
    <3>4. Cardinality(OpenedBy(c)') = Cardinality(OpenedBy(c)) + 1
      BY <1>7, <2>1, <3>2
    <3>5. Cardinality(Users(c)') = Cardinality(Users(c)) - 1
      BY <1>6, <2>1, <3>3
    <3>6. Cardinality(OpenedBy(c)) + Cardinality(Users(c)) <= Cardinality(Client)
      BY DEF OnceInv
    <3>7. Cardinality(OpenedBy(c)) \in Nat /\ Cardinality(Users(c)) \in Nat /\ Cardinality(Client) \in Nat
      BY FiniteUses
    <3> QED BY <3>4, <3>5, <3>6, <3>7
  <2>2. CASE c # t
    <3>1. q \notin Users(c)
      BY <2>2 DEF Users, Using
    <3>2. Users(c)' = Users(c) /\ OpenedBy(c)' = OpenedBy(c)
      BY <1>6, <1>7, <2>2, <3>1
    <3> QED BY <3>2 DEF OnceInv
  <2> QED BY <2>1, <2>2
<1>10. ASSUME NEW c \in Challenges, OpenedBy(c)' # {} \/ \E r \in Users(c)' : op'[r].do \in {"clear", "open"}
       PROVE  tokens[c].consumed
  <2>1. CASE c = t
    BY <1>2, <1>8, <2>1 DEF OnceInv
  <2>2. CASE c # t
    BY <1>3, <1>6, <1>7, <1>10, <2>2 DEF OnceInv, Users
  <2> QED BY <2>1, <2>2
<1> QED BY <1>1, <1>4, <1>5, <1>9, <1>10 DEF OnceInv

LEMMA NextOnce == TypeInv /\ OnceInv /\ [Next]_vars => OnceInv'
<1> SUFFICES ASSUME TypeInv, OnceInv, [Next]_vars PROVE OnceInv'
  OBVIOUS
<1>1. TypeInv' /\ Len(tokens) \in Nat
  BY NextTyped, TokenNumbers
<1>2. CASE \E q \in Client : ClientStep(q)
  BY <1>1, <1>2, QuietOnce, BeginOnce, OpenOnce
<1>3. CASE tokens' = tokens /\ (\A r \in Client : op'[r] = op[r]) /\ DOMAIN sessions' = DOMAIN sessions
           /\ \A s \in DOMAIN sessions : sessions'[s].tok = sessions[s].tok
  <2>1. \A c : Users(c)' = Users(c)
    BY <1>3 DEF Users, Using
  <2>2. \A c : \A r \in Users(c) : op'[r] = op[r]
    BY <1>3 DEF Users
  <2> QED BY <1>1, <1>3, <2>1, <2>2, OnceKept
<1>4. CASE \E q \in Desk : DeskStep(q)
  BY <1>3, <1>4, DeskSessions
<1>5. CASE Outside
  BY <1>3, <1>5, OutsideKeeps, OutsideSessions
<1> QED BY <1>2, <1>4, <1>5, NextCases

\* A challenge opens at most one session for each handler that began on it before it was consumed.
THEOREM ChallengeSafe == Spec => []ChallengeOpensOnce
<1>1. Init => OnceInv
  BY DEF Init, OnceInv, Challenges, Tokens
<1>2. TypeInv /\ OnceInv => ChallengeOpensOnce
  BY TokenNumbers DEF OnceInv, ChallengeOpensOnce, Challenges, OpenedBy, Users
<1> QED BY <1>1, <1>2, InitTyped, NextTyped, NextOnce, PTL DEF Spec
=============================================================================
