-------------------------- MODULE CliLoginProofs ---------------------------
(* Proofs about CliLogin: what codes and tokens stand for, with any number of *)
(* attempts, subjects, configurations and restarts.                           *)
EXTENDS CliLogin, RowProofs

\* The answer of a browser that a code or a token came from.
ApprovalOf(code, attempt, subject) ==
  \E r \in redirects : r.code = code /\ r.attempt = attempt /\ r.subject = subject

\* Every approval has a number of its own.
ApprovalsAreNumbered ==
  /\ issued \in Nat
  /\ \A r \in redirects : r.code \in 0 .. issued
  /\ \A q, r \in redirects : q.code = r.code /\ r.code # 0 => q = r

\* A pending code stands for one approval, by someone with the current secret.
CodesAreApproved ==
  \A c \in codes :
    /\ c.id \in 1 .. issued
    /\ config.secret[c.subject] # None
    /\ ApprovalOf(c.id, c.challenge, c.subject)
    /\ \A r \in redirects :
         r.code = c.id /\ r.epoch # None => r.epoch = config.secret[c.subject]
    /\ \A d \in codes : d.id = c.id => d = c

\* A code with a token is no longer pending.
SpentCodesAreGone ==
  \A t \in tokens :
    /\ t.code \in 0 .. issued
    /\ \A c \in codes : c.id # t.code

\* A token carries the secret that its approval rested on.
TokensKeepTheSecret ==
  \A t \in tokens :
    t.code # 0 =>
      /\ t.epoch # None
      /\ \A r \in redirects : r.code = t.code /\ r.epoch # None => r.epoch = t.epoch

\* Only sessions of old releases, which were the operator's, have no epoch.
SessionsAreNamed == \A s \in sessions : s.epoch = None => s.subject = Operator

LoginInv ==
  /\ config \in Configs
  /\ SessionsAreNamed
  /\ ApprovalsAreNumbered
  /\ CodesAreApproved
  /\ SpentCodesAreGone
  /\ TokensKeepTheSecret
  /\ TokensFollowApprovals

\* Whoever decides on a login is known to the process, and signed in with the
\* secret of the moment or in a session of an old release.
LEMMA DecidersAreKnown ==
  ASSUME config \in Configs, SessionsAreNamed, NEW s \in sessions, SessionRights(s) # {}
  PROVE  /\ config.secret[s.subject] # None
         /\ s.epoch # None => s.epoch = config.secret[s.subject]
<1>1. SessionValid(s)
  BY DEF SessionRights
<1>2. CASE s.epoch = None
  BY <1>1, <1>2, ConfigsAssumption DEF Loadable, SessionsAreNamed
<1>3. CASE s.epoch # None
  BY <1>1, <1>3 DEF SessionValid, Known, EpochOf
<1> QED BY <1>2, <1>3

\* The invariant holds in the initial states.
LEMMA LoginInit == Init => LoginInv
<1> SUFFICES ASSUME Init PROVE LoginInv
  OBVIOUS
<1>1. config \in Configs
  BY FirstAssumption DEF Init
<1>2. codes = {} /\ issued = 0 /\ redirects = {}
  BY DEF Init, CodesInit
<1>3. \A t \in tokens : t.code = 0
  BY DEF Init, LegacyToken
<1>4. SessionsAreNamed
  BY DEF Init, SessionsAreNamed, LegacySession, SessionOf
<1> QED BY <1>1, <1>2, <1>3, <1>4 DEF LoginInv, ApprovalsAreNumbered, CodesAreApproved,
     SpentCodesAreGone, TokensKeepTheSecret, TokensFollowApprovals

\* An approval gets a code and a number that nothing has had before.
LEMMA ApproveKeeps ==
  ASSUME LoginInv, NEW a \in Attempts, NEW s \in sessions, Approve(a, s)
  PROVE  LoginInv'
<1> DEFINE code == [id |-> issued + 1, challenge |-> a, redirect |-> RedirectOf[a],
                    subject |-> s.subject, expires |-> now + CodeTtl]
           answer == [attempt |-> a, code |-> issued + 1, subject |-> s.subject,
                      epoch |-> s.epoch]
<1>0. /\ UNCHANGED <<config, sessions, tokens>>
      /\ issued' = issued + 1
      /\ redirects' = redirects \cup {answer}
      /\ \A c \in codes' : c \in codes \/ c = code
      /\ issued \in Nat
  BY DEF Approve, Issue, authVars, OldestLeave, Unexpired, LoginInv, ApprovalsAreNumbered
<1>a. /\ config.secret[s.subject] # None
      /\ s.epoch # None => s.epoch = config.secret[s.subject]
  BY DecidersAreKnown DEF Approve, LoginInv
<1>1. (config \in Configs /\ SessionsAreNamed)'
  BY <1>0 DEF LoginInv, SessionsAreNamed
<1>2. ApprovalsAreNumbered'
  <2>1. \A r \in redirects : r.code # issued + 1
    BY <1>0 DEF LoginInv, ApprovalsAreNumbered
  <2> QED BY <1>0, <2>1 DEF LoginInv, ApprovalsAreNumbered
<1>3. CodesAreApproved'
  <2> SUFFICES ASSUME NEW c \in codes'
               PROVE  (/\ c.id \in 1 .. issued
                       /\ config.secret[c.subject] # None
                       /\ ApprovalOf(c.id, c.challenge, c.subject)
                       /\ \A r \in redirects :
                            r.code = c.id /\ r.epoch # None => r.epoch = config.secret[c.subject]
                       /\ \A d \in codes : d.id = c.id => d = c)'
    BY DEF CodesAreApproved
  <2>1. CASE c \in codes
    BY <1>0, <2>1 DEF LoginInv, CodesAreApproved, ApprovalOf, ApprovalsAreNumbered
  <2>2. CASE c = code
    <3>1. c.id = issued + 1 /\ c.challenge = a /\ c.subject = s.subject
      BY <2>2
    <3>2. (c.id \in 1 .. issued /\ config.secret[c.subject] # None)'
      BY <1>0, <1>a, <3>1
    <3>b. /\ answer \in redirects'
          /\ answer.code = c.id /\ answer.attempt = c.challenge /\ answer.subject = c.subject
      BY <1>0, <3>1
    <3>3. \E r \in redirects' :
            r.code = c.id /\ r.attempt = c.challenge /\ r.subject = c.subject
      BY <3>b
    <3>4. \A r \in redirects' : r.code = issued + 1 => r = answer
      BY <1>0 DEF LoginInv, ApprovalsAreNumbered
    <3>5. (\A r \in redirects :
             r.code = c.id /\ r.epoch # None => r.epoch = config.secret[c.subject])'
      BY <1>0, <1>a, <3>1, <3>4
    <3>a. \A d \in codes : d.id # issued + 1
      BY <1>0 DEF LoginInv, CodesAreApproved
    <3>6. (\A d \in codes : d.id = c.id => d = c)'
      <4> SUFFICES ASSUME NEW d \in codes', d.id = issued + 1 PROVE d = code
        BY <2>2, <3>1
      <4> QED BY <1>0, <3>a
    <3> QED BY <3>2, <3>3, <3>5, <3>6 DEF ApprovalOf
  <2> QED BY <1>0, <2>1, <2>2
<1>4. SpentCodesAreGone'
  BY <1>0 DEF LoginInv, SpentCodesAreGone
<1>5. TokensKeepTheSecret'
  BY <1>0 DEF LoginInv, TokensKeepTheSecret, SpentCodesAreGone
<1>6. TokensFollowApprovals'
  BY <1>0 DEF LoginInv, TokensFollowApprovals
<1> QED BY <1>1, <1>2, <1>3, <1>4, <1>5, <1>6 DEF LoginInv

\* A matching request turns one pending code into one token; any other request
\* changes nothing but expired codes.
LEMMA ExchangeKeeps ==
  ASSUME LoginInv, NEW id, NEW v \in Attempts, ExchangeFor(id, v),
         UNCHANGED <<redirects>>
  PROVE  LoginInv'
<1> DEFINE found == Matching(id, v, RedirectOf[v])
<1>0. /\ UNCHANGED <<config, sessions, issued, redirects>>
      /\ codes' \subseteq codes /\ codes' \cap found = {}
      /\ found \subseteq codes
      /\ tokens' = tokens \cup {TokenFor(c.subject, id, v) : c \in found}
      /\ \A c \in found : c.id = id /\ c.challenge = v
  BY DEF ExchangeFor, Consume, Matching, Unexpired
<1>a. \A t \in tokens' :
        \/ t \in tokens
        \/ \E c \in found : /\ t = TokenFor(c.subject, id, v)
                            /\ t.code = c.id /\ t.verifier = c.challenge
                            /\ t.subject = c.subject /\ t.epoch = config.secret[c.subject]
  BY <1>0 DEF TokenFor, EpochOf
<1>b. \A c, d \in found : c = d
  BY <1>0 DEF LoginInv, CodesAreApproved
<1>1. (config \in Configs /\ SessionsAreNamed)'
  BY <1>0 DEF LoginInv, SessionsAreNamed
<1>2. ApprovalsAreNumbered'
  BY <1>0 DEF LoginInv, ApprovalsAreNumbered
<1>3. CodesAreApproved'
  BY <1>0 DEF LoginInv, CodesAreApproved, ApprovalOf
<1>4. SpentCodesAreGone'
  <2> SUFFICES ASSUME NEW t \in tokens'
               PROVE  t.code \in 0 .. issued /\ \A c \in codes' : c.id # t.code
    BY <1>0 DEF SpentCodesAreGone
  <2>1. CASE t \in tokens
    BY <1>0, <2>1 DEF LoginInv, SpentCodesAreGone
  <2>2. CASE t \notin tokens
    <3>1. PICK c \in found : t.code = c.id
      BY <1>a, <2>2
    <3>2. c.id \in 0 .. issued /\ \A d \in codes : d.id = c.id => d = c
      BY <1>0, <3>1 DEF LoginInv, CodesAreApproved, ApprovalsAreNumbered
    <3> QED BY <1>0, <3>1, <3>2
  <2> QED BY <2>1, <2>2
<1>5. TokensKeepTheSecret'
  <2> SUFFICES ASSUME NEW t \in tokens', t.code # 0
               PROVE  /\ t.epoch # None
                      /\ \A r \in redirects : r.code = t.code /\ r.epoch # None => r.epoch = t.epoch
    BY <1>0 DEF TokensKeepTheSecret
  <2>1. CASE t \in tokens
    BY <2>1 DEF LoginInv, TokensKeepTheSecret
  <2>2. CASE t \notin tokens
    BY <1>0, <1>a, <2>2 DEF LoginInv, CodesAreApproved
  <2> QED BY <2>1, <2>2
<1>6. TokensFollowApprovals'
  <2> SUFFICES ASSUME NEW t \in tokens', t.code # 0
               PROVE  /\ ApprovalOf(t.code, t.verifier, t.subject)
                      /\ \A u \in tokens' : u.code = t.code => u = t
    BY <1>0 DEF TokensFollowApprovals, ApprovalOf
  <2>1. \A u \in tokens : \A c \in found : u.code # c.id
    BY <1>0 DEF LoginInv, SpentCodesAreGone
  <2>2. CASE t \in tokens
    BY <1>0, <1>a, <2>1, <2>2 DEF LoginInv, TokensFollowApprovals, ApprovalOf
  <2>3. CASE t \notin tokens
    <3>1. PICK c \in found : /\ t = TokenFor(c.subject, id, v)
                             /\ t.code = c.id /\ t.verifier = c.challenge
                             /\ t.subject = c.subject
      BY <1>a, <2>3
    <3>2. ApprovalOf(t.code, t.verifier, t.subject)
      BY <1>0, <3>1 DEF LoginInv, CodesAreApproved
    <3>3. \A u \in tokens' : u.code = t.code => u = t
      BY <1>a, <1>b, <2>1, <3>1
    <3> QED BY <3>2, <3>3
  <2> QED BY <2>2, <2>3
<1> QED BY <1>1, <1>2, <1>3, <1>4, <1>5, <1>6 DEF LoginInv

\* Every step keeps the invariant: only approvals, exchanges, sign-ins, denials
\* and restarts touch what it is about.
LEMMA LoginStep == LoginInv /\ [Next]_vars => LoginInv'
<1> SUFFICES ASSUME LoginInv, [Next]_vars PROVE LoginInv'
  OBVIOUS
<1> DEFINE Untouched == UNCHANGED <<codes, issued, config, sessions, tokens, redirects>>
<1>1. Untouched => LoginInv'
  BY DEF LoginInv, SessionsAreNamed, ApprovalsAreNumbered, CodesAreApproved,
         ApprovalOf, SpentCodesAreGone, TokensKeepTheSecret, TokensFollowApprovals
<1>2. CASE UNCHANGED vars
  BY <1>1, <1>2 DEF vars, codesVars, authVars
<1>3. CASE Tick
  BY <1>1, <1>3 DEF Tick, codesVars, authVars
<1>4. ASSUME NEW a \in Attempts, CliStep(a)
      PROVE  LoginInv'
  <2>1. CASE Start(a)
    BY <1>1, <2>1 DEF Start, codesVars, authVars
  <2>2. CASE TimeOut(a)
    BY <1>1, <2>2 DEF TimeOut, codesVars, authVars
  <2>3. CASE Cancel(a)
    BY <1>1, <2>3 DEF Cancel, codesVars, authVars
  <2>4. CASE \E r \in redirects : Callback(a, r)
    BY <1>1, <2>4 DEF Callback, codesVars, authVars
  <2>5. CASE Exchange(a)
    BY <2>5, ExchangeKeeps DEF Exchange
  <2>6. CASE ExchangeLost(a)
    BY <1>1, <2>6 DEF ExchangeLost, codesVars, authVars
  <2>7. CASE Verify(a)
    BY <1>1, <2>7 DEF Verify, codesVars, authVars
  <2>8. CASE Closed(a)
    BY <1>1, <2>8 DEF Closed, codesVars, authVars
  <2> QED BY <1>4, <2>1, <2>2, <2>3, <2>4, <2>5, <2>6, <2>7, <2>8 DEF CliStep
<1>5. ASSUME NEW s \in Subjects, SignIn(s)
      PROVE  LoginInv'
  <2>1. /\ UNCHANGED <<codes, issued, config, tokens, redirects>>
        /\ sessions' = sessions \cup {SessionOf(s)}
        /\ SessionOf(s).epoch # None
    BY <1>5 DEF SignIn, Login, Known, SessionOf, EpochOf, codesVars
  <2> QED BY <2>1 DEF LoginInv, SessionsAreNamed, ApprovalsAreNumbered, CodesAreApproved,
           ApprovalOf, SpentCodesAreGone, TokensKeepTheSecret, TokensFollowApprovals
<1>6. ASSUME NEW a \in Attempts, NEW s \in sessions, Approve(a, s)
      PROVE  LoginInv'
  BY <1>6, ApproveKeeps
<1>7. ASSUME NEW a \in Attempts, NEW s \in sessions, Deny(a, s)
      PROVE  LoginInv'
  <2> DEFINE denial == [attempt |-> a, code |-> 0, subject |-> None, epoch |-> None]
  <2>1. /\ UNCHANGED <<codes, issued, config, sessions, tokens>>
        /\ redirects' = redirects \cup {denial}
        /\ denial.code = 0 /\ denial.epoch = None
    BY <1>7 DEF Deny, codesVars, authVars
  <2>2. ApprovalsAreNumbered'
    BY <2>1 DEF LoginInv, ApprovalsAreNumbered
  <2>3. (CodesAreApproved /\ TokensKeepTheSecret /\ TokensFollowApprovals)'
    BY <2>1 DEF LoginInv, CodesAreApproved, ApprovalOf, TokensKeepTheSecret,
                TokensFollowApprovals
  <2> QED BY <2>1, <2>2, <2>3 DEF LoginInv, SessionsAreNamed, SpentCodesAreGone
<1>8. ASSUME NEW id \in 1 .. issued, NEW a \in Attempts, AnyExchange(id, a)
      PROVE  LoginInv'
  BY <1>8, ExchangeKeeps DEF AnyExchange
<1>9. ASSUME NEW c \in Configs, Restart(c)
      PROVE  LoginInv'
  <2>1. /\ UNCHANGED <<issued, sessions, tokens, redirects>>
        /\ codes' = {} /\ config' = c
    BY <1>9 DEF Restart, Forget
  <2> QED BY <2>1 DEF LoginInv, SessionsAreNamed, ApprovalsAreNumbered, CodesAreApproved,
           SpentCodesAreGone, TokensKeepTheSecret, TokensFollowApprovals
<1>10. CASE \E a \in Attempts : Disconnect(a)
  BY <1>1, <1>10 DEF Disconnect, codesVars, authVars
<1> QED BY <1>2, <1>3, <1>4, <1>5, <1>6, <1>7, <1>8, <1>9, <1>10 DEF Next

\* The inductive invariant of the login.
THEOREM LoginInvariant == Spec => []LoginInv
<1> QED BY LoginInit, LoginStep, PTL DEF Spec

\* A code yields one token at most, for the attempt and the subject that were
\* approved: AuthorizationCodeStore.consume and cli_token_exchange.
THEOREM OneTokenPerApproval == Spec => []TokensFollowApprovals
<1>1. LoginInv => TokensFollowApprovals
  BY DEF LoginInv
<1> QED BY <1>1, LoginInvariant, PTL

\* A rotation and the restart that it needs end what was pending: an accepted CLI
\* token was approved with its subject's current secret.
THEOREM RotationEndsPendingAccess == Spec => []AccessRestsOnCurrentSecret
<1>1. LoginInv => AccessRestsOnCurrentSecret
  <2> SUFFICES ASSUME LoginInv, NEW t \in tokens, t.code # 0, TokenValid(t),
                      NEW r \in redirects, r.code = t.code, r.epoch # None
               PROVE  r.epoch = config.secret[t.subject]
    BY DEF AccessRestsOnCurrentSecret
  <2>1. t.epoch = config.secret[t.subject]
    BY DEF TokenValid, EpochOf, LoginInv, TokensKeepTheSecret
  <2> QED BY <2>1 DEF LoginInv, TokensKeepTheSecret
<1> QED BY <1>1, LoginInvariant, PTL

-----------------------------------------------------------------------------
(* Times and restarts *)

\* Clock readings, and the times in tokens, are numbers.
TimesInv ==
  /\ config \in Configs
  /\ now \in Nat
  /\ \A t \in tokens : t.iat \in Nat /\ t.exp \in Nat

\* Every step keeps the times.
LEMMA TimesStep == TimesInv /\ [Next]_vars => TimesInv'
<1> SUFFICES ASSUME TimesInv, [Next]_vars PROVE TimesInv'
  OBVIOUS
<1>1. ASSUME UNCHANGED <<now, config, tokens>>
      PROVE  TimesInv'
  BY <1>1 DEF TimesInv
<1>2. ASSUME NEW id, NEW v, ExchangeFor(id, v), UNCHANGED now
      PROVE  TimesInv'
  <2>1. /\ UNCHANGED <<now, config>>
        /\ \A t \in tokens' : t \in tokens \/ (t.iat = now /\ t.exp = now + config.ttl)
    BY <1>2 DEF ExchangeFor, TokenFor
  <2>2. config.ttl \in Nat
    BY ConfigsAssumption DEF Loadable, TimesInv
  <2> QED BY <2>1, <2>2 DEF TimesInv
<1>3. CASE UNCHANGED vars
  BY <1>1, <1>3 DEF vars, authVars
<1>4. CASE Tick
  BY <1>4 DEF Tick, authVars, TimesInv
<1>5. ASSUME NEW a \in Attempts, CliStep(a)
      PROVE  TimesInv'
  <2>1. CASE Exchange(a)
    BY <1>2, <2>1 DEF Exchange
  <2>2. CASE ~Exchange(a)
    BY <1>1, <1>5, <2>2 DEF CliStep, Start, TimeOut, Cancel, Callback, Closed, ExchangeLost,
                            Verify, authVars
  <2> QED BY <2>1, <2>2
<1>6. CASE \E s \in Subjects : SignIn(s)
  BY <1>1, <1>6 DEF SignIn, Login
<1>7. CASE \E a \in Attempts, s \in sessions : Approve(a, s) \/ Deny(a, s)
  BY <1>1, <1>7 DEF Approve, Deny, authVars
<1>8. CASE \E id \in 1 .. issued, a \in Attempts : AnyExchange(id, a)
  BY <1>2, <1>8 DEF AnyExchange
<1>9. CASE \E c \in Configs : Restart(c)
  BY <1>9 DEF Restart, TimesInv
<1>10. CASE \E a \in Attempts : Disconnect(a)
  BY <1>1, <1>10 DEF Disconnect, authVars
<1> QED BY <1>3, <1>4, <1>5, <1>6, <1>7, <1>8, <1>9, <1>10 DEF Next

\* The times are numbers in every behaviour.
LEMMA TimesHold == Spec => []TimesInv
<1>1. Init => TimesInv
  <2> SUFFICES ASSUME Init PROVE TimesInv
    OBVIOUS
  <2>1. config \in Configs /\ now = 0
    BY FirstAssumption DEF Init
  <2>2. \A t \in tokens : t.iat = now /\ t.exp = now + config.ttl
    BY DEF Init, LegacyToken
  <2> QED BY <2>1, <2>2, ConfigsAssumption DEF Loadable, TimesInv
<1> QED BY <1>1, TimesStep, PTL DEF Spec

\* No token is accepted for longer than the lifetime that is configured now
\* (validate_cli_token), whatever it was when the token was issued.
THEOREM AcceptedTokensAreYoungHolds == Spec => []AcceptedTokensAreYoung
<1>1. TimesInv => AcceptedTokensAreYoung
  <2> SUFFICES ASSUME TimesInv, NEW t \in tokens, TokenValid(t)
               PROVE  now - t.iat < config.ttl + Leeway
    BY DEF AcceptedTokensAreYoung
  <2>1. now \in Nat /\ t.iat \in Nat /\ t.exp \in Nat /\ config.ttl \in Nat /\ Leeway \in Nat
    BY ConfigsAssumption, TimesAssumption DEF Loadable, TimesInv
  <2>2. now < t.exp + Leeway /\ t.exp - t.iat <= config.ttl
    BY DEF TokenValid
  <2> QED BY <2>1, <2>2
<1> QED BY <1>1, TimesHold, PTL

\* A restart takes nothing from a subject whose own secret and memberships, and
\* the operator's secret and key, stay the same.
THEOREM RotationIsConfined == Spec => OthersKeepAccess
<1> DEFINE Others(s) ==
             /\ config'.secret[s] = config.secret[s]
             /\ config'.secret[Operator] = config.secret[Operator]
             /\ config'.key = config.key
             /\ config'.role[s] = config.role[s]
             /\ config'.ttl >= config.ttl
<1>1. ASSUME TimesInv, TimesInv', [Next]_vars, config' # config \/ starts' # starts,
             NEW s \in Subjects, Others(s)
      PROVE  /\ \A t \in tokens : t.subject = s => TokenRights(t) \subseteq TokenRights(t)'
             /\ \A c \in sessions : c.subject = s => SessionRights(c) \subseteq SessionRights(c)'
  <2>1. \E c \in Configs : Restart(c)
    BY <1>1 DEF Next, vars, Tick, CliStep, Start, TimeOut, Cancel, Callback, Closed, Exchange,
       ExchangeLost, Verify, Disconnect, SignIn, Login, Approve, Deny, AnyExchange, ExchangeFor, authVars
  <2>2. UNCHANGED <<now, sessions, tokens>>
    BY <2>1 DEF Restart
  <2>3. RightsOf(s)' = RightsOf(s)
    BY <1>1 DEF RightsOf
  <2>4. SigningKey' = SigningKey
    BY <1>1 DEF SigningKey
  <2>5. ASSUME NEW t \in tokens, t.subject = s
        PROVE  TokenRights(t) \subseteq TokenRights(t)'
    <3>1. t.exp \in Nat /\ t.iat \in Nat /\ config.ttl \in Nat /\ config'.ttl \in Nat
      BY <1>1, <2>5, ConfigsAssumption DEF Loadable, TimesInv
    <3>2. t.exp - t.iat <= config.ttl => t.exp - t.iat <= config'.ttl
      BY <1>1, <3>1
    <3>3. TokenValid(t) => TokenValid(t)'
      BY <1>1, <2>2, <2>4, <2>5, <3>2 DEF TokenValid, Known, EpochOf
    <3> QED BY <2>3, <2>5, <3>3 DEF TokenRights
  <2>6. ASSUME NEW c \in sessions, c.subject = s
        PROVE  SessionRights(c) \subseteq SessionRights(c)'
    <3>1. SessionValid(c) => SessionValid(c)'
      BY <1>1, <2>2, <2>6 DEF SessionValid, Known, EpochOf
    <3> QED BY <2>3, <2>6, <3>1 DEF SessionRights
  <2> QED BY <2>5, <2>6
<1>2. TimesInv /\ TimesInv' /\ [Next]_vars =>
        (config' # config \/ starts' # starts =>
           \A s \in Subjects : Others(s) =>
             /\ \A t \in tokens : t.subject = s => TokenRights(t) \subseteq TokenRights(t)'
             /\ \A c \in sessions : c.subject = s => SessionRights(c) \subseteq SessionRights(c)')
  BY <1>1
<1> QED BY <1>2, TimesHold, PTL DEF Spec, OthersKeepAccess

-----------------------------------------------------------------------------
(* The store, and the types of what surrounds it.                             *)

\* The store never holds more codes than it may.
StoreOK ==
  /\ codes \in SUBSET Code
  /\ Numbered(codes, issued)
  /\ Cardinality(codes) <= StoreSize

\* Tokens are numbered by how many there have been.
TokensOK ==
  /\ IsFiniteSet(tokens)
  /\ \A t \in tokens : t.jti \in Nat

StoreInv == TypeOK /\ StoreOK /\ TokensOK

\* Unexpired codes are codes of the store.
LEMMA UnexpiredAreNumbered == Numbered(codes, issued) => Numbered(Unexpired, issued)
<1>1. Unexpired \in SUBSET codes
  BY DEF Unexpired
<1> QED BY <1>1, FS_Subset DEF Numbered

\* Whatever only takes codes away keeps the store well.
LEMMA FewerCodes ==
  ASSUME StoreOK, issued' = issued, codes' \in SUBSET codes, issued \in Nat
  PROVE  StoreOK'
<1>1. IsFiniteSet(codes) /\ IsFiniteSet(codes') /\ Cardinality(codes') <= Cardinality(codes)
  BY FS_Subset DEF StoreOK, Numbered
<1>2. /\ Cardinality(codes') \in Nat /\ Cardinality(codes) \in Nat
      /\ StoreSize \in Nat
  BY <1>1, FS_CardinalityType, CodesAssumption
<1>3. Cardinality(codes') <= StoreSize
  BY <1>1, <1>2 DEF StoreOK
<1>4. Numbered(codes, issued)'
  BY <1>1 DEF StoreOK, Numbered
<1>5. (codes \in SUBSET Code)'
  BY DEF StoreOK, Code
<1> QED BY <1>3, <1>4, <1>5 DEF StoreOK

\* What leaves when room is made, in the words of the lemmas above.
LEMMA OldestLeaveIsYoungest == OldestLeave = Youngest(Unexpired, StoreSize - 1)
<1> QED BY DEF OldestLeave, Youngest, NewerThan, NewerIn

\* A new code takes the room that was made for it.
LEMMA IssueKeepsStore ==
  ASSUME StoreOK, issued \in Nat, now \in Nat,
         NEW a \in Attempts, NEW s \in Subjects, Issue(a, s)
  PROVE  StoreOK'
<1> DEFINE code == [id |-> issued + 1, challenge |-> a, redirect |-> RedirectOf[a],
                    subject |-> s, expires |-> now + CodeTtl]
           left == OldestLeave
<1>1. codes' = left \cup {code} /\ issued' = issued + 1
  BY DEF Issue
<1>2. left \in SUBSET codes
  BY DEF OldestLeave, Unexpired
<1>3. StoreSize \in Nat /\ StoreSize - 1 \in Nat /\ CodeTtl \in Nat
  BY CodesAssumption
<1>4. IsFiniteSet(left) /\ Cardinality(left) <= StoreSize - 1
  BY <1>3, UnexpiredAreNumbered, OldestLeaveIsYoungest, YoungestAreFew DEF StoreOK
<1>5. /\ IsFiniteSet(codes') /\ Cardinality(left) \in Nat
      /\ Cardinality(codes') \in {Cardinality(left), Cardinality(left) + 1}
  BY <1>1, <1>4, FS_AddElement, FS_CardinalityType
<1>6. Cardinality(codes') <= StoreSize
  BY <1>3, <1>4, <1>5
<1>7. Numbered(codes, issued)'
  <2>1. \A c \in left : c.id \in 0 .. issued
    BY <1>2 DEF StoreOK, Numbered
  <2>2. code.id = issued + 1
    OBVIOUS
  <2> HIDE DEF code, left
  <2>3. \A c \in codes' : c.id \in 0 .. issued'
    BY <1>1, <2>1, <2>2
  <2>4. \A c, d \in codes' : c.id = d.id => c = d
    BY <1>1, <1>2, <2>1, <2>2 DEF StoreOK, Numbered
  <2> QED BY <1>5, <2>3, <2>4 DEF Numbered
<1>8. (codes \in SUBSET Code)'
  <2>1. code \in Code
    BY <1>3 DEF Code
  <2>2. Code' = Code
    BY DEF Code
  <2> HIDE DEF code, left
  <2> QED BY <1>1, <1>2, <2>1, <2>2 DEF StoreOK
<1> QED BY <1>6, <1>7, <1>8 DEF StoreOK

\* Types hold at the start, with nothing in the store.
LEMMA StoreInit == Init => StoreInv
<1> SUFFICES ASSUME Init PROVE StoreInv
  OBVIOUS
<1>1. now = 0 /\ codes = {} /\ issued = 0 /\ redirects = {} /\ starts = 0
  BY DEF Init, CodesInit
<1>2. IsFiniteSet(codes) /\ Cardinality(codes) = 0
  BY <1>1, FS_EmptySet
<1>3. StoreOK
  BY <1>1, <1>2, CodesAssumption DEF StoreOK, Numbered
<1>4. tokens = {LegacyToken} /\ LegacyToken.jti = 0
  BY DEF Init, LegacyToken
<1>5. TokensOK
  BY <1>4, FS_Singleton DEF TokensOK
<1>6. Operator \in Subjects
  BY ConfigsAssumption
<1>7. \A t \in tokens : t.subject \in Subjects /\ t.iat \in 0 .. now /\ t.code \in 0 .. issued
  BY <1>1, <1>4, <1>6 DEF LegacyToken
<1>8. \A s \in sessions : s.subject \in Subjects /\ s.iat \in 0 .. now
  <2>1. LegacySession.subject = Operator /\ LegacySession.iat = now
    BY DEF LegacySession, SessionOf
  <2> QED BY <1>1, <1>6, <2>1 DEF Init
<1>9. attempts \in [Attempts -> Attempt]
  BY DEF Init, New, Attempt, Phases
<1>10. config \in Configs
  BY FirstAssumption DEF Init
<1>11. MaxTime \in Nat /\ MaxIssued \in Nat /\ MaxStarts \in Nat
  BY BoundsAssumption
<1>12. TypeOK
  BY <1>1, <1>3, <1>7, <1>8, <1>9, <1>10, <1>11 DEF TypeOK, StoreOK
<1> QED BY <1>3, <1>5, <1>12 DEF StoreInv

\* What a step may leave alone is still of its type.
StoreUntouched == UNCHANGED <<now, codes, issued, config, sessions, tokens, starts>>

\* A step of the CLI that changes its own attempt only.
LEMMA AttemptKeeps ==
  ASSUME StoreInv, StoreUntouched, redirects' = redirects, NEW a \in Attempts,
         NEW next \in Attempt, attempts' = [attempts EXCEPT ![a] = next]
  PROVE  StoreInv'
<1>1. attempts' \in [Attempts -> Attempt]
  BY DEF StoreInv, TypeOK
<1>2. TypeOK'
  BY <1>1 DEF StoreInv, TypeOK, StoreUntouched, Code
<1> QED BY <1>2 DEF StoreInv, StoreOK, Numbered, TokensOK, StoreUntouched, Code

\* A request for a code leaves at most one token, of the subject of the code.
LEMMA ExchangeKeepsStore ==
  ASSUME LoginInv, StoreInv, NEW id, NEW v \in Attempts, ExchangeFor(id, v),
         UNCHANGED <<now, redirects, starts>>, attempts' \in [Attempts -> Attempt]
  PROVE  StoreInv'
<1> DEFINE found == Matching(id, v, RedirectOf[v])
           added == {TokenFor(c.subject, id, v) : c \in found}
<1>0. /\ UNCHANGED <<config, sessions, issued>>
      /\ codes' \in SUBSET codes
      /\ found \in SUBSET codes
      /\ tokens' = tokens \cup added
      /\ \A c \in found : c.id = id
      /\ issued \in Nat /\ now \in Nat
  BY BoundsAssumption DEF ExchangeFor, Consume, Matching, Unexpired, StoreInv, TypeOK
<1>1. StoreOK'
  BY <1>0, FewerCodes DEF StoreInv
<1>2. \A c, d \in found : c = d
  BY <1>0 DEF LoginInv, CodesAreApproved
<1>3. Cardinality(tokens) \in Nat
  BY FS_CardinalityType DEF StoreInv, TokensOK
<1>4. \A t \in added : /\ t.jti \in Nat /\ t.subject \in Subjects
                       /\ t.iat = now /\ t.code \in 0 .. issued
  <2> SUFFICES ASSUME NEW c \in found
               PROVE  LET t == TokenFor(c.subject, id, v)
                      IN  /\ t.jti \in Nat /\ t.subject \in Subjects
                          /\ t.iat = now /\ t.code \in 0 .. issued
    OBVIOUS
  <2>1. c.subject \in Subjects /\ c.id \in 0 .. issued /\ c.id = id
    BY <1>0 DEF StoreInv, StoreOK, Numbered, Code
  <2> QED BY <1>3, <2>1 DEF TokenFor
<1>5. IsFiniteSet(tokens')
  <2>1. CASE found = {}
    BY <1>0, <2>1 DEF StoreInv, TokensOK
  <2>2. CASE found # {}
    <3>1. PICK c \in found : TRUE
      BY <2>2
    <3>2. added = {TokenFor(c.subject, id, v)}
      BY <1>2, <3>1
    <3> HIDE DEF added
    <3> QED BY <1>0, <3>2, FS_AddElement DEF StoreInv, TokensOK
  <2> QED BY <2>1, <2>2
<1> HIDE DEF added, found
<1>6. TokensOK'
  BY <1>0, <1>4, <1>5 DEF StoreInv, TokensOK
<1>7. (\A t \in tokens :
         t.subject \in Subjects /\ t.iat \in 0 .. now /\ t.code \in 0 .. issued)'
  BY <1>0, <1>4 DEF StoreInv, TypeOK
<1>8. TypeOK'
  BY <1>0, <1>1, <1>7 DEF StoreInv, TypeOK, StoreOK
<1> QED BY <1>1, <1>6, <1>8 DEF StoreInv

\* Every step of the CLI keeps the types.
LEMMA CliStepKeepsStore ==
  ASSUME LoginInv, StoreInv, NEW a \in Attempts, CliStep(a)
  PROVE  StoreInv'
<1>0. /\ attempts \in [Attempts -> Attempt] /\ attempts[a] \in Attempt
      /\ LoginTimeout \in Nat /\ now \in Nat /\ issued \in Nat
  BY BoundsAssumption DEF StoreInv, TypeOK
<1>a. ASSUME NEW phase \in Phases
      PROVE  [New EXCEPT !.phase = phase] \in Attempt
  BY DEF New, Attempt
<1>b. ASSUME NEW phase \in Over, Ends(a, phase), StoreUntouched, redirects' = redirects
      PROVE  StoreInv'
  BY <1>a, <1>b, AttemptKeeps DEF Ends, Phases
<1>1. CASE Start(a)
  <2> DEFINE next == [attempts[a] EXCEPT !.phase = "waiting", !.deadline = now + LoginTimeout]
  <2>0. now + LoginTimeout \in Nat /\ "waiting" \in Phases
    BY <1>0 DEF Phases
  <2>1. next \in Attempt
    BY <1>0, <2>0 DEF Attempt
  <2>2. attempts' = [attempts EXCEPT ![a] = next]
    BY <1>1, <1>0 DEF Start
  <2>3. StoreUntouched /\ redirects' = redirects
    BY <1>1 DEF Start, StoreUntouched, codesVars, authVars
  <2> HIDE DEF next
  <2> QED BY <2>1, <2>2, <2>3, AttemptKeeps
<1>c. ASSUME NEW code \in Nat, Closing(a, code), StoreUntouched, redirects' = redirects
      PROVE  StoreInv'
  <2>1. PICK held \in BOOLEAN :
          attempts' = [attempts EXCEPT ![a] =
                         [New EXCEPT !.phase = "closing", !.code = code, !.held = held]]
    BY <1>c DEF Closing
  <2>2. [New EXCEPT !.phase = "closing", !.code = code, !.held = held] \in Attempt
    BY <1>c DEF New, Attempt, Phases
  <2> QED BY <1>c, <2>1, <2>2, AttemptKeeps
<1>2. CASE TimeOut(a)
  BY <1>c, <1>2 DEF TimeOut, StoreUntouched, codesVars, authVars
<1>3. CASE Cancel(a)
  BY <1>b, <1>3 DEF Cancel, StoreUntouched, codesVars, authVars, Over
<1>4. ASSUME NEW r \in redirects, Callback(a, r)
      PROVE  StoreInv'
  <2>1. r.code \in Nat
    BY <1>0 DEF StoreInv, TypeOK
  <2> QED BY <1>4, <1>c, <2>1 DEF Callback, StoreUntouched, codesVars, authVars
<1>5. CASE Exchange(a)
  <2>1. ExchangeFor(attempts[a].code, a) /\ UNCHANGED <<now, redirects, starts>>
    BY <1>5 DEF Exchange
  <2>2. \A t \in tokens' \ tokens : t.jti \in Nat
    <3>1. Cardinality(tokens) \in Nat
      BY FS_CardinalityType DEF StoreInv, TokensOK
    <3> QED BY <2>1, <3>1 DEF ExchangeFor, TokenFor
  <2>3. attempts' \in [Attempts -> Attempt]
    <3>1. CASE Ends(a, "failed")
      BY <1>0, <1>a, <3>1 DEF Ends, Phases, Over
    <3>2. CASE \E t \in tokens' \ tokens :
                 attempts' = [attempts EXCEPT ![a] = [New EXCEPT !.phase = "verifying", !.token = t.jti]]
      <4>1. PICK t \in tokens' \ tokens :
                 attempts' = [attempts EXCEPT ![a] = [New EXCEPT !.phase = "verifying", !.token = t.jti]]
        BY <3>2
      <4>2. [New EXCEPT !.phase = "verifying", !.token = t.jti] \in Attempt
        BY <2>2, <4>1 DEF New, Attempt, Phases
      <4> QED BY <1>0, <4>1, <4>2
    <3> QED BY <1>5, <3>1, <3>2 DEF Exchange
  <2> QED BY <2>1, <2>3, ExchangeKeepsStore
<1>6. CASE ExchangeLost(a)
  BY <1>b, <1>6 DEF ExchangeLost, StoreUntouched, codesVars, authVars, Over
<1>7. CASE Verify(a)
  BY <1>b, <1>7 DEF Verify, StoreUntouched, codesVars, authVars, Over
<1>8. CASE Closed(a)
  <2>1. CASE Ends(a, "failed")
    BY <1>b, <1>8, <2>1 DEF Closed, StoreUntouched, codesVars, authVars, Over
  <2>2. CASE attempts' = [attempts EXCEPT ![a].phase = "exchanging"]
    <3>1. [attempts[a] EXCEPT !.phase = "exchanging"] \in Attempt
      BY <1>0 DEF Attempt, Phases
    <3> QED BY <1>8, <2>2, <3>1, AttemptKeeps DEF Closed, StoreUntouched, codesVars, authVars
  <2> QED BY <1>8, <2>1, <2>2 DEF Closed
<1> QED BY <1>1, <1>2, <1>3, <1>4, <1>5, <1>6, <1>7, <1>8 DEF CliStep

\* The end of a connection touches the attempt it belongs to only.
LEMMA ConnectionKeepsStore ==
  ASSUME StoreInv, NEW a \in Attempts, Disconnect(a)
  PROVE  StoreInv'
<1>1. attempts[a] \in Attempt
  BY DEF StoreInv, TypeOK
<1>2. [attempts[a] EXCEPT !.held = FALSE] \in Attempt
  BY <1>1 DEF Attempt
<1>3. StoreUntouched /\ redirects' = redirects
  BY DEF Disconnect, StoreUntouched, codesVars, authVars
<1> QED BY <1>2, <1>3, AttemptKeeps DEF Disconnect

\* Every step keeps the types and the bound.
LEMMA StoreStep == LoginInv /\ StoreInv /\ [Next]_vars => StoreInv'
<1> SUFFICES ASSUME LoginInv, StoreInv, [Next]_vars PROVE StoreInv'
  OBVIOUS
<1>0. /\ now \in Nat /\ issued \in Nat /\ starts \in Nat
      /\ MaxTime \in Nat /\ MaxIssued \in Nat /\ MaxStarts \in Nat
      /\ Code' = Code
  BY BoundsAssumption DEF StoreInv, TypeOK, Code
<1>1. CASE UNCHANGED vars
  <2>1. UNCHANGED <<now, codes, issued, config, sessions, tokens, attempts, redirects, starts>>
    BY <1>1 DEF vars, codesVars, authVars
  <2> QED BY <1>0, <2>1 DEF StoreInv, TypeOK, StoreOK, Numbered, TokensOK
<1>2. CASE Tick
  <2>1. /\ now' = now + 1 /\ now < MaxTime
        /\ UNCHANGED <<codes, issued, config, sessions, tokens, attempts, redirects, starts>>
    BY <1>2 DEF Tick, codesVars, authVars
  <2>2. now' \in 0 .. MaxTime /\ 0 .. now \subseteq 0 .. now'
    BY <1>0, <2>1
  <2>3. (\A s \in sessions : s.subject \in Subjects /\ s.iat \in 0 .. now)'
    BY <2>1, <2>2 DEF StoreInv, TypeOK
  <2>4. (\A t \in tokens :
           t.subject \in Subjects /\ t.iat \in 0 .. now /\ t.code \in 0 .. issued)'
    BY <2>1, <2>2 DEF StoreInv, TypeOK
  <2>5. TypeOK'
    BY <1>0, <2>1, <2>2, <2>3, <2>4 DEF StoreInv, TypeOK
  <2> QED BY <1>0, <2>1, <2>5 DEF StoreInv, StoreOK, Numbered, TokensOK
<1>3. ASSUME NEW a \in Attempts, CliStep(a)
      PROVE  StoreInv'
  BY <1>3, CliStepKeepsStore
<1>4. ASSUME NEW s \in Subjects, SignIn(s)
      PROVE  StoreInv'
  <2>1. /\ UNCHANGED <<now, codes, issued, config, tokens, attempts, redirects, starts>>
        /\ sessions' = sessions \cup {SessionOf(s)}
        /\ SessionOf(s).subject = s /\ SessionOf(s).iat = now
    BY <1>4 DEF SignIn, Login, SessionOf, codesVars
  <2>2. (\A c \in sessions : c.subject \in Subjects /\ c.iat \in 0 .. now)'
    BY <1>0, <2>1 DEF StoreInv, TypeOK
  <2>3. TypeOK'
    BY <1>0, <2>1, <2>2 DEF StoreInv, TypeOK
  <2> QED BY <1>0, <2>1, <2>3 DEF StoreInv, StoreOK, Numbered, TokensOK
<1>5. ASSUME NEW a \in Attempts, NEW s \in sessions, Approve(a, s)
      PROVE  StoreInv'
  <2>1. /\ issued < MaxIssued /\ Issue(a, s.subject) /\ issued' = issued + 1
        /\ redirects' = redirects \cup
             {[attempt |-> a, code |-> issued + 1, subject |-> s.subject, epoch |-> s.epoch]}
        /\ UNCHANGED <<now, config, sessions, tokens, attempts, starts>>
    BY <1>5 DEF Approve, Issue, authVars
  <2>2. s.subject \in Subjects
    BY DEF StoreInv, TypeOK
  <2>3. StoreOK'
    BY <1>0, <2>1, <2>2, IssueKeepsStore DEF StoreInv
  <2>4. issued' \in 0 .. MaxIssued /\ 0 .. issued \subseteq 0 .. issued'
    BY <1>0, <2>1
  <2>5. (\A t \in tokens :
           t.subject \in Subjects /\ t.iat \in 0 .. now /\ t.code \in 0 .. issued)'
    BY <2>1, <2>4 DEF StoreInv, TypeOK
  <2>6. (\A r \in redirects : r.attempt \in Attempts /\ r.code \in 0 .. issued)'
    BY <1>0, <2>1, <2>4 DEF StoreInv, TypeOK
  <2>7. TypeOK'
    BY <2>1, <2>3, <2>4, <2>5, <2>6 DEF StoreInv, TypeOK, StoreOK
  <2> QED BY <2>1, <2>3, <2>7 DEF StoreInv, TokensOK
<1>6. ASSUME NEW a \in Attempts, NEW s \in sessions, Deny(a, s)
      PROVE  StoreInv'
  <2>1. /\ UNCHANGED <<now, codes, issued, config, sessions, tokens, attempts, starts>>
        /\ redirects' = redirects \cup
             {[attempt |-> a, code |-> 0, subject |-> None, epoch |-> None]}
    BY <1>6 DEF Deny, codesVars, authVars
  <2>2. (\A r \in redirects : r.attempt \in Attempts /\ r.code \in 0 .. issued)'
    BY <1>0, <2>1 DEF StoreInv, TypeOK
  <2>3. TypeOK'
    BY <1>0, <2>1, <2>2 DEF StoreInv, TypeOK
  <2> QED BY <1>0, <2>1, <2>3 DEF StoreInv, StoreOK, Numbered, TokensOK
<1>7. ASSUME NEW id \in 1 .. issued, NEW a \in Attempts, AnyExchange(id, a)
      PROVE  StoreInv'
  BY <1>7, ExchangeKeepsStore DEF AnyExchange, StoreInv, TypeOK
<1>8. ASSUME NEW c \in Configs, Restart(c)
      PROVE  StoreInv'
  <2>1. /\ UNCHANGED <<now, issued, sessions, tokens, attempts, redirects>>
        /\ config' = c /\ codes' = {} /\ starts' = starts + 1 /\ starts < MaxStarts
    BY <1>8 DEF Restart, Forget
  <2>2. codes' \in SUBSET codes
    BY <2>1
  <2>3. StoreOK'
    BY <1>0, <2>1, <2>2, FewerCodes DEF StoreInv
  <2>4. starts' \in 0 .. MaxStarts
    BY <1>0, <2>1
  <2>5. TypeOK'
    BY <2>1, <2>3, <2>4 DEF StoreInv, TypeOK, StoreOK
  <2> QED BY <2>1, <2>3, <2>5 DEF StoreInv, TokensOK
<1>9. CASE \E a \in Attempts : Disconnect(a)
  BY <1>9, ConnectionKeepsStore
<1> QED BY <1>1, <1>2, <1>3, <1>4, <1>5, <1>6, <1>7, <1>8, <1>9 DEF Next

\* The store and the types, beside what the login keeps.
LEMMA StoreHolds == Spec => [](LoginInv /\ StoreInv)
<1>1. Init => StoreInv
  BY StoreInit
<1> QED BY <1>1, LoginInit, LoginStep, StoreStep, PTL DEF Spec

\* Codes, tokens, sessions and attempts have their types, and there are never
\* more codes than authorization_code_store_size (AuthorizationCodeStore.issue).
THEOREM TypesHold == Spec => []TypeOK
<1>1. StoreInv => TypeOK
  BY DEF StoreInv
<1> QED BY <1>1, StoreHolds, PTL

-----------------------------------------------------------------------------
(* Which codes leave.                                                         *)

\* Why a code has left.
Leaves(c) ==
  \/ c.expires <= now
  \/ \E t \in tokens' \ tokens : t.code = c.id
  \/ Cardinality(NewerThan(c, codes')) >= StoreSize

\* A code that gives way to a new one was the oldest of a full store.
LEMMA OldestGivesWay ==
  ASSUME StoreInv, NEW a \in Attempts, NEW s \in Subjects, Issue(a, s),
         NEW c \in codes \ codes'
  PROVE  c.expires <= now \/ Cardinality(NewerThan(c, codes')) >= StoreSize
<1> DEFINE code == [id |-> issued + 1, challenge |-> a, redirect |-> RedirectOf[a],
                    subject |-> s, expires |-> now + CodeTtl]
           left == OldestLeave
<1>0. /\ issued \in Nat /\ now \in Nat /\ StoreSize \in Nat /\ StoreSize - 1 \in Nat
      /\ c.id \in 0 .. issued /\ c.expires \in Nat
  BY BoundsAssumption, CodesAssumption DEF StoreInv, TypeOK, StoreOK, Numbered, Code
<1>1. codes' = left \cup {code} /\ code.id = issued + 1
  BY DEF Issue
<1>2. CASE c \notin Unexpired
  BY <1>0, <1>2 DEF Unexpired
<1>3. CASE c \in Unexpired
  <2>1. Numbered(Unexpired, issued)
    BY UnexpiredAreNumbered DEF StoreInv, StoreOK
  <2>2. c \notin left
    BY <1>1
  <2>3. (\A d \in left : d.id > c.id) /\ Cardinality(left) >= StoreSize - 1
    BY <1>0, <1>3, <2>1, <2>2, OldestLeaveIsYoungest, YoungestAreNewer
  <2>4. IsFiniteSet(left) /\ Cardinality(left) \in Nat
    BY <1>0, <2>1, OldestLeaveIsYoungest, YoungestAreFew, FS_CardinalityType
  <2>5. code \notin left
    <3>1. \A d \in left : d.id \in 0 .. issued
      BY <2>1 DEF OldestLeave, Numbered
    <3> QED BY <1>0, <1>1, <3>1
  <2> HIDE DEF code, left
  <2>6. NewerThan(c, codes') = codes'
    BY <1>0, <1>1, <2>3 DEF NewerThan
  <2>7. Cardinality(codes') = Cardinality(left) + 1
    BY <1>1, <2>4, <2>5, FS_AddElement
  <2> QED BY <1>0, <2>3, <2>4, <2>6, <2>7
<1> QED BY <1>2, <1>3

\* A code that a request takes away is expired, or has its token.
LEMMA SpentLeaves ==
  ASSUME LoginInv, StoreInv, NEW id, NEW v \in Attempts, ExchangeFor(id, v),
         NEW c \in codes \ codes'
  PROVE  c.expires <= now \/ \E t \in tokens' \ tokens : t.code = c.id
<1> DEFINE found == Matching(id, v, RedirectOf[v])
<1>0. c.expires \in Nat /\ now \in Nat
  BY BoundsAssumption DEF StoreInv, TypeOK, StoreOK, Code
<1>1. codes' = Unexpired \ found /\ tokens' = tokens \cup {TokenFor(d.subject, id, v) : d \in found}
  BY DEF ExchangeFor, Consume
<1>2. CASE c \notin Unexpired
  BY <1>0, <1>2 DEF Unexpired
<1>3. CASE c \in found
  <2> DEFINE t == TokenFor(c.subject, id, v)
  <2>1. t \in tokens'
    BY <1>1, <1>3
  <2>2. t.code = id /\ c.id = id
    BY <1>3 DEF TokenFor, Matching
  <2> HIDE DEF t
  <2>3. t \notin tokens
    BY <2>2 DEF LoginInv, SpentCodesAreGone
  <2> QED BY <2>1, <2>2, <2>3
<1> QED BY <1>1, <1>2, <1>3

\* AuthorizationCodeStore.issue and consume: while the controller runs, a pending
\* code is lost only to as many newer ones as the store holds.
THEOREM CodesLostOnlyAtBoundHolds == Spec => CodesLostOnlyAtBound
<1>1. ASSUME LoginInv, StoreInv, [Next]_vars, starts' = starts, NEW c \in codes \ codes'
      PROVE  Leaves(c)
  <2>0. starts \in Nat
    BY <1>1, BoundsAssumption DEF StoreInv, TypeOK
  <2>1. codes' # codes
    BY <1>1
  <2>2. \/ \E a \in Attempts, s \in sessions : Approve(a, s)
        \/ \E id \in 1 .. issued, a \in Attempts : AnyExchange(id, a)
        \/ \E a \in Attempts : Exchange(a)
    <3>1. ~UNCHANGED vars /\ ~Tick /\ ~(\E s \in Subjects : SignIn(s))
      BY <2>1 DEF vars, codesVars, Tick, SignIn
    <3>2. ~(\E a \in Attempts, s \in sessions : Deny(a, s))
      BY <2>1 DEF codesVars, Deny
    <3>3. ~(\E c2 \in Configs : Restart(c2))
      BY <1>1, <2>0 DEF Restart
    <3>4. ASSUME NEW a \in Attempts, CliStep(a)
          PROVE  Exchange(a)
      BY <2>1, <3>4 DEF CliStep, Start, TimeOut, Cancel, Callback, Closed, ExchangeLost, Verify,
                        codesVars
    <3>5. ~(\E a \in Attempts : Disconnect(a))
      BY <2>1 DEF Disconnect, codesVars
    <3> QED BY <1>1, <3>1, <3>2, <3>3, <3>4, <3>5 DEF Next
  <2>3. ASSUME NEW a \in Attempts, NEW s \in sessions, Approve(a, s)
        PROVE  Leaves(c)
    <3>1. Issue(a, s.subject) /\ s.subject \in Subjects
      BY <1>1, <2>3 DEF Approve, StoreInv, TypeOK
    <3> QED BY <1>1, <3>1, OldestGivesWay DEF Leaves
  <2>4. ASSUME NEW id, NEW a \in Attempts, ExchangeFor(id, a)
        PROVE  Leaves(c)
    BY <1>1, <2>4, SpentLeaves DEF Leaves
  <2> QED BY <2>2, <2>3, <2>4 DEF AnyExchange, Exchange
<1>2. LoginInv /\ StoreInv /\ [Next]_vars =>
        (starts' = starts => \A c \in codes \ codes' : Leaves(c))
  BY <1>1
<1> QED BY <1>2, StoreHolds, PTL DEF Spec, CodesLostOnlyAtBound, Leaves
=============================================================================
