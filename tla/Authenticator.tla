--------------------------- MODULE Authenticator ---------------------------
(* Authenticator: browser sessions and CLI tokens, which the controller signs *)
(* and does not store, judged by the configuration it was started with.       *)
(* A secret stands for an access token and for the epoch that is its hash.    *)
EXTENDS AuthorizationCodes

CONSTANTS
  Operator,    \* the subject of the master token
  Tenants,
  Configs,     \* configurations the controller may be started with
  SessionTtl,  \* session_ttl_seconds
  Leeway,      \* 30 seconds, for clocks that differ
  None

Roles == {"viewer", "member", "admin", "operator"}

\* settings_are_consistent and _load_principals: what the process starts with.
Loadable(c) ==
  /\ c.ttl \in Nat \ {0}
  /\ c.secret[Operator] # None
  /\ \A s, r \in Subjects : c.secret[s] = c.secret[r] => s = r \/ c.secret[s] = None
  /\ \A s \in Subjects, t \in Tenants : c.role[s][t] = "operator" <=> s = Operator
  /\ \A s \in Subjects : c.secret[s] # None => \E t \in Tenants : c.role[s][t] # None

ASSUME ConfigsAssumption == Operator \in Subjects /\ \A c \in Configs : Loadable(c)

ASSUME TimesAssumption == SessionTtl \in Nat \ {0} /\ Leeway \in Nat

VARIABLES
  config,     \* settings, and the secrets mounted when the process started
  sessions,   \* session cookies that browsers hold
  tokens      \* CLI tokens that were ever issued

authVars == <<config, sessions, tokens>>

-----------------------------------------------------------------------------
(* Identities *)

Known(subject) == config.secret[subject] # None

\* Faulty: one epoch for the whole directory of secrets.
EpochOfAll(subject) == config.secret

\* _credential_epoch of the secret the process was started with.
EpochOf(subject) == config.secret[subject]

\* TenantRole, _require_manage, _require_purge.
May(role) ==
  {level \in {"read", "manage", "purge"} :
     \/ level = "read" /\ role # None
     \/ level = "manage" /\ role \in {"member", "admin", "operator"}
     \/ level = "purge" /\ role \in {"admin", "operator"}}

\* _context: the live memberships of a subject and what they allow.
RightsOf(subject) ==
  UNION {{t} \X May(config.role[subject][t]) : t \in Tenants}

-----------------------------------------------------------------------------
(* Browser sessions *)

SessionOf(subject) ==
  [subject |-> subject, epoch |-> EpochOf(subject),
   signed |-> config.secret[Operator], iat |-> now]

\* A session of a release before tenancy names no subject and no epoch.
LegacySession == [SessionOf(Operator) EXCEPT !.epoch = None]

\* _session_claims.
SessionValid(s) ==
  /\ s.signed = config.secret[Operator]
  /\ s.epoch = None \/ (Known(s.subject) /\ s.epoch = EpochOf(s.subject))
  /\ s.iat <= now + Leeway /\ now - s.iat <= SessionTtl

\* authenticate_access_token and issue_session: a secret is shown once.
Login(subject) ==
  /\ Known(subject)
  /\ sessions' = sessions \cup {SessionOf(subject)}
  /\ UNCHANGED <<config, tokens>>

-----------------------------------------------------------------------------
(* CLI tokens *)

\* The dedicated key, or the one derived from the master token.
SigningKey == IF config.key # None THEN config.key ELSE config.secret[Operator]

\* issue_cli_token for a spent code; the verifier that was shown is kept to tell
\* whom the token was for.
TokenFor(subject, code, verifier) ==
  [jti |-> Cardinality(tokens) + 1, subject |-> subject, epoch |-> EpochOf(subject),
   key |-> SigningKey, iat |-> now, exp |-> now + config.ttl,
   code |-> code, verifier |-> verifier]

\* A token of release v1, which only the operator had, has no epoch.
LegacyToken ==
  [jti |-> 0, subject |-> Operator, epoch |-> None, key |-> SigningKey,
   iat |-> now, exp |-> now + config.ttl, code |-> 0, verifier |-> None]

\* Faulty: the lifetime in the token is not compared with the configured one.
ValidUntilExpiry(t) ==
  /\ t.key = SigningKey
  /\ now < t.exp + Leeway
  /\ Known(t.subject)
  /\ t.epoch = EpochOf(t.subject) \/ (t.epoch = None /\ t.subject = Operator)

\* validate_cli_token.
TokenValid(t) ==
  /\ t.key = SigningKey
  /\ now < t.exp + Leeway
  /\ Known(t.subject)
  /\ t.epoch = EpochOf(t.subject) \/ (t.epoch = None /\ t.subject = Operator)
  /\ t.exp > t.iat /\ t.exp - t.iat <= config.ttl
  /\ t.iat <= now + Leeway

\* require: what a bearer of the token, or of the cookie, may do where.
TokenRights(t)   == IF TokenValid(t) THEN RightsOf(t.subject) ELSE {}
SessionRights(s) == IF SessionValid(s) THEN RightsOf(s.subject) ELSE {}

\* cli_token_exchange: a matching code is spent, and a token issued to its
\* subject.  A subject is always known: codes do not outlive the process.
ExchangeFor(id, verifier) ==
  /\ Consume(id, verifier, RedirectOf[verifier])
  /\ tokens' = tokens \cup {TokenFor(c.subject, id, verifier) :
                              c \in Matching(id, verifier, RedirectOf[verifier])}
  /\ UNCHANGED <<config, sessions>>
=============================================================================
