----------------------------- MODULE CliLogin ------------------------------
(* devbox login: the CLI listens on a loopback address, the user approves in  *)
(* the browser, and the CLI exchanges the code it is called back with; with   *)
(* restarts of the controller in between.  Codes and redirects may reach the  *)
(* CLI late, repeatedly, or at the address of another attempt.                *)
EXTENDS Authenticator

CONSTANTS
  LoginTimeout,   \* --timeout
  FirstConfigs,   \* configurations at the start
  MaxTime, MaxStarts, MaxSessions, MaxIssued   \* bounds of the instance

ASSUME FirstAssumption == FirstConfigs \subseteq Configs

ASSUME BoundsAssumption ==
  {LoginTimeout, MaxTime, MaxStarts, MaxSessions, MaxIssued} \subseteq Nat

VARIABLES
  attempts,    \* attempts[a]: phase of the CLI process
  redirects,   \* answers of the browser: approvals with their codes, denials
  starts       \* restarts of the controller so far

vars == <<now, codesVars, authVars, attempts, redirects, starts>>

Over == {"done", "failed"}
Phases == {"new", "waiting", "closing", "exchanging", "verifying"} \cup Over

\* held: while the listener closes, a connection is open with a request unfinished.
Attempt == [phase : Phases, deadline : Nat, code : Nat, token : Nat, held : BOOLEAN]

TypeOK ==
  /\ now \in 0 .. MaxTime
  /\ codes \in SUBSET Code /\ Cardinality(codes) <= StoreSize
  /\ issued \in 0 .. MaxIssued
  /\ config \in Configs
  /\ \A s \in sessions : s.subject \in Subjects /\ s.iat \in 0 .. now
  /\ \A t \in tokens :
       t.subject \in Subjects /\ t.iat \in 0 .. now /\ t.code \in 0 .. issued
  /\ attempts \in [Attempts -> Attempt]
  /\ \A r \in redirects : r.attempt \in Attempts /\ r.code \in 0 .. issued
  /\ starts \in 0 .. MaxStarts

New == [phase |-> "new", deadline |-> 0, code |-> 0, token |-> 0, held |-> FALSE]

\* The installation has just been upgraded: a CLI token of release v1 is around,
\* and perhaps a session.
Init ==
  /\ now = 0
  /\ CodesInit
  /\ config \in FirstConfigs
  /\ sessions \in {{}, {LegacySession}}
  /\ tokens = {LegacyToken}
  /\ attempts = [a \in Attempts |-> New]
  /\ redirects = {}
  /\ starts = 0

Ends(a, phase) == attempts' = [attempts EXCEPT ![a] = [New EXCEPT !.phase = phase]]

-----------------------------------------------------------------------------
(* The CLI *)

\* authorize_with_opener: the listener is bound and the URL shown.
Start(a) ==
  /\ attempts[a].phase = "new" /\ now + LoginTimeout <= MaxTime
  /\ \A b \in Attempts : attempts[b].phase = "waiting" => RedirectOf[b] # RedirectOf[a]
  /\ attempts' = [attempts EXCEPT ![a].phase = "waiting", ![a].deadline = now + LoginTimeout]
  /\ UNCHANGED <<now, codesVars, authVars, redirects, starts>>

\* The wait is over: the listener is told to shut down.  It accepts no connection
\* any more, and is awaited with the outcome at hand, a code or 0 for a failure.  Any
\* local client may have connected and sent no more than a part of a request ...
Closing(a, code) ==
  \E held \in BOOLEAN :
    attempts' = [attempts EXCEPT ![a] =
                   [New EXCEPT !.phase = "closing", !.code = code, !.held = held]]

\* callback and wait_for_callback: whatever comes first to the address ends the
\* wait; a code counts with the state of this attempt only.
Callback(a, r) ==
  /\ attempts[a].phase = "waiting"
  /\ RedirectOf[r.attempt] = RedirectOf[a]
  /\ Closing(a, IF r.attempt = a THEN r.code ELSE 0)
  /\ UNCHANGED <<now, codesVars, authVars, redirects, starts>>

\* Faulty: no timeout.
WaitOn(a) == FALSE /\ UNCHANGED vars

\* tokio::time::timeout.
TimeOut(a) ==
  /\ attempts[a].phase = "waiting" /\ now >= attempts[a].deadline
  /\ Closing(a, 0)
  /\ UNCHANGED <<now, codesVars, authVars, redirects, starts>>

\* ctrl_c, which nobody watches any more once the listener closes.
Cancel(a) ==
  /\ attempts[a].phase = "waiting"
  /\ Ends(a, "failed")
  /\ UNCHANGED <<now, codesVars, authVars, redirects, starts>>

\* server.await returns: the last connection is closed.  It has no timeout.
Closed(a) ==
  /\ attempts[a].phase = "closing" /\ ~attempts[a].held
  /\ IF attempts[a].code = 0 THEN Ends(a, "failed")
     ELSE attempts' = [attempts EXCEPT ![a].phase = "exchanging"]
  /\ UNCHANGED <<now, codesVars, authVars, redirects, starts>>

\* exchange_cli_code is served; its answer may be lost.
Exchange(a) ==
  /\ attempts[a].phase = "exchanging"
  /\ ExchangeFor(attempts[a].code, a)
  /\ \/ Ends(a, "failed")
     \/ \E t \in tokens' \ tokens :
          attempts' = [attempts EXCEPT ![a] =
                         [New EXCEPT !.phase = "verifying", !.token = t.jti]]
  /\ UNCHANGED <<now, redirects, starts>>

\* The request does not reach the controller within the timeout of the client.
ExchangeLost(a) ==
  /\ attempts[a].phase = "exchanging"
  /\ Ends(a, "failed")
  /\ UNCHANGED <<now, codesVars, authVars, redirects, starts>>

\* whoami, and the token is saved if the controller accepts it.
Verify(a) ==
  /\ attempts[a].phase = "verifying"
  /\ \/ /\ \E t \in tokens : t.jti = attempts[a].token /\ TokenRights(t) # {}
        /\ Ends(a, "done")
     \/ Ends(a, "failed")
  /\ UNCHANGED <<now, codesVars, authVars, redirects, starts>>

-----------------------------------------------------------------------------
(* The browser and the controller *)

\* ... which it keeps open for as long as it likes.
Disconnect(a) ==
  /\ attempts[a].held
  /\ attempts' = [attempts EXCEPT ![a].held = FALSE]
  /\ UNCHANGED <<now, codesVars, authVars, redirects, starts>>

\* auth/login.  auth/logout only makes a browser forget its cookies: the session
\* stays valid, and stays here.
SignIn(subject) ==
  /\ Cardinality(sessions) < MaxSessions
  /\ Login(subject)
  /\ UNCHANGED <<now, codesVars, attempts, redirects, starts>>

\* cli_authorize_decision: the page of an attempt may be approved at any time,
\* also twice, or when the CLI no longer waits.
Approve(a, s) ==
  /\ attempts[a].phase # "new"
  /\ SessionRights(s) # {}
  /\ issued < MaxIssued
  /\ Issue(a, s.subject)
  /\ redirects' = redirects \cup
       {[attempt |-> a, code |-> issued + 1, subject |-> s.subject, epoch |-> s.epoch]}
  /\ UNCHANGED <<now, authVars, attempts, starts>>

Deny(a, s) ==
  /\ attempts[a].phase # "new"
  /\ SessionRights(s) # {}
  /\ redirects' = redirects \cup
       {[attempt |-> a, code |-> 0, subject |-> None, epoch |-> None]}
  /\ UNCHANGED <<now, codesVars, authVars, attempts, starts>>

\* A request of any client, with any code that was ever shown and the verifier
\* of any attempt: the controller alone has to tell which ones belong together.
AnyExchange(id, verifier) ==
  /\ ExchangeFor(id, verifier)
  /\ UNCHANGED <<now, attempts, redirects, starts>>

\* Faulty: codes are kept across restarts.
RestartWithCodes(c) ==
  /\ starts < MaxStarts
  /\ starts' = starts + 1
  /\ config' = c
  /\ UNCHANGED <<now, codesVars, sessions, tokens, attempts, redirects>>

\* The process ends, and another one starts with these settings and secrets.
Restart(c) ==
  /\ starts < MaxStarts
  /\ starts' = starts + 1
  /\ config' = c
  /\ Forget
  /\ UNCHANGED <<now, sessions, tokens, attempts, redirects>>

Tick ==
  /\ now < MaxTime
  /\ now' = now + 1
  /\ UNCHANGED <<codesVars, authVars, attempts, redirects, starts>>

-----------------------------------------------------------------------------

CliStep(a) ==
  \/ Start(a) \/ TimeOut(a) \/ Cancel(a) \/ Closed(a)
  \/ \E r \in redirects : Callback(a, r)
  \/ Exchange(a) \/ ExchangeLost(a) \/ Verify(a)

Next ==
  \/ Tick
  \/ \E a \in Attempts : CliStep(a)
  \/ \E a \in Attempts : Disconnect(a)
  \/ \E s \in Subjects : SignIn(s)
  \/ \E a \in Attempts, s \in sessions : Approve(a, s) \/ Deny(a, s)
  \/ \E id \in 1 .. issued, a \in Attempts : AnyExchange(id, a)
  \/ \E c \in Configs : Restart(c)

Spec == Init /\ [][Next]_vars

\* Timers fire, a listener without connections closes, and a request is answered or
\* times out.
Fairness ==
  /\ WF_vars(Tick)
  /\ \A a \in Attempts : /\ WF_vars(TimeOut(a))
                         /\ WF_vars(Closed(a))
                         /\ WF_vars(Exchange(a) \/ ExchangeLost(a))
                         /\ WF_vars(Verify(a))

FairSpec == Spec /\ Fairness
-----------------------------------------------------------------------------
(* Properties *)

\* A code yields one token at most, and the token is for the attempt whose page
\* was approved and for the subject who approved it, whatever codes and verifiers
\* the requests combine (consume, cli_token_exchange).
TokensFollowApprovals ==
  \A t \in tokens :
    t.code # 0 =>
      /\ \E r \in redirects : /\ r.code = t.code
                              /\ r.attempt = t.verifier
                              /\ r.subject = t.subject
      /\ \A u \in tokens : u.code = t.code => u = t

\* An accepted CLI token was approved by someone who signed in with the secret
\* its subject has now, although it takes its epoch from the exchange and not
\* from the session: nothing pending survives the restart that a rotation needs.
AccessRestsOnCurrentSecret ==
  \A t \in tokens :
    t.code # 0 /\ TokenValid(t) =>
      \A r \in redirects : r.code = t.code /\ r.epoch # None
                             => r.epoch = config.secret[t.subject]

\* A token is never accepted for longer than the configured lifetime, also when
\* that was shortened after it was issued.
AcceptedTokensAreYoung ==
  \A t \in tokens : TokenValid(t) => now - t.iat < config.ttl + Leeway

\* Rotating the secret of one principal, or a plain restart, takes nothing from
\* the credentials of the others.
OthersKeepAccess ==
  [][config' # config \/ starts' # starts =>
       \A s \in Subjects :
         (/\ config'.secret[s] = config.secret[s]
          /\ config'.secret[Operator] = config.secret[Operator]
          /\ config'.key = config.key
          /\ config'.role[s] = config.role[s]
          /\ config'.ttl >= config.ttl)
         => /\ \A t \in tokens : t.subject = s => TokenRights(t) \subseteq TokenRights(t)'
            /\ \A c \in sessions : c.subject = s => SessionRights(c) \subseteq SessionRights(c)']_vars

\* While the controller runs, a code that is neither spent nor expired leaves the
\* store only when as many newer ones fill it.
CodesLostOnlyAtBound ==
  [][starts' = starts =>
       \A c \in codes \ codes' :
         \/ c.expires <= now
         \/ \E t \in tokens' \ tokens : t.code = c.id
         \/ Cardinality(NewerThan(c, codes')) >= StoreSize]_vars

\* Whatever the browser and the controller do, no login attempt stays under way for
\* ever, but one that some client keeps in its closing listener.
AttemptsEnd ==
  <>[](\A a \in Attempts :
         attempts[a].phase \in {"new"} \cup Over \/ attempts[a].held)
=============================================================================
