------------------------ MODULE AuthorizationCodes -------------------------
(* AuthorizationCodeStore: the codes of pending CLI logins, in the memory of  *)
(* the controller.  asyncio.Lock makes each operation one step.  A code is    *)
(* its number in the order of issue; its verifier and redirect are those of   *)
(* the login attempt it was approved for.                                     *)
EXTENDS Integers, FiniteSets

CONSTANTS
  Attempts,     \* login attempts of the CLI: state and PKCE verifier of each
  Subjects,     \* the operator and the principals
  RedirectOf,   \* RedirectOf[a]: address of the attempt's callback listener
  CodeTtl,      \* authorization_code_ttl_seconds
  StoreSize     \* authorization_code_store_size

ASSUME CodesAssumption == CodeTtl \in Nat \ {0} /\ StoreSize \in Nat \ {0}

VARIABLES
  now,     \* time.time() of the controller
  codes,   \* _codes
  issued   \* how many codes there have been

codesVars == <<codes, issued>>

Code == [id : Nat, challenge : Attempts, redirect : {RedirectOf[a] : a \in Attempts},
         subject : Subjects, expires : Nat]

CodesInit == codes = {} /\ issued = 0

\* _prune.
Unexpired == {c \in codes : c.expires > now}

NewerThan(c, among) == {d \in among : d.id > c.id}

\* Faulty: > for >=.
OneTooMany == {c \in Unexpired : Cardinality(NewerThan(c, Unexpired)) < StoreSize}

\* What is left of the unexpired codes when room for one is made.
OldestLeave == {c \in Unexpired : Cardinality(NewerThan(c, Unexpired)) < StoreSize - 1}

\* issue.
Issue(a, subject) ==
  /\ codes' = OldestLeave \cup
       {[id |-> issued + 1, challenge |-> a, redirect |-> RedirectOf[a],
         subject |-> subject, expires |-> now + CodeTtl]}
  /\ issued' = issued + 1

\* Faulty: the verifier is not compared with the challenge.
MatchingAny(id, verifier, redirect) ==
  {c \in Unexpired : c.id = id /\ c.redirect = redirect}

\* What consume finds: the code with this number, verifier and redirect.
Matching(id, verifier, redirect) ==
  {c \in Unexpired : c.id = id /\ c.challenge = verifier /\ c.redirect = redirect}

\* Faulty: any request for a code spends it.
ConsumeAtSight(id, verifier, redirect) ==
  /\ codes' = {c \in Unexpired : c.id # id}
  /\ UNCHANGED issued

\* consume: a code that does not match stays.
Consume(id, verifier, redirect) ==
  /\ codes' = Unexpired \ Matching(id, verifier, redirect)
  /\ UNCHANGED issued

\* A restart forgets every code.
Forget == codes' = {} /\ UNCHANGED issued
=============================================================================
