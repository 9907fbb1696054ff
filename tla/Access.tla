------------------------------- MODULE Access --------------------------------
(***************************************************************************)
(* Credentials of the API: tokens, their scopes, and the pairing of a GUI. *)
(*                                                                         *)
(* An invitation is claimed by the first device that proves to know it,    *)
(* approved or rejected by the user of Core, who sees the device's name,   *)
(* and exchanged once for a token by the device that claimed it.  Devices  *)
(* compete, poll and repeat their requests; the user may take his time.    *)
(***************************************************************************)
EXTENDS Integers, FiniteSets

CONSTANTS
  Invitations,
  Devices,       \* a device stands for its claim secret
  Lifetime,      \* of an invitation
  MaxAge, MaxTokens,   \* bounds: the clock, tokens issued
  Nobody

Scopes == {"read", "run", "manage", "admin"}
ScopeSets == {S \in SUBSET Scopes : S # {}}

ASSUME AccessBounds ==
  {Lifetime, MaxAge, MaxTokens} \subseteq Nat /\ Nobody \notin Devices \cup Invitations

VARIABLES
  hour,       \* the clock
  invitation, \* auth_pairing_codes: claim, decision, consumed_at, expires_at
  tokens,     \* auth_tokens, in the order of their creation
  eligible,   \* initialization_issuance_eligible
  approved    \* per invitation, the device the user was shown and approved

accessVars == <<hour, invitation, tokens, eligible, approved>>

Token(n, scopes, device, code, expires) ==
  [id |-> n, scopes |-> scopes, device |-> device, code |-> code,
   expires |-> expires, revoked |-> FALSE]
Active(t) == ~t.revoked
Expired(t) == t.expires <= hour
Never == MaxAge + 1

AccessInit ==
  /\ hour = 0 /\ tokens = {} /\ eligible \in BOOLEAN
  /\ invitation = [i \in Invitations |-> [state |-> "none"]]
  /\ approved = [i \in Invitations |-> Nobody]

-----------------------------------------------------------------------------
(* Tokens.                                                                 *)

Insert(scopes, device, code, expires) ==
  /\ Cardinality(tokens) < MaxTokens
  /\ tokens' = tokens \cup
       {Token(Cardinality(tokens) + 1, scopes, device, code, expires)}

\* At the end of an initialization of a new installation, once.
IssueInitialAdmin ==
  /\ eligible /\ tokens = {}
  /\ Insert({"admin"}, Nobody, Nobody, Never)
  /\ eligible' = FALSE
  /\ UNCHANGED <<hour, invitation, approved>>

EnsureBootstrapToken ==
  /\ ~\E t \in tokens : Active(t)
  /\ Insert({"admin"}, Nobody, Nobody, Never)
  /\ UNCHANGED <<hour, invitation, eligible, approved>>

\* What the routes of the API ask for.
RequiredScope(route, get) ==
  CASE route = "auth" -> "admin"
    [] route = "plugins" -> IF get THEN "read" ELSE "admin"
    [] route = "secrets" -> "manage"
    [] route = "executions" -> IF get THEN "read" ELSE "run"
    [] OTHER -> IF get THEN "read" ELSE "manage"

Authorized(t, scope) ==
  Active(t) /\ ~Expired(t) /\ (scope \in t.scopes \/ "admin" \in t.scopes)
Allowed(route, get) == \E t \in tokens : Authorized(t, RequiredScope(route, get))

CreateToken(scopes, expires) ==
  /\ scopes # {} /\ expires > hour /\ Allowed("auth", FALSE)
  /\ Insert(scopes, Nobody, Nobody, expires)
  /\ UNCHANGED <<hour, invitation, eligible, approved>>

\* revoke_auth_token, and revoke_other_auth_tokens for the rest.
Revoke(T) ==
  /\ Allowed("auth", FALSE)
  /\ \E t \in T : Active(t)
  /\ tokens' = {IF t \in T THEN [t EXCEPT !.revoked = TRUE] ELSE t : t \in tokens}
  /\ UNCHANGED <<hour, invitation, eligible, approved>>

-----------------------------------------------------------------------------
(* Pairing.                                                                *)

State(i) ==
  LET p == invitation[i] IN
  IF p.state # "open" THEN p.state
  ELSE IF p.consumed THEN "consumed"
  ELSE IF p.expires <= hour THEN "expired"
  ELSE IF p.claim = Nobody THEN "awaiting_claim"
  ELSE IF p.decision = "none" THEN "awaiting_approval" ELSE p.decision

\* Invitations that expired a day ago, Lifetime here, go with the next one.
Invite(i, scopes) ==
  /\ State(i) = "none"
  /\ invitation' =
       [j \in Invitations |->
          IF j = i THEN [state |-> "open", scopes |-> scopes, claim |-> Nobody,
                         decision |-> "none", consumed |-> FALSE,
                         expires |-> hour + Lifetime]
          ELSE IF invitation[j].state = "open" /\ invitation[j].expires + Lifetime <= hour
          THEN [state |-> "deleted"] ELSE invitation[j]]
  /\ UNCHANGED <<hour, tokens, eligible, approved>>

\* The first claim stays; the device that made it may repeat it.
Claim(i, d) ==
  /\ State(i) \notin {"none", "deleted", "expired", "consumed"}
  /\ invitation[i].claim \in {Nobody, d}
  /\ invitation' = [invitation EXCEPT ![i].claim = d]
  /\ UNCHANGED <<hour, tokens, eligible, approved>>

\* The user sees the device of the invitation as it is and decides later.
Decide(i, yes) ==
  /\ State(i) = "awaiting_approval"
  /\ invitation' = [invitation EXCEPT ![i].decision =
                      IF yes THEN "approved" ELSE "rejected"]
  /\ approved' = [approved EXCEPT ![i] = IF yes THEN invitation[i].claim ELSE @]
  /\ UNCHANGED <<hour, tokens, eligible>>

\* Mutant of Exchange: the invitation is not marked as used.
MutExchange(i, d) ==
  /\ State(i) = "approved" /\ invitation[i].claim = d
  /\ Insert(invitation[i].scopes, d, i, Never)
  /\ UNCHANGED <<hour, invitation, eligible, approved>>

\* One transaction: the invitation is used and the token made.
Exchange(i, d) ==
  /\ State(i) = "approved" /\ invitation[i].claim = d
  /\ invitation' = [invitation EXCEPT ![i].consumed = TRUE]
  /\ Insert(invitation[i].scopes, d, i, Never)
  /\ UNCHANGED <<hour, eligible, approved>>

Hour ==
  /\ hour < MaxAge /\ hour' = hour + 1
  /\ UNCHANGED <<invitation, tokens, eligible, approved>>

AccessNext ==
  \/ IssueInitialAdmin \/ EnsureBootstrapToken \/ Hour
  \/ CreateToken({"read"}, hour + 1)
  \/ \E t \in tokens : Revoke({t}) \/ Revoke(tokens \ {t})
  \/ \E i \in Invitations :
       \/ Invite(i, {"read", "run"})
       \/ \E d \in Devices : Claim(i, d) \/ Exchange(i, d)
       \/ \E yes \in BOOLEAN : Decide(i, yes)

AccessSpec == AccessInit /\ [][AccessNext]_accessVars

-----------------------------------------------------------------------------
(* Properties.                                                             *)

\* The types of the variables; a device is approved only if it claimed.
AccessTypeOK ==
  /\ hour \in 0 .. MaxAge /\ eligible \in BOOLEAN
  /\ approved \in [Invitations -> Devices \cup {Nobody}]
  /\ \A t \in tokens : t.id \in 1 .. MaxTokens /\ t.scopes \in ScopeSets
  /\ \A i \in Invitations :
       invitation[i].state = "open" /\ approved[i] # Nobody => invitation[i].claim = approved[i]

\* exchange_auth_pairing_code: the token of an invitation goes to the device
\* whose name the user of Core approved.
TokenOfApproved ==
  \A t \in tokens : t.code # Nobody => /\ t.device # Nobody
                                       /\ t.device = approved[t.code]

\* Devices poll and repeat their requests, and exchange within the time the
\* invitation is valid: one invitation is worth one token.
OneTokenEach == \A t, u \in tokens : t.code # Nobody /\ t.code = u.code => t = u

\* An invitation gives access once, to the device that was approved.
PairingSound == AccessTypeOK /\ TokenOfApproved /\ OneTokenEach
=============================================================================
