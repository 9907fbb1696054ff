------------------------- MODULE AdministrationProofs -------------------------
(***************************************************************************)
(* Proofs about the parts of an installation around its executions: the    *)
(* pairing of clients, the registrations of workflows, initialization with *)
(* the migrations and the file of contexts, the AI nodes of an execution,  *)
(* secrets, and pages.  Each part has an inductive invariant of its own.   *)
(***************************************************************************)
EXTENDS Credentials, Access, Definitions, Setup, Providers, Pages, FiniteSetTheorems,
        FunctionTheorems, SequenceTheorems, WellFoundedInduction, TLAPS

(***************************************************************************)
(* Tokens and pairing.                                                     *)
(***************************************************************************)
TokenType ==
  [id : 1 .. MaxTokens, scopes : ScopeSets, device : Devices \cup {Nobody},
   code : Invitations \cup {Nobody}, expires : Nat, revoked : BOOLEAN]
OpenInvitation ==
  [state : {"open"}, scopes : ScopeSets, claim : Devices \cup {Nobody},
   decision : {"none", "approved", "rejected"}, consumed : BOOLEAN, expires : Nat]
Closed == [state : {"none", "deleted"}]

AccessShape ==
  /\ hour \in 0 .. MaxAge /\ eligible \in BOOLEAN
  /\ approved \in [Invitations -> Devices \cup {Nobody}]
  /\ invitation \in [Invitations -> OpenInvitation \cup Closed]
  /\ tokens \subseteq TokenType
  /\ IsFiniteSet(tokens) /\ Cardinality(tokens) <= MaxTokens

\* The user's decision is about the claim, and the claim does not change after it.
ApprovedClaims ==
  \A i \in Invitations :
    /\ invitation[i].state = "open" /\ invitation[i].decision = "approved" =>
         approved[i] \in Devices
    /\ invitation[i].state = "open" /\ approved[i] # Nobody =>
         /\ invitation[i].claim = approved[i] /\ invitation[i].decision # "none"
    /\ invitation[i].state = "none" => approved[i] = Nobody

\* An invitation that was exchanged cannot be exchanged again.
Spent(i) ==
  \/ invitation[i].state = "deleted"
  \/ invitation[i].state = "open" /\ invitation[i].consumed
TokensSpend == \A t \in tokens : t.code # Nobody => Spent(t.code)

AccessInv == AccessShape /\ ApprovedClaims /\ TokensSpend /\ TokenOfApproved /\ OneTokenEach

\* A step that adds a token.
LEMMA InsertToken ==
  ASSUME AccessShape, NEW scopes \in ScopeSets, NEW device \in Devices \cup {Nobody},
         NEW code \in Invitations \cup {Nobody}, NEW expires \in Nat,
         Insert(scopes, device, code, expires)
  PROVE  /\ tokens' \subseteq TokenType
         /\ IsFiniteSet(tokens') /\ Cardinality(tokens') <= MaxTokens
         /\ \E new \in TokenType : /\ new.code = code /\ new.device = device
                                   /\ tokens' = tokens \cup {new}
  <1> DEFINE new == Token(Cardinality(tokens) + 1, scopes, device, code, expires)
  <1>1. tokens' = tokens \cup {new} /\ Cardinality(tokens) < MaxTokens
    BY DEF Insert
  <1>2. Cardinality(tokens) \in Nat
    BY FS_CardinalityType DEF AccessShape
  <1>3. new \in TokenType /\ new.code = code /\ new.device = device
    BY <1>1, <1>2, AccessBounds DEF Token, TokenType
  <1>4. IsFiniteSet(tokens') /\ Cardinality(tokens') <= MaxTokens
    <2>1. /\ IsFiniteSet(tokens \cup {new})
          /\ Cardinality(tokens \cup {new}) =
               IF new \in tokens THEN Cardinality(tokens) ELSE Cardinality(tokens) + 1
      BY FS_AddElement DEF AccessShape
    <2> QED BY <1>1, <1>2, <2>1, AccessBounds
  <1> HIDE DEF new
  <1> QED BY <1>1, <1>3, <1>4 DEF AccessShape

\* A revocation changes no token's invitation and device.
LEMMA RevokeTokens ==
  ASSUME AccessShape, NEW T, Revoke(T)
  PROVE  /\ tokens' \subseteq TokenType
         /\ IsFiniteSet(tokens') /\ Cardinality(tokens') <= MaxTokens
         /\ \A t \in tokens' : \E u \in tokens :
              /\ t = (IF u \in T THEN [u EXCEPT !.revoked = TRUE] ELSE u)
              /\ t.code = u.code /\ t.device = u.device
  <1> DEFINE f == [u \in tokens |-> IF u \in T THEN [u EXCEPT !.revoked = TRUE] ELSE u]
  <1>1. tokens' = {f[u] : u \in tokens}
    BY DEF Revoke
  <1>2. ASSUME NEW u \in tokens
        PROVE  f[u] \in TokenType /\ f[u].code = u.code /\ f[u].device = u.device
    BY DEF AccessShape, TokenType
  <1>3. f \in Surjection(tokens, tokens')
    BY <1>1 DEF Surjection
  <1>4. IsFiniteSet(tokens') /\ Cardinality(tokens') <= Cardinality(tokens)
    BY <1>3, FS_Surjection DEF AccessShape
  <1>5. Cardinality(tokens) \in Nat /\ Cardinality(tokens') \in Nat
    BY <1>4, FS_CardinalityType DEF AccessShape
  <1>6. Cardinality(tokens') <= MaxTokens
    BY <1>4, <1>5, AccessBounds DEF AccessShape
  <1>7. ASSUME NEW t \in tokens'
        PROVE  \E u \in tokens : /\ t = (IF u \in T THEN [u EXCEPT !.revoked = TRUE] ELSE u)
                                 /\ t.code = u.code /\ t.device = u.device
    <2>1. PICK u \in tokens : t = f[u]
      BY <1>1, <1>7
    <2> QED BY <1>2, <2>1
  <1>8. tokens' \subseteq TokenType
    BY <1>1, <1>2
  <1> QED BY <1>4, <1>6, <1>7, <1>8

\* Steps that only add a token that belongs to no invitation.
LEMMA PlainToken ==
  ASSUME AccessInv, NEW scopes \in ScopeSets, NEW expires \in Nat,
         Insert(scopes, Nobody, Nobody, expires), eligible' \in BOOLEAN,
         UNCHANGED <<hour, invitation, approved>>
  PROVE  AccessInv'
  <1>1. PICK new \in TokenType : new.code = Nobody /\ tokens' = tokens \cup {new}
    BY InsertToken DEF AccessInv
  <1>2. AccessShape'
    BY InsertToken DEF AccessInv, AccessShape
  <1> QED BY <1>1, <1>2 DEF AccessInv, ApprovedClaims, TokensSpend, Spent, TokenOfApproved,
                            OneTokenEach

LEMMA AccessStep == AccessInv /\ [AccessNext]_accessVars => AccessInv'
  <1> SUFFICES ASSUME AccessInv, [AccessNext]_accessVars PROVE AccessInv'
    OBVIOUS
  <1> USE AccessBounds
  <1>a. {"admin"} \in ScopeSets /\ {"read"} \in ScopeSets
    BY DEF Scopes, ScopeSets
  <1>b. {"read", "run"} \in ScopeSets
    BY DEF Scopes, ScopeSets
  <1>c. Never \in Nat /\ hour + 1 \in Nat /\ eligible \in BOOLEAN
    BY DEF Never, AccessInv, AccessShape
  <1>1. CASE IssueInitialAdmin
    BY <1>1, <1>a, <1>c, PlainToken DEF IssueInitialAdmin
  <1>2. CASE EnsureBootstrapToken
    BY <1>2, <1>a, <1>c, PlainToken DEF EnsureBootstrapToken
  <1>3. CASE Hour
    BY <1>3 DEF Hour, AccessInv, AccessShape, ApprovedClaims, TokensSpend, Spent,
                TokenOfApproved, OneTokenEach
  <1>4. CASE CreateToken({"read"}, hour + 1)
    BY <1>4, <1>a, <1>c, PlainToken DEF CreateToken
  <1>5. ASSUME NEW T, Revoke(T) PROVE AccessInv'
    <2>1. AccessShape'
      BY <1>5, RevokeTokens DEF Revoke, AccessInv, AccessShape
    <2>2. UNCHANGED <<invitation, approved>>
      BY <1>5 DEF Revoke
    <2>3. \A t \in tokens' : \E u \in tokens :
            /\ t = (IF u \in T THEN [u EXCEPT !.revoked = TRUE] ELSE u)
            /\ t.code = u.code /\ t.device = u.device
      BY <1>5, RevokeTokens DEF AccessInv
    <2>4. OneTokenEach'
      <3> SUFFICES ASSUME NEW t \in tokens', NEW u \in tokens', t.code # Nobody, t.code = u.code
                   PROVE  t = u
        BY DEF OneTokenEach
      <3>1. PICK a \in tokens : /\ t = (IF a \in T THEN [a EXCEPT !.revoked = TRUE] ELSE a)
                                /\ t.code = a.code
        BY <2>3
      <3>2. PICK b \in tokens : /\ u = (IF b \in T THEN [b EXCEPT !.revoked = TRUE] ELSE b)
                                /\ u.code = b.code
        BY <2>3
      <3>3. a = b
        BY <3>1, <3>2 DEF AccessInv, OneTokenEach
      <3> QED BY <3>1, <3>2, <3>3
    <2>5. ApprovedClaims' /\ TokensSpend' /\ TokenOfApproved'
      BY <2>2, <2>3 DEF AccessInv, ApprovedClaims, TokensSpend, Spent, TokenOfApproved
    <2> QED BY <2>1, <2>4, <2>5 DEF AccessInv
  <1>6. ASSUME NEW i \in Invitations, Invite(i, {"read", "run"}) PROVE AccessInv'
    <2>1. invitation[i].state = "none"
      BY <1>6 DEF Invite, State, AccessInv, AccessShape, OpenInvitation, Closed
    <2>2. \A j \in Invitations \ {i} : invitation'[j] \in {invitation[j], [state |-> "deleted"]}
      BY <1>6 DEF Invite
    <2>3. /\ invitation'[i] \in OpenInvitation /\ invitation'[i].decision = "none"
      <3>1. hour + Lifetime \in Nat
        BY DEF AccessInv, AccessShape
      <3>2. invitation'[i] = [state |-> "open", scopes |-> {"read", "run"}, claim |-> Nobody,
                              decision |-> "none", consumed |-> FALSE,
                              expires |-> hour + Lifetime]
        BY <1>6 DEF Invite
      <3> QED BY <1>b, <3>1, <3>2 DEF OpenInvitation
    <2>4. AccessShape'
      <3>1. \A j \in Invitations : invitation'[j] \in OpenInvitation \cup Closed
        BY <2>2, <2>3 DEF AccessInv, AccessShape, Closed
      <3>2. invitation' \in [Invitations -> OpenInvitation \cup Closed]
        BY <1>6, <3>1 DEF Invite
      <3> QED BY <1>6, <3>2 DEF Invite, AccessInv, AccessShape
    <2>5. ASSUME NEW j \in Invitations
          PROVE  /\ Spent(j) => Spent(j)'
                 /\ invitation'[j].state = "open" /\ j # i => invitation'[j] = invitation[j]
                 /\ invitation'[j].state = "none" => invitation'[j] = invitation[j]
      <3>1. CASE j = i
        BY <2>1, <2>3, <3>1 DEF Spent, OpenInvitation
      <3>2. CASE j # i /\ invitation'[j] = invitation[j]
        BY <3>2 DEF Spent
      <3>3. CASE invitation'[j] = [state |-> "deleted"]
        BY <3>3 DEF Spent
      <3> QED BY <2>2, <3>1, <3>2, <3>3
    <2>6. UNCHANGED <<approved, tokens>>
      BY <1>6 DEF Invite
    <2>7. ApprovedClaims'
      BY <2>1, <2>3, <2>5, <2>6 DEF AccessInv, ApprovedClaims
    <2>8. TokensSpend'
      BY <2>5, <2>6 DEF AccessInv, AccessShape, TokensSpend, TokenType
    <2> QED BY <2>4, <2>6, <2>7, <2>8 DEF AccessInv, TokenOfApproved, OneTokenEach
  <1>7. ASSUME NEW i \in Invitations, NEW d \in Devices, Claim(i, d) PROVE AccessInv'
    <2>1. invitation[i] \in OpenInvitation
      BY <1>7 DEF Claim, State, AccessInv, AccessShape, Closed
    <2>2. AccessShape'
      BY <1>7, <2>1 DEF Claim, AccessInv, AccessShape, OpenInvitation
    <2> QED BY <1>7, <2>1, <2>2
            DEF Claim, AccessInv, AccessShape, ApprovedClaims, TokensSpend, Spent,
                TokenOfApproved, OneTokenEach, OpenInvitation
  <1>8. ASSUME NEW i \in Invitations, NEW d \in Devices, Exchange(i, d) PROVE AccessInv'
    <2>1. /\ invitation[i] \in OpenInvitation /\ ~invitation[i].consumed
          /\ invitation[i].decision = "approved" /\ invitation[i].claim = d
      BY <1>8 DEF Exchange, State, AccessInv, AccessShape, Closed, OpenInvitation
    <2>0. invitation[i].scopes \in ScopeSets
      BY <2>1 DEF OpenInvitation
    <2>2. approved[i] = d
      BY <2>1 DEF AccessInv, ApprovedClaims, OpenInvitation
    <2>3. PICK new \in TokenType :
             new.code = i /\ new.device = d /\ tokens' = tokens \cup {new}
      BY <1>8, <1>c, <2>0, InsertToken DEF Exchange, AccessInv
    <2>4. /\ tokens' \subseteq TokenType /\ IsFiniteSet(tokens')
          /\ Cardinality(tokens') <= MaxTokens
      BY <1>8, <1>c, <2>0, InsertToken DEF Exchange, AccessInv
    <2>5. invitation' = [invitation EXCEPT ![i].consumed = TRUE]
      BY <1>8 DEF Exchange
    <2>a. /\ invitation'[i] = [invitation[i] EXCEPT !.consumed = TRUE]
          /\ \A j \in Invitations \ {i} : invitation'[j] = invitation[j]
          /\ UNCHANGED <<hour, eligible, approved>>
      BY <1>8, <2>5 DEF Exchange, AccessInv, AccessShape
    <2>b. /\ invitation'[i] \in OpenInvitation /\ invitation'[i].consumed
          /\ invitation'[i].claim = d /\ invitation'[i].decision = "approved"
      BY <2>1, <2>a DEF OpenInvitation
    <2>6. AccessShape' /\ ApprovedClaims' /\ Spent(i)'
      <3>1. invitation' \in [Invitations -> OpenInvitation \cup Closed]
        BY <2>5, <2>b DEF AccessInv, AccessShape
      <3>2. ApprovedClaims'
        BY <2>2, <2>a, <2>b DEF AccessInv, ApprovedClaims, OpenInvitation
      <3> QED BY <2>4, <2>a, <2>b, <3>1, <3>2 DEF AccessInv, AccessShape, Spent, OpenInvitation
    <2>7. \A t \in tokens : t.code # i
      BY <2>1 DEF AccessInv, TokensSpend, Spent, OpenInvitation
    <2>8. OneTokenEach'
      BY <2>3, <2>7 DEF AccessInv, OneTokenEach
    <2>9. TokensSpend'
      BY <2>3, <2>5, <2>6, <2>7 DEF AccessInv, AccessShape, TokensSpend, Spent, TokenType
    <2>10. TokenOfApproved'
      BY <1>8, <2>2, <2>3 DEF Exchange, AccessInv, TokenOfApproved
    <2> QED BY <2>6, <2>8, <2>9, <2>10 DEF AccessInv
  <1>9. ASSUME NEW i \in Invitations, NEW yes \in BOOLEAN, Decide(i, yes) PROVE AccessInv'
    <2>1. /\ invitation[i] \in OpenInvitation /\ ~invitation[i].consumed
          /\ invitation[i].decision = "none" /\ invitation[i].claim \in Devices
      BY <1>9 DEF Decide, State, AccessInv, AccessShape, Closed, OpenInvitation
    <2>2. AccessShape'
      BY <1>9, <2>1 DEF Decide, AccessInv, AccessShape, OpenInvitation
    <2>3. ApprovedClaims'
      BY <1>9, <2>1 DEF Decide, AccessInv, AccessShape, ApprovedClaims, OpenInvitation
    <2>4. \A t \in tokens : t.code # i
      BY <2>1 DEF AccessInv, TokensSpend, Spent, OpenInvitation
    <2>5. TokensSpend' /\ TokenOfApproved' /\ OneTokenEach'
      BY <1>9, <2>1, <2>4
         DEF Decide, AccessInv, AccessShape, TokensSpend, Spent, TokenOfApproved, OneTokenEach,
             OpenInvitation, TokenType
    <2> QED BY <2>2, <2>3, <2>5 DEF AccessInv
  <1>10. CASE UNCHANGED accessVars
    BY <1>10 DEF accessVars, AccessInv, AccessShape, ApprovedClaims, TokensSpend, Spent,
                 TokenOfApproved, OneTokenEach
  <1> QED
    BY <1>1, <1>2, <1>3, <1>4, <1>5, <1>6, <1>7, <1>8, <1>9, <1>10 DEF AccessNext

\* PairingSound: with any number of devices that compete, poll and repeat their
\* requests, an invitation is worth one token, and it goes to the device that
\* the user of Core was shown and approved.
THEOREM PairingIsSound == AccessSpec => []PairingSound
  <1>1. AccessInit => AccessInv
    BY AccessBounds, FS_EmptySet
       DEF AccessInit, AccessInv, AccessShape, ApprovedClaims, TokensSpend, TokenOfApproved,
           OneTokenEach, Closed
  <1>2. AccessInv => PairingSound
    BY DEF AccessInv, AccessShape, ApprovedClaims, PairingSound, AccessTypeOK, TokenType
  <1> QED BY <1>1, <1>2, AccessStep, PTL DEF AccessSpec


(***************************************************************************)
(* Workflow registrations.                                                 *)
(***************************************************************************)
Statuses == {"enabled", "disabled"}
WorkflowRow ==
  [name : Names, status : Statuses, revision : 1 .. MaxSources]

RegistryShape ==
  /\ workflows \in [Ids -> WorkflowRow \cup {Nothing}]
  /\ stored \in 0 .. MaxSources
  /\ based \in [1 .. MaxSources -> 0 .. MaxSources]

\* No revision is from the future, of two workflows, or of a name taken twice.
RegistryKeys ==
  /\ \A i \in Ids : Registered(i) => workflows[i].revision <= stored
  /\ \A i, j \in Ids :
       Registered(i) /\ Registered(j) /\ i # j =>
         /\ workflows[i].revision # workflows[j].revision
         /\ workflows[i].name # workflows[j].name

\* What a client decided on is a workflow and a name.
ClientsTyped ==
  /\ DOMAIN client = Clients
  /\ \A c \in Clients :
       /\ client[c].revision \in 0 .. MaxSources
       /\ client[c].op \in {"seen", "create", "replace"} => client[c].id \in Ids
       /\ client[c].op \in {"create", "replace"} => client[c].name \in Names

RegistryInv == RegistryShape /\ RegistryKeys /\ ClientsTyped

LEMMA AtMostOne ==
  ASSUME NEW S, \A x, y \in S : x = y
  PROVE  Cardinality(S) <= 1
  <1>1. CASE S = {}
    BY <1>1, FS_EmptySet
  <1>2. CASE S # {}
    <2>1. PICK x \in S : TRUE
      BY <1>2
    <2>2. S = {x}
      BY <2>1
    <2> QED BY <2>2, FS_Singleton
  <1> QED BY <1>1, <1>2

LEMMA KeysAreUnique == RegistryInv => NamesUnique /\ DefinitionTypeOK
  <1> SUFFICES ASSUME RegistryInv PROVE NamesUnique /\ DefinitionTypeOK
    OBVIOUS
  <1>1. ASSUME NEW n \in Names PROVE Cardinality(Named(n)) <= 1
    <2>1. \A i, j \in Named(n) : i = j
      BY DEF Named, RegistryInv, RegistryKeys
    <2> QED BY <2>1, AtMostOne
  <1>2. DefinitionTypeOK
    BY DefinitionBounds
       DEF RegistryInv, RegistryShape, RegistryKeys, DefinitionTypeOK, WorkflowRow, Registered,
           Statuses
  <1> QED BY <1>1, <1>2 DEF NamesUnique

\* A new source keeps the keys, and tells what its author had seen.
LEMMA StoreKeepsKeys ==
  ASSUME RegistryShape, RegistryKeys, NEW i \in Ids, NEW name \in Names,
         NEW status \in Statuses, NEW r \in 0 .. MaxSources,
         Named(name) \subseteq {i}, Store(i, name, status, r)
  PROVE  /\ RegistryShape' /\ RegistryKeys'
         /\ workflows'[i] = [name |-> name, status |-> status, revision |-> stored + 1]
         /\ \A j \in Ids \ {i} : workflows'[j] = workflows[j]
         /\ based'[stored + 1] = r
  <1> USE DefinitionBounds
  <1>1. stored + 1 \in 1 .. MaxSources /\ stored' = stored + 1
    BY DEF Store, RegistryShape
  <1>2. /\ workflows'[i] = [name |-> name, status |-> status, revision |-> stored + 1]
        /\ \A j \in Ids \ {i} : workflows'[j] = workflows[j]
    BY DEF Store, RegistryShape
  <1>3. workflows'[i] \in WorkflowRow
    BY <1>1, <1>2 DEF WorkflowRow
  <1>4. RegistryShape'
    BY <1>1, <1>2, <1>3 DEF Store, RegistryShape
  <1>5. ASSUME NEW j \in Ids, Registered(j)'
        PROVE  workflows'[j].revision <= stored'
    BY <1>1, <1>2, <1>5 DEF RegistryKeys, Registered, RegistryShape, WorkflowRow
  <1>6. ASSUME NEW j \in Ids \ {i}, Registered(j)'
        PROVE  /\ workflows'[j].revision # workflows'[i].revision
               /\ workflows'[j].name # workflows'[i].name
    <2>1. Registered(j) /\ workflows'[j] = workflows[j] /\ j \notin Named(name)
      BY <1>2, <1>6 DEF Registered
    <2>2. workflows[j].revision \in 1 .. MaxSources /\ workflows[j].revision <= stored
      BY <2>1 DEF RegistryShape, RegistryKeys, Registered, WorkflowRow
    <2>3. workflows[j].name # name
      BY <2>1 DEF Named
    <2> QED BY <1>1, <1>2, <2>1, <2>2, <2>3 DEF RegistryShape
  <1>7. RegistryKeys'
    BY <1>2, <1>5, <1>6 DEF RegistryKeys, Registered
  <1> QED BY <1>1, <1>2, <1>4, <1>7 DEF Store, RegistryShape

\* Every step keeps the invariant, and overwrites only what its author has seen.
LEMMA RegistryStep ==
  RegistryInv /\ [DefinitionNext]_definitionVars =>
    RegistryInv' /\ [NoLostUpdate /\ ImportKeepsStatus]_definitionVars
  <1> SUFFICES ASSUME RegistryInv, [DefinitionNext]_definitionVars
               PROVE  RegistryInv' /\ [NoLostUpdate /\ ImportKeepsStatus]_definitionVars
    OBVIOUS
  <1> USE DefinitionBounds
  <1>0. Resting.op = "none" /\ Resting.revision = 0
    BY DEF Resting
  <1>i. 0 \in 0 .. MaxSources /\ "enabled" \in Statuses /\ "disabled" \in Statuses
    BY DEF Statuses
  <1>a. ASSUME NEW c \in Clients, NEW rec, client' = [client EXCEPT ![c] = rec],
               rec.revision \in 0 .. MaxSources,
               rec.op \in {"seen", "create", "replace"} => rec.id \in Ids,
               rec.op \in {"create", "replace"} => rec.name \in Names
        PROVE  ClientsTyped'
    BY <1>a DEF RegistryInv, ClientsTyped
  <1>b. ASSUME NEW c \in Clients, client' = [client EXCEPT ![c] = Resting] PROVE ClientsTyped'
    BY <1>0, <1>a, <1>b, <1>i
  <1>c. ASSUME UNCHANGED <<workflows, stored, based>>
        PROVE  /\ RegistryShape' /\ RegistryKeys'
               /\ NoLostUpdate /\ ImportKeepsStatus
    BY <1>c DEF RegistryInv, RegistryShape, RegistryKeys, Registered, NoLostUpdate,
                ImportKeepsStatus
  \* Only the row of i changes, and only its status.
  <1>d. ASSUME NEW i \in Ids, Registered(i), NEW status \in Statuses,
               workflows' = [workflows EXCEPT ![i].status = status],
               UNCHANGED <<stored, based>>
        PROVE  RegistryShape' /\ RegistryKeys' /\ NoLostUpdate
    <2>1. workflows[i] \in WorkflowRow
      BY <1>d DEF Registered, RegistryInv, RegistryShape
    <2>2. /\ workflows'[i] \in WorkflowRow
          /\ workflows'[i].revision = workflows[i].revision
          /\ workflows'[i].name = workflows[i].name
      BY <1>d, <2>1 DEF RegistryInv, RegistryShape, WorkflowRow
    <2>3. \A j \in Ids \ {i} : workflows'[j] = workflows[j]
      BY <1>d DEF RegistryInv, RegistryShape
    <2>4. RegistryShape'
      BY <1>d, <2>2, <2>3 DEF RegistryInv, RegistryShape
    <2>5. RegistryKeys'
      BY <1>d, <2>2, <2>3 DEF RegistryInv, RegistryKeys, Registered
    <2> QED BY <1>d, <2>2, <2>3, <2>4, <2>5 DEF NoLostUpdate, Registered
  \* What a new source of a workflow that exists, or does not, means.
  <1>e. ASSUME NEW i \in Ids, NEW name \in Names, NEW status \in Statuses,
               NEW r \in 0 .. MaxSources, Store(i, name, status, r),
               Named(name) \subseteq {i}, Registered(i) => workflows[i].revision = r
        PROVE  /\ RegistryShape' /\ RegistryKeys' /\ NoLostUpdate
               /\ workflows'[i].status = status
               /\ \A j \in Ids \ {i} : workflows'[j] = workflows[j]
    <2>1. /\ RegistryShape' /\ RegistryKeys'
          /\ workflows'[i] = [name |-> name, status |-> status, revision |-> stored + 1]
          /\ \A j \in Ids \ {i} : workflows'[j] = workflows[j]
          /\ based'[stored + 1] = r
      BY <1>e, StoreKeepsKeys DEF RegistryInv
    <2>2. NoLostUpdate
      BY <1>e, <2>1 DEF NoLostUpdate, Registered
    <2>3. workflows'[i].status = status
      BY <2>1
    <2> QED BY <2>1, <2>2, <2>3
  <1>f. ASSUME NEW i \in Ids, NEW name \in Names, NEW r \in 0 .. MaxSources,
               Replace(i, name, r)
        PROVE  /\ RegistryShape' /\ RegistryKeys' /\ NoLostUpdate
               /\ \A j \in Ids \ {i} : workflows'[j] = workflows[j]
               /\ workflows'[i] # workflows[i] =>
                    Registered(i) /\ workflows'[i].status = workflows[i].status
    <2>1. CASE Unchanged(i, r) /\ Named(name) \subseteq {i}
      <3>1. workflows[i].status \in Statuses /\ Registered(i)
        BY <2>1 DEF Unchanged, Registered, RegistryInv, RegistryShape, WorkflowRow
      <3>2. Store(i, name, workflows[i].status, r) /\ workflows[i].revision = r
        BY <1>f, <2>1 DEF Replace, Unchanged
      <3>3. RegistryShape' /\ RegistryKeys' /\ NoLostUpdate
        BY <1>e, <2>1, <3>1, <3>2
      <3>4. /\ workflows'[i].status = workflows[i].status
            /\ \A j \in Ids \ {i} : workflows'[j] = workflows[j]
        BY <1>e, <2>1, <3>1, <3>2
      <3> QED BY <3>1, <3>3, <3>4
    <2>2. CASE ~(Unchanged(i, r) /\ Named(name) \subseteq {i})
      BY <1>c, <1>f, <2>2 DEF Replace
    <2> QED BY <2>1, <2>2
  \* A step of one client leaves the others at what they do.
  <1>g. ASSUME NEW c \in Clients, client[c].op = "seen" \/ client[c].op = "none",
               client' = [client EXCEPT ![c] = Resting] \/ client' = client
        PROVE  ImportKeepsStatus
    <2>1. \A d \in Clients : client[d].op \in {"create", "replace"} => client'[d] = client[d]
      BY <1>g DEF RegistryInv, ClientsTyped
    <2> QED BY <1>0, <2>1 DEF ImportKeepsStatus
  <1>h. ASSUME NEW c \in Clients, client[c].op \in {"create", "replace"},
               client' = [client EXCEPT ![c] = Resting],
               \A j \in Ids \ {client[c].id} : workflows'[j] = workflows[j],
               workflows'[client[c].id] # workflows[client[c].id] =>
                 workflows'[client[c].id].status =
                   IF Registered(client[c].id) THEN workflows[client[c].id].status
                   ELSE "disabled"
        PROVE  ImportKeepsStatus
    <2>1. \A d \in Clients \ {c} : client'[d] = client[d]
      BY <1>h DEF RegistryInv, ClientsTyped
    <2> QED BY <1>0, <1>h, <2>1 DEF ImportKeepsStatus
  <1>1. ASSUME NEW c \in Clients, NEW s, Observe(c, s)
        PROVE  RegistryInv' /\ NoLostUpdate /\ ImportKeepsStatus
    <2>1. PICK i \in Selected(s) :
            client' = [client EXCEPT ![c] = [Resting EXCEPT !.op = "seen", !.id = i,
                                              !.revision = workflows[i].revision]]
      BY <1>1 DEF Observe
    <2>2. i \in Ids /\ workflows[i].revision \in 0 .. MaxSources
      BY DEF Selected, Registered, RegistryInv, RegistryShape, WorkflowRow
    <2>3. ClientsTyped'
      BY <1>a, <2>1, <2>2 DEF Resting
    <2> QED BY <1>1, <1>c, <2>3 DEF Observe, RegistryInv
  <1>2. ASSUME NEW c \in Clients, NEW i \in Ids, NEW n \in Names, CreateWorkflow(c, i, n)
        PROVE  RegistryInv' /\ NoLostUpdate /\ ImportKeepsStatus
    <2>1. /\ Store(i, n, "enabled", 0) /\ ~Registered(i) /\ Named(n) \subseteq {i}
          /\ UNCHANGED client /\ client[c].op = "none"
      BY <1>2 DEF CreateWorkflow, Insertable
    <2>2. RegistryShape' /\ RegistryKeys' /\ NoLostUpdate
      BY <1>e, <1>i, <2>1
    <2> QED BY <1>g, <2>1, <2>2 DEF RegistryInv, ClientsTyped
  <1>3. ASSUME NEW c \in Clients, NEW i \in Ids, NEW n \in Names, NEW b \in BOOLEAN,
               DecideImport(c, i, n, b)
        PROVE  RegistryInv' /\ NoLostUpdate /\ ImportKeepsStatus
    <2> DEFINE r == IF client[c].op = "seen" /\ client[c].id = i THEN client[c].revision ELSE 0
               rec == [Resting EXCEPT !.op = IF Registered(i) THEN "replace" ELSE "create",
                                      !.id = i, !.name = n, !.revision = r]
    <2>1. r \in 0 .. MaxSources
      BY DEF RegistryInv, ClientsTyped
    <2>2. client' = [client EXCEPT ![c] = rec] /\ UNCHANGED <<workflows, stored, based>>
      BY <1>3 DEF DecideImport
    <2> HIDE DEF r
    <2>3. rec.revision = r /\ rec.id = i /\ rec.name = n
      BY DEF Resting
    <2> HIDE DEF rec
    <2>4. ClientsTyped'
      BY <1>a, <2>1, <2>2, <2>3
    <2> QED BY <1>c, <2>2, <2>4 DEF RegistryInv
  <1>4. ASSUME NEW c \in Clients, ImportNew(c)
        PROVE  RegistryInv' /\ NoLostUpdate /\ ImportKeepsStatus
    <2> DEFINE i == client[c].id
    <2>1. /\ i \in Ids /\ client[c].name \in Names /\ client[c].op = "create"
          /\ client' = [client EXCEPT ![c] = Resting]
      BY <1>4 DEF ImportNew, RegistryInv, ClientsTyped
    <2>2. CASE Insertable(i, client[c].name)
      <3>1. /\ Store(i, client[c].name, "disabled", 0) /\ ~Registered(i)
            /\ Named(client[c].name) \subseteq {i}
        BY <1>4, <2>2 DEF ImportNew, Insertable
      <3>2. RegistryShape' /\ RegistryKeys' /\ NoLostUpdate
        BY <1>e, <1>i, <2>1, <3>1
      <3>3. /\ workflows'[i].status = "disabled"
            /\ \A j \in Ids \ {i} : workflows'[j] = workflows[j]
        BY <1>e, <1>i, <2>1, <3>1
      <3>4. ImportKeepsStatus
        BY <1>h, <2>1, <3>1, <3>3
      <3> QED BY <1>b, <2>1, <3>2, <3>4 DEF RegistryInv
    <2>3. CASE ~Insertable(i, client[c].name)
      BY <1>4, <1>b, <1>c, <2>1, <2>3 DEF ImportNew, RegistryInv
    <2> QED BY <2>2, <2>3
  <1>5. ASSUME NEW c \in Clients, ImportReplacement(c)
        PROVE  RegistryInv' /\ NoLostUpdate /\ ImportKeepsStatus
    <2>1. /\ client[c].id \in Ids /\ client[c].name \in Names /\ client[c].op = "replace"
          /\ client' = [client EXCEPT ![c] = Resting] /\ client[c].revision \in 0 .. MaxSources
          /\ Replace(client[c].id, client[c].name, client[c].revision)
      BY <1>5 DEF ImportReplacement, RegistryInv, ClientsTyped
    <2> QED BY <1>b, <1>f, <1>h, <2>1 DEF RegistryInv
  <1>6. ASSUME NEW c \in Clients, NEW n \in Names, UpdateSource(c, n)
        PROVE  RegistryInv' /\ NoLostUpdate /\ ImportKeepsStatus
    <2>1. /\ client[c].id \in Ids /\ client[c].op = "seen"
          /\ client' = [client EXCEPT ![c] = Resting] /\ client[c].revision \in 0 .. MaxSources
          /\ Replace(client[c].id, n, client[c].revision)
      BY <1>6 DEF UpdateSource, RegistryInv, ClientsTyped
    <2> QED BY <1>b, <1>f, <1>g, <2>1 DEF RegistryInv
  <1>7. ASSUME NEW c \in Clients, NEW s \in Statuses, SetStatusIfRevision(c, s)
        PROVE  RegistryInv' /\ NoLostUpdate /\ ImportKeepsStatus
    <2>1. /\ client[c].id \in Ids /\ client[c].op = "seen"
          /\ client' = [client EXCEPT ![c] = Resting] /\ UNCHANGED <<stored, based>>
      BY <1>7 DEF SetStatusIfRevision, RegistryInv, ClientsTyped
    <2>2. CASE Unchanged(client[c].id, client[c].revision)
      <3>1. /\ Registered(client[c].id)
            /\ workflows' = [workflows EXCEPT ![client[c].id].status = s]
        BY <1>7, <2>2 DEF SetStatusIfRevision, Unchanged
      <3> QED BY <1>b, <1>d, <1>g, <2>1, <3>1 DEF RegistryInv
    <2>3. CASE ~Unchanged(client[c].id, client[c].revision)
      BY <1>7, <1>b, <1>c, <2>1, <2>3 DEF SetStatusIfRevision, RegistryInv
    <2> QED BY <2>2, <2>3
  <1>8. ASSUME NEW c \in Clients, BeginDiagnosis(c)
        PROVE  RegistryInv' /\ NoLostUpdate /\ ImportKeepsStatus
    <2> DEFINE rec == [Resting EXCEPT !.op = "probe", !.settings = profile.settings]
    <2>1. rec.revision = 0 /\ rec.op = "probe"
      BY DEF Resting
    <2>2. client' = [client EXCEPT ![c] = rec] /\ UNCHANGED <<workflows, stored, based>>
      BY <1>8 DEF BeginDiagnosis
    <2> HIDE DEF rec
    <2>3. ClientsTyped'
      BY <1>a, <1>i, <2>1, <2>2
    <2> QED BY <1>c, <2>2, <2>3 DEF RegistryInv
  <1>9. ASSUME NEW c \in Clients, Diagnose(c)
        PROVE  RegistryInv' /\ NoLostUpdate /\ ImportKeepsStatus
    BY <1>9, <1>b, <1>c DEF Diagnose, RegistryInv
  <1>10. ASSUME NEW i \in Ids, NEW s \in Statuses, SetStatus(i, s)
         PROVE  RegistryInv' /\ NoLostUpdate /\ ImportKeepsStatus
    <2>1. /\ Registered(i) /\ workflows' = [workflows EXCEPT ![i].status = s]
          /\ UNCHANGED <<stored, based, client>>
      BY <1>10 DEF SetStatus
    <2>2. RegistryShape' /\ RegistryKeys' /\ NoLostUpdate
      BY <1>d, <2>1
    <2>3. ImportKeepsStatus
      BY <1>0, <2>1 DEF ImportKeepsStatus
    <2> QED BY <2>1, <2>2, <2>3 DEF RegistryInv, ClientsTyped
  <1>11. CASE UNCHANGED <<workflows, stored, based, client>>
    BY <1>11, <1>c DEF RegistryInv, ClientsTyped
  <1>12. (\E s \in Settings : CreateProfile(s) \/ UpsertProfile(s)) \/ DeleteProfile =>
           UNCHANGED <<workflows, stored, based, client>>
    BY DEF CreateProfile, UpsertProfile, DeleteProfile
  <1>13. CASE UNCHANGED definitionVars
    BY <1>11, <1>13 DEF definitionVars
  <1> QED
    BY <1>1, <1>2, <1>3, <1>4, <1>5, <1>6, <1>7, <1>8, <1>9, <1>10, <1>11, <1>12, <1>13
       DEF DefinitionNext, Statuses

\* DefinitionsSound: whatever creations, imports, replacements and changes of
\* the status the clients interleave, no source is overwritten by an author
\* who has not seen it, an import enables nothing, and a name selects one
\* workflow.
THEOREM DefinitionsAreSound == DefinitionSpec => DefinitionsSound
  <1>1. DefinitionInit => RegistryInv
    BY DefinitionBounds
       DEF DefinitionInit, RegistryInv, RegistryShape, RegistryKeys, ClientsTyped, Registered,
           Resting
  <1>2. RegistryInv /\ [DefinitionNext]_definitionVars =>
          [/\ NoLostUpdate /\ ImportKeepsStatus
           /\ NamesUnique' /\ DefinitionTypeOK']_definitionVars
    <2>1. RegistryInv' => NamesUnique' /\ DefinitionTypeOK'
      BY KeysAreUnique, PTL
    <2> QED BY <2>1, RegistryStep
  <1>3. RegistryInv /\ [DefinitionNext]_definitionVars => RegistryInv'
    BY RegistryStep
  <1> QED BY <1>1, <1>2, <1>3, PTL DEF DefinitionSpec, DefinitionsSound

(***************************************************************************)
(* Initialization, migrations and the file of contexts.                    *)
(***************************************************************************)
File == [ids : SUBSET (Contexts \cup {Local}), active : Contexts \cup {Local, Free},
         revision : Nat]
ContextFiles == {f \in File : f.active \in f.ids \cup {Free}}
Database == [file : {"none", "empty", "schema"}, version : 0 .. Latest, issued : 0 .. 1]
OpeningPcs == {"inspect", "backup", "migrate", "step"}
AccessPcs == {"issue", "save", "verify", "contexts", "publish", "complete"}
CommandPcs == {"read", "compare", "write"}
Pcs == {"idle", "config", "create"} \cup OpeningPcs \cup AccessPcs \cup CommandPcs
Process == [pc : Pcs, fresh : BOOLEAN, opened : 0 .. Latest, at : 0 .. Latest,
            copy : ContextFiles, next : ContextFiles]

SetupShape ==
  /\ config \in BOOLEAN /\ db \in Database /\ keychain \in 0 .. db.issued
  /\ contexts \in ContextFiles /\ backups \subseteq Nat
  /\ proc \in [Processes -> Process]

\* Each kind of process has its steps, under its lock.
KnowsItsPlace(p) ==
  LET pc == proc[p].pc IN
  /\ p \in Inits => pc \in {"idle", "config", "create"} \cup OpeningPcs \cup AccessPcs
  /\ p \in Cores => pc \in {"idle"} \cup OpeningPcs
  /\ p \in Commands => pc \in {"idle"} \cup CommandPcs
  /\ p \in Inits /\ pc # "idle" => setupLock = p
  /\ p \in Commands /\ pc # "idle" => collectionLock = p

\* Contents that are to be migrated were backed up.
BackedUp(p) ==
  LET r == proc[p] IN
  /\ r.opened <= db.version
  /\ r.pc = "step" => r.opened <= r.at /\ r.at <= db.version
  /\ r.pc \in {"migrate", "step"} /\ r.opened > 0 =>
       r.opened = Latest \/ \E v \in backups : v <= db.version

\* An initialization has behind it what the steps before provide.
Prepared(p) ==
  LET pc == proc[p].pc IN
  p \in Inits =>
    /\ pc \in {"create"} \cup OpeningPcs \cup AccessPcs => config
    /\ pc \in AccessPcs => db.version = Latest
    /\ pc = "save" => db.issued = 1
    /\ pc \in {"contexts", "publish", "complete"} => keychain # 0

\* A command that is about to write has compared what it read, and only an
\* initialization can have come between.
UpToDate(p) ==
  p \in Commands /\ proc[p].pc = "write" /\ Local \notin contexts.ids =>
    contexts = proc[p].copy

InPlace(p) == KnowsItsPlace(p) /\ BackedUp(p) /\ Prepared(p) /\ UpToDate(p)
SetupInv == SetupShape /\ \A p \in Processes : InPlace(p)

\* What a step of process p may do to the others and to what they share.
GlobalShape ==
  /\ config \in BOOLEAN /\ db \in Database /\ keychain \in 0 .. db.issued
  /\ contexts \in ContextFiles /\ backups \subseteq Nat
StepOf(p) ==
  /\ proc' \in [Processes -> Process]
  /\ \A q \in Processes \ {p} :
       /\ proc'[q] = proc[q]
       /\ setupLock = q => setupLock' = q
       /\ collectionLock = q => collectionLock' = q
Grows ==
  /\ config => config'
  /\ db'.version = db.version \/ db'.version = db.version + 1
  /\ db.issued <= db'.issued /\ (keychain # 0 => keychain' = keychain)
  /\ backups \subseteq backups'
ContextsStep(p) ==
  \/ contexts' = contexts
  \/ p \in Inits /\ Local \in contexts'.ids
  \/ /\ p \in Commands /\ proc[p].pc = "write" /\ contexts' = proc[p].next
MigratesBackedUp(p) ==
  proc[p].opened > 0 /\ proc'[p].at = proc[p].at + 1 /\ proc[p].pc = "step" =>
    \E v \in backups : v <= db.version
CompletesPrepared(p) ==
  proc'[p].pc = "complete" /\ proc[p].pc # "complete" =>
    config /\ db.version = Latest /\ keychain # 0 /\ Local \in contexts'.ids
SetupStepSound == BackupFirst /\ MigratedInOrder /\ CompleteMeans /\ CommandsKeepContexts

LEMMA OneProcess ==
  ASSUME SetupInv, NEW p \in Processes, GlobalShape', StepOf(p), Grows, ContextsStep(p),
         MigratesBackedUp(p), CompletesPrepared(p), InPlace(p)'
  PROVE  SetupInv' /\ SetupStepSound
  <1> USE SetupAssumption
  <1>0. /\ db.version \in 0 .. Latest /\ db'.version \in 0 .. Latest
        /\ db.version <= db'.version /\ db.issued \in 0 .. 1 /\ db'.issued \in 0 .. 1
    BY DEF SetupInv, SetupShape, GlobalShape, Database, Grows
  <1>1. ASSUME NEW q \in Processes \ {p} PROVE InPlace(q)'
    <2>1. /\ proc'[q] = proc[q] /\ proc[q] \in Process
          /\ setupLock = q => setupLock' = q
          /\ collectionLock = q => collectionLock' = q
      BY DEF StepOf, SetupInv, SetupShape
    <2>2. InPlace(q)
      BY DEF SetupInv
    <2>3. KnowsItsPlace(q)'
      BY <2>1, <2>2 DEF InPlace, KnowsItsPlace
    <2>4. BackedUp(q)'
      <3>1. proc[q].opened \in 0 .. Latest /\ proc[q].at \in 0 .. Latest
        BY <2>1 DEF Process
      <3>2. \A v \in backups : v \in backups' /\ v \in Nat
        BY DEF Grows, SetupInv, SetupShape
      <3> QED BY <1>0, <2>1, <2>2, <3>1, <3>2 DEF InPlace, BackedUp
    <2>5. Prepared(q)'
      BY <1>0, <2>1, <2>2 DEF InPlace, Prepared, Grows
    <2>6. UpToDate(q)'
      <3> SUFFICES ASSUME q \in Commands, proc[q].pc = "write", Local \notin contexts'.ids
                   PROVE  contexts' = proc[q].copy
        BY <2>1 DEF UpToDate
      <3>1. collectionLock = q
        BY <2>2 DEF InPlace, KnowsItsPlace
      <3>2. ~(p \in Commands /\ proc[p].pc = "write")
        BY <3>1 DEF SetupInv, InPlace, KnowsItsPlace
      <3>3. contexts' = contexts
        BY <3>2 DEF ContextsStep
      <3> QED BY <2>2, <3>3 DEF InPlace, UpToDate
    <2> QED BY <2>3, <2>4, <2>5, <2>6 DEF InPlace
  <1>2. SetupInv'
    BY <1>1 DEF SetupInv, SetupShape, GlobalShape, StepOf
  <1>3. MigratedInOrder
    BY DEF MigratedInOrder, Grows
  <1>4. \A q \in Processes \ {p} : proc'[q] = proc[q] /\ proc[q].at \in 0 .. Latest
    BY DEF StepOf, SetupInv, SetupShape, Process
  <1>5. BackupFirst
    BY <1>4 DEF BackupFirst, MigratesBackedUp, Processes
  <1>6. CompleteMeans
    BY <1>4 DEF CompleteMeans, CompletesPrepared, Processes, Grows
  <1>7. CommandsKeepContexts
    <2> SUFFICES ASSUME NEW q \in Commands, proc[q].pc = "write", proc'[q].pc # "write",
                        contexts' # contexts, Local \notin contexts.ids
                 PROVE  contexts.ids \cap Contexts \subseteq
                          contexts'.ids \cup (proc[q].copy.ids \ proc[q].next.ids)
      BY DEF CommandsKeepContexts
    <2>1. q = p
      BY <1>4 DEF Processes
    <2>2. contexts' = proc[q].next
      BY <2>1 DEF ContextsStep
    <2>3. contexts = proc[q].copy
      BY <2>1 DEF SetupInv, InPlace, UpToDate
    <2> QED BY <2>2, <2>3
  <1> QED BY <1>2, <1>3, <1>5, <1>6, <1>7 DEF SetupStepSound

\* A process that gives up, ends or is killed.
LEMMA LeaveStep ==
  ASSUME SetupInv, NEW p \in Processes, Leave(p), GlobalShape', Grows, ContextsStep(p)
  PROVE  SetupInv' /\ SetupStepSound
  <1> USE SetupAssumption
  <1>0. NoFile \in ContextFiles
    BY DEF NoFile, ContextFiles, File
  <1>1. Quiet \in Process /\ Quiet.pc = "idle" /\ Quiet.opened = 0 /\ Quiet.at = 0
    BY <1>0 DEF Quiet, Process, Pcs
  <1>2. proc'[p] = Quiet /\ StepOf(p)
    BY <1>1 DEF Leave, SetupInv, SetupShape, StepOf
  <1>3. db'.version \in 0 .. Latest
    BY DEF GlobalShape, Database
  <1>4. InPlace(p)'
    BY <1>1, <1>2, <1>3 DEF InPlace, KnowsItsPlace, BackedUp, Prepared, UpToDate, OpeningPcs,
                            AccessPcs, CommandPcs
  <1>5. proc[p].at \in 0 .. Latest
    BY DEF SetupInv, SetupShape, Process
  <1>6. MigratesBackedUp(p) /\ CompletesPrepared(p)
    BY <1>1, <1>2, <1>5 DEF MigratesBackedUp, CompletesPrepared
  <1> QED BY <1>2, <1>4, <1>6, OneProcess

\* A process that goes on.
LEMMA GotoStep ==
  ASSUME SetupInv, NEW p \in Processes, NEW pc \in Pcs, Goto(p, pc),
         \A q \in Processes \ {p} : /\ setupLock = q => setupLock' = q
                                    /\ collectionLock = q => collectionLock' = q
  PROVE  /\ StepOf(p) /\ MigratesBackedUp(p)
         /\ proc'[p] = [proc[p] EXCEPT !.pc = pc]
         /\ proc'[p].pc = pc /\ proc'[p].opened = proc[p].opened
         /\ proc'[p].at = proc[p].at /\ proc'[p].fresh = proc[p].fresh
         /\ proc'[p].copy = proc[p].copy /\ proc'[p].next = proc[p].next
  <1>1. proc[p] \in Process
    BY DEF SetupInv, SetupShape
  <1>2. proc'[p] = [proc[p] EXCEPT !.pc = pc] /\ proc'[p] \in Process
    BY <1>1 DEF Goto, SetupInv, SetupShape, Process
  <1>3. StepOf(p)
    BY <1>2 DEF Goto, SetupInv, SetupShape, StepOf
  <1>4. /\ proc'[p].pc = pc /\ proc'[p].opened = proc[p].opened
        /\ proc'[p].at = proc[p].at /\ proc'[p].fresh = proc[p].fresh
        /\ proc'[p].copy = proc[p].copy /\ proc'[p].next = proc[p].next
    BY <1>1, <1>2 DEF Process
  <1>5. MigratesBackedUp(p)
    BY <1>1, <1>4 DEF MigratesBackedUp, Process
  <1> QED BY <1>2, <1>3, <1>4, <1>5

LEMMA SetupStep == SetupInv /\ [SetupNext]_setupVars => SetupInv' /\ [SetupStepSound]_setupVars
  <1> SUFFICES ASSUME SetupInv, [SetupNext]_setupVars
               PROVE  SetupInv' /\ [SetupStepSound]_setupVars
    OBVIOUS
  <1> USE SetupAssumption
  <1>0. GlobalShape /\ \A p \in Processes : proc[p] \in Process /\ InPlace(p)
    BY DEF SetupInv, SetupShape, GlobalShape
  <1>g. /\ db.version \in 0 .. Latest /\ db.issued \in 0 .. 1 /\ db \in Database
        /\ keychain \in 0 .. db.issued
    BY <1>0 DEF GlobalShape, Database
  <1>s. UNCHANGED <<config, db, keychain, contexts, backups>> => GlobalShape' /\ Grows
    BY <1>0, <1>g DEF GlobalShape, Grows, Database
  <1>p. Inits \subseteq Processes /\ Cores \subseteq Processes /\ Commands \subseteq Processes
    BY DEF Processes
  <1>q. /\ "config" \in Pcs /\ "create" \in Pcs /\ "inspect" \in Pcs /\ "backup" \in Pcs
        /\ "migrate" \in Pcs /\ "step" \in Pcs /\ "issue" \in Pcs /\ "save" \in Pcs
        /\ "verify" \in Pcs /\ "contexts" \in Pcs /\ "publish" \in Pcs /\ "complete" \in Pcs
        /\ "read" \in Pcs /\ "compare" \in Pcs /\ "write" \in Pcs
    BY DEF Pcs, OpeningPcs, AccessPcs, CommandPcs
  <1>1. ASSUME NEW p \in Inits, AcquireSetup(p) PROVE SetupInv' /\ SetupStepSound
    <2>1. /\ Goto(p, "config") /\ setupLock = Free /\ setupLock' = p /\ proc[p].pc = "idle"
          /\ UNCHANGED <<config, db, keychain, contexts, collectionLock, backups>>
      BY <1>1 DEF AcquireSetup
    <2>2. \A q \in Processes \ {p} : /\ setupLock = q => setupLock' = q
                                     /\ collectionLock = q => collectionLock' = q
      BY <2>1
    <2>3. /\ StepOf(p) /\ MigratesBackedUp(p) /\ proc'[p].pc = "config"
          /\ proc'[p].opened = proc[p].opened
      BY <1>p, <1>q, <2>1, <2>2, GotoStep
    <2>4. InPlace(p)'
      BY <1>0, <1>p, <2>1, <2>3
         DEF InPlace, KnowsItsPlace, BackedUp, Prepared, UpToDate, OpeningPcs, AccessPcs,
             CommandPcs
    <2> QED BY <1>p, <1>s, <2>1, <2>3, <2>4, OneProcess DEF ContextsStep, CompletesPrepared
  <1>2. ASSUME NEW p \in Inits, LoadOrCreateConfig(p) PROVE SetupInv' /\ SetupStepSound
    <2>1. /\ Goto(p, "create") /\ proc[p].pc = "config" /\ config' = TRUE
          /\ UNCHANGED <<db, keychain, contexts, setupLock, collectionLock, backups>>
      BY <1>2 DEF LoadOrCreateConfig
    <2>3. /\ StepOf(p) /\ MigratesBackedUp(p) /\ proc'[p].pc = "create"
          /\ proc'[p].opened = proc[p].opened
      BY <1>p, <1>q, <2>1, GotoStep
    <2>4. InPlace(p)'
      BY <1>0, <1>p, <2>1, <2>3
         DEF InPlace, KnowsItsPlace, BackedUp, Prepared, UpToDate, OpeningPcs, AccessPcs,
             CommandPcs
    <2>5. GlobalShape' /\ Grows
      BY <1>0, <1>g, <2>1 DEF GlobalShape, Grows
    <2> QED BY <1>p, <2>1, <2>3, <2>4, <2>5, OneProcess DEF ContextsStep, CompletesPrepared
  <1>3. ASSUME NEW p \in Inits, CreateDatabase(p) PROVE SetupInv' /\ SetupStepSound
    <2>0. /\ proc[p].pc = "create" /\ UNCHANGED <<config, keychain, contexts, backups>>
          /\ proc[p] \in Process
      BY <1>0, <1>3, <1>p DEF CreateDatabase
    <2>1. CASE db.file = "none"
      <3>1. /\ db' = [db EXCEPT !.file = "empty"] /\ UNCHANGED <<setupLock, collectionLock>>
            /\ proc' = [proc EXCEPT ![p].pc = "inspect", ![p].fresh = TRUE]
        BY <1>3, <2>1 DEF CreateDatabase
      <3>2. GlobalShape' /\ Grows /\ db'.version = db.version
        BY <1>0, <1>g, <2>0, <3>1 DEF GlobalShape, Grows, Database
      <3>3. /\ proc'[p] \in Process /\ proc'[p].pc = "inspect" /\ proc'[p].at = proc[p].at
            /\ proc'[p].opened = proc[p].opened
        BY <1>p, <1>q, <2>0, <3>1 DEF SetupInv, SetupShape, Process
      <3>4. StepOf(p)
        BY <1>p, <3>1, <3>3 DEF StepOf, SetupInv, SetupShape
      <3>5. InPlace(p)'
        BY <1>0, <1>p, <2>0, <3>1, <3>2, <3>3
           DEF InPlace, KnowsItsPlace, BackedUp, Prepared, UpToDate, OpeningPcs, AccessPcs,
             CommandPcs
      <3> QED BY <1>p, <2>0, <3>2, <3>3, <3>4, <3>5, OneProcess
              DEF ContextsStep, CompletesPrepared, MigratesBackedUp
    <2>2. CASE db.file # "none" /\ db.file = "schema" /\ db.version > 0
      <3>1. Goto(p, "inspect") /\ UNCHANGED <<db, setupLock, collectionLock>>
        BY <1>3, <2>2 DEF CreateDatabase
      <3>2. /\ StepOf(p) /\ MigratesBackedUp(p) /\ proc'[p].pc = "inspect"
            /\ proc'[p].opened = proc[p].opened
        BY <1>p, <1>q, <3>1, GotoStep
      <3>3. InPlace(p)'
        BY <1>0, <1>p, <2>0, <3>1, <3>2
           DEF InPlace, KnowsItsPlace, BackedUp, Prepared, UpToDate, OpeningPcs, AccessPcs,
             CommandPcs
      <3> QED BY <1>p, <1>s, <2>0, <3>1, <3>2, <3>3, OneProcess
              DEF ContextsStep, CompletesPrepared
    <2>3. CASE db.file # "none" /\ ~(db.file = "schema" /\ db.version > 0)
      <3>1. Leave(p) /\ UNCHANGED db
        BY <1>3, <2>3 DEF CreateDatabase
      <3> QED BY <1>p, <1>s, <2>0, <3>1, LeaveStep DEF ContextsStep
    <2> QED BY <2>1, <2>2, <2>3
  <1>4. ASSUME NEW p \in Inits, Issue(p) PROVE SetupInv' /\ SetupStepSound
    <2>0. proc[p].pc = "issue" /\ UNCHANGED <<config, keychain, contexts, backups>>
      BY <1>4 DEF Issue
    <2>1. CASE MayIssue(p)
      <3>1. /\ db' = [db EXCEPT !.issued = @ + 1] /\ Goto(p, "save")
            /\ UNCHANGED <<setupLock, collectionLock>> /\ db.issued = 0
        BY <1>4, <2>1 DEF Issue, MayIssue
      <3>2. /\ GlobalShape' /\ Grows /\ db'.version = db.version /\ db'.issued = 1
        BY <1>0, <1>g, <2>0, <3>1 DEF GlobalShape, Grows, Database
      <3>3. /\ StepOf(p) /\ MigratesBackedUp(p) /\ proc'[p].pc = "save"
            /\ proc'[p].opened = proc[p].opened
        BY <1>p, <1>q, <3>1, GotoStep
      <3>4. InPlace(p)'
        BY <1>0, <1>p, <2>0, <3>1, <3>2, <3>3
           DEF InPlace, KnowsItsPlace, BackedUp, Prepared, UpToDate, OpeningPcs, AccessPcs,
             CommandPcs
      <3> QED BY <1>p, <2>0, <3>2, <3>3, <3>4, OneProcess DEF ContextsStep, CompletesPrepared
    <2>2. CASE ~MayIssue(p) /\ proc[p].fresh
      <3>1. Leave(p) /\ UNCHANGED db
        BY <1>4, <2>2 DEF Issue
      <3> QED BY <1>p, <1>s, <2>0, <3>1, LeaveStep DEF ContextsStep
    <2>3. CASE ~MayIssue(p) /\ ~proc[p].fresh
      <3>1. Goto(p, "verify") /\ UNCHANGED <<db, setupLock, collectionLock>>
        BY <1>4, <2>3 DEF Issue
      <3>2. /\ StepOf(p) /\ MigratesBackedUp(p) /\ proc'[p].pc = "verify"
            /\ proc'[p].opened = proc[p].opened
        BY <1>p, <1>q, <3>1, GotoStep
      <3>3. InPlace(p)'
        BY <1>0, <1>p, <2>0, <3>1, <3>2
           DEF InPlace, KnowsItsPlace, BackedUp, Prepared, UpToDate, OpeningPcs, AccessPcs,
             CommandPcs
      <3> QED BY <1>p, <1>s, <2>0, <3>1, <3>2, <3>3, OneProcess
              DEF ContextsStep, CompletesPrepared
    <2> QED BY <2>1, <2>2, <2>3
  <1>5. ASSUME NEW p \in Inits, SaveCredential(p) PROVE SetupInv' /\ SetupStepSound
    <2>0. /\ proc[p].pc = "save" /\ UNCHANGED <<config, db, contexts, backups>>
          /\ db.issued = 1
      BY <1>0, <1>5, <1>p DEF SaveCredential, InPlace, Prepared
    <2>1. CASE /\ keychain' = db.issued /\ Goto(p, "verify")
               /\ UNCHANGED <<setupLock, collectionLock>>
      <3>1. GlobalShape' /\ Grows
        BY <1>0, <1>g, <2>0, <2>1 DEF GlobalShape, Grows
      <3>2. /\ StepOf(p) /\ MigratesBackedUp(p) /\ proc'[p].pc = "verify"
            /\ proc'[p].opened = proc[p].opened
        BY <1>p, <1>q, <2>1, GotoStep
      <3>3. InPlace(p)'
        BY <1>0, <1>p, <2>0, <2>1, <3>2
           DEF InPlace, KnowsItsPlace, BackedUp, Prepared, UpToDate, OpeningPcs, AccessPcs,
             CommandPcs
      <3> QED BY <1>p, <2>0, <3>1, <3>2, <3>3, OneProcess DEF ContextsStep, CompletesPrepared
    <2>2. CASE Leave(p) /\ UNCHANGED keychain
      BY <1>p, <1>s, <2>0, <2>2, LeaveStep DEF ContextsStep
    <2> QED BY <1>5, <2>1, <2>2 DEF SaveCredential
  <1>6. ASSUME NEW p \in Inits, Verify(p) PROVE SetupInv' /\ SetupStepSound
    <2>0. proc[p].pc = "verify" /\ UNCHANGED <<config, db, keychain, contexts, backups>>
      BY <1>6 DEF Verify
    <2>1. CASE keychain \in 1 .. db.issued
      <3>1. /\ Goto(p, "contexts") /\ UNCHANGED <<setupLock, collectionLock>> /\ keychain # 0
        BY <1>6, <1>g, <2>1 DEF Verify
      <3>2. /\ StepOf(p) /\ MigratesBackedUp(p) /\ proc'[p].pc = "contexts"
            /\ proc'[p].opened = proc[p].opened
        BY <1>p, <1>q, <3>1, GotoStep
      <3>3. InPlace(p)'
        BY <1>0, <1>p, <2>0, <3>1, <3>2
           DEF InPlace, KnowsItsPlace, BackedUp, Prepared, UpToDate, OpeningPcs, AccessPcs,
             CommandPcs
      <3> QED BY <1>p, <1>s, <2>0, <3>2, <3>3, OneProcess DEF ContextsStep, CompletesPrepared
    <2>2. CASE keychain \notin 1 .. db.issued
      BY <1>6, <1>p, <1>s, <2>0, <2>2, LeaveStep DEF Verify, ContextsStep
    <2> QED BY <2>1, <2>2
  <1>7. ASSUME NEW p \in Inits, ReadContexts(p) PROVE SetupInv' /\ SetupStepSound
    <2> DEFINE pc == IF Local \in contexts.ids THEN "complete" ELSE "publish"
    <2>0. /\ proc[p].pc = "contexts"
          /\ proc' = [proc EXCEPT ![p].copy = contexts, ![p].pc = pc]
          /\ UNCHANGED <<config, db, keychain, contexts, setupLock, collectionLock, backups>>
      BY <1>7 DEF ReadContexts
    <2>1. pc \in {"complete", "publish"} /\ (pc = "complete" => Local \in contexts.ids)
      OBVIOUS
    <2> HIDE DEF pc
    <2>2. /\ proc'[p] \in Process /\ proc'[p].pc = pc /\ proc'[p].at = proc[p].at
          /\ proc'[p].opened = proc[p].opened
      BY <1>0, <1>p, <1>q, <2>0, <2>1 DEF SetupInv, SetupShape, GlobalShape, Process
    <2>3. StepOf(p)
      BY <1>p, <2>0, <2>2 DEF StepOf, SetupInv, SetupShape
    <2>4. InPlace(p)'
      BY <1>0, <1>p, <2>0, <2>1, <2>2
         DEF InPlace, KnowsItsPlace, BackedUp, Prepared, UpToDate, OpeningPcs, AccessPcs,
             CommandPcs
    <2>5. CompletesPrepared(p)
      BY <1>0, <1>p, <2>0, <2>1, <2>2
         DEF CompletesPrepared, InPlace, Prepared, OpeningPcs, AccessPcs, CommandPcs
    <2> QED BY <1>p, <1>s, <2>0, <2>3, <2>4, <2>5, OneProcess DEF ContextsStep, MigratesBackedUp
  <1>8. ASSUME NEW p \in Inits, PublishLocal(p) PROVE SetupInv' /\ SetupStepSound
    <2> DEFINE copy == proc[p].copy
    <2>0. proc[p].pc = "publish" /\ UNCHANGED <<config, db, keychain, backups>>
      BY <1>8 DEF PublishLocal
    <2>1. CASE copy.revision = 0 /\ contexts.revision # 0
      <3>1. Leave(p) /\ UNCHANGED contexts
        BY <1>8, <2>1 DEF PublishLocal
      <3> QED BY <1>p, <1>s, <2>0, <3>1, LeaveStep DEF ContextsStep
    <2>2. CASE ~(copy.revision = 0 /\ contexts.revision # 0)
      <3>1. /\ contexts' = [ids |-> copy.ids \cup {Local},
                            active |-> IF copy.active = Free THEN Local ELSE copy.active,
                            revision |-> Max2(copy.revision, 1)]
            /\ Goto(p, "complete") /\ UNCHANGED <<setupLock, collectionLock>>
        BY <1>8, <2>2 DEF PublishLocal
      <3>2. contexts' \in ContextFiles /\ Local \in contexts'.ids
        <4>1. copy \in ContextFiles
          BY <1>0, <1>p DEF Process
        <4> HIDE DEF copy
        <4>2. /\ copy.ids \in SUBSET (Contexts \cup {Local})
              /\ copy.active \in copy.ids \cup {Free}
              /\ Max2(copy.revision, 1) \in Nat
          BY <4>1 DEF ContextFiles, File, Max2
        <4> QED BY <3>1, <4>2 DEF ContextFiles, File
      <3>3. GlobalShape' /\ Grows
        BY <1>0, <1>g, <2>0, <3>2 DEF GlobalShape, Grows
      <3>4. /\ StepOf(p) /\ MigratesBackedUp(p) /\ proc'[p].pc = "complete"
            /\ proc'[p].opened = proc[p].opened
        BY <1>p, <1>q, <3>1, GotoStep
      <3>5. InPlace(p)'
        BY <1>0, <1>p, <2>0, <3>1, <3>4
           DEF InPlace, KnowsItsPlace, BackedUp, Prepared, UpToDate, OpeningPcs, AccessPcs,
             CommandPcs
      <3>6. CompletesPrepared(p)
        BY <1>0, <1>p, <2>0, <3>2
           DEF CompletesPrepared, InPlace, Prepared, OpeningPcs, AccessPcs, CommandPcs
      <3> QED BY <1>p, <3>2, <3>3, <3>4, <3>5, <3>6, OneProcess DEF ContextsStep
    <2> QED BY <2>1, <2>2
  <1>9. ASSUME NEW p \in Inits, Report(p) PROVE SetupInv' /\ SetupStepSound
    BY <1>9, <1>p, <1>s, LeaveStep DEF Report, ContextsStep
  <1>10. ASSUME NEW p \in Cores, OpenStore(p) PROVE SetupInv' /\ SetupStepSound
    <2>0. /\ proc[p].pc = "idle" /\ Goto(p, "inspect")
          /\ UNCHANGED <<config, db, keychain, contexts, setupLock, collectionLock, backups>>
      BY <1>10 DEF OpenStore
    <2>1. /\ StepOf(p) /\ MigratesBackedUp(p) /\ proc'[p].pc = "inspect"
          /\ proc'[p].opened = proc[p].opened
      BY <1>p, <1>q, <2>0, GotoStep
    <2>2. InPlace(p)'
      BY <1>0, <1>p, <2>0, <2>1
         DEF InPlace, KnowsItsPlace, BackedUp, Prepared, UpToDate, OpeningPcs, AccessPcs,
             CommandPcs
    <2> QED BY <1>p, <1>s, <2>0, <2>1, <2>2, OneProcess DEF ContextsStep, CompletesPrepared
  <1>11. ASSUME NEW p \in Inits \cup Cores, Inspect(p) PROVE SetupInv' /\ SetupStepSound
    <2> DEFINE pc == IF db.version \in 1 .. Latest - 1 THEN "backup" ELSE "migrate"
    <2>0. /\ proc[p].pc = "inspect"
          /\ proc' = [proc EXCEPT ![p].opened = db.version, ![p].pc = pc]
          /\ UNCHANGED <<config, db, keychain, contexts, setupLock, collectionLock, backups>>
      BY <1>11 DEF Inspect
    <2>1. pc \in {"backup", "migrate"} /\ (pc = "migrate" => db.version \in {0, Latest})
      BY <1>g
    <2> HIDE DEF pc
    <2>2. /\ proc'[p] \in Process /\ proc'[p].pc = pc /\ proc'[p].at = proc[p].at
          /\ proc'[p].opened = db.version
      BY <1>0, <1>g, <1>p, <1>q, <2>0, <2>1 DEF SetupInv, SetupShape, Process
    <2>3. StepOf(p)
      BY <1>p, <2>0, <2>2 DEF StepOf, SetupInv, SetupShape
    <2>4. InPlace(p)'
      BY <1>0, <1>g, <1>p, <2>0, <2>1, <2>2
         DEF InPlace, KnowsItsPlace, BackedUp, Prepared, UpToDate, OpeningPcs, AccessPcs,
             CommandPcs
    <2> QED BY <1>p, <1>s, <2>0, <2>1, <2>2, <2>3, <2>4, OneProcess
            DEF ContextsStep, MigratesBackedUp, CompletesPrepared
  <1>12. ASSUME NEW p \in Inits \cup Cores, Backup(p) PROVE SetupInv' /\ SetupStepSound
    <2>0. proc[p].pc = "backup" /\ UNCHANGED <<config, db, keychain, contexts>>
      BY <1>12 DEF Backup
    <2>1. CASE /\ backups' = backups \cup {db.version} /\ Goto(p, "migrate")
               /\ UNCHANGED <<setupLock, collectionLock>>
      <3>0. db.version \in Nat
        BY <1>g
      <3>a. backups' \subseteq Nat /\ backups \subseteq backups'
        BY <1>0, <2>1, <3>0 DEF GlobalShape
      <3>b. GlobalShape'
        BY <1>0, <2>0, <3>a DEF GlobalShape
      <3>1. GlobalShape' /\ Grows
        BY <1>g, <2>0, <3>a, <3>b DEF Grows
      <3>2. /\ StepOf(p) /\ MigratesBackedUp(p) /\ proc'[p].pc = "migrate"
            /\ proc'[p].opened = proc[p].opened
        BY <1>p, <1>q, <2>1, GotoStep
      <3>3. InPlace(p)'
        BY <1>0, <1>g, <1>p, <2>0, <2>1, <3>2
           DEF InPlace, KnowsItsPlace, BackedUp, Prepared, UpToDate, OpeningPcs, AccessPcs,
             CommandPcs
      <3> QED BY <1>p, <2>0, <3>1, <3>2, <3>3, OneProcess DEF ContextsStep, CompletesPrepared
    <2>2. CASE Leave(p) /\ UNCHANGED backups
      BY <1>p, <1>s, <2>0, <2>2, LeaveStep DEF ContextsStep
    <2> QED BY <1>12, <2>1, <2>2 DEF Backup
  <1>13. ASSUME NEW p \in Inits \cup Cores, ReadVersion(p) PROVE SetupInv' /\ SetupStepSound
    <2>0. /\ proc[p].pc = "migrate"
          /\ proc' = [proc EXCEPT ![p].pc = "step", ![p].at = db.version]
          /\ UNCHANGED <<config, db, keychain, contexts, setupLock, collectionLock, backups>>
      BY <1>13 DEF ReadVersion
    <2>2. /\ proc'[p] \in Process /\ proc'[p].pc = "step" /\ proc'[p].at = db.version
          /\ proc'[p].opened = proc[p].opened
      BY <1>0, <1>g, <1>p, <1>q, <2>0 DEF SetupInv, SetupShape, Process
    <2>3. StepOf(p)
      BY <1>p, <2>0, <2>2 DEF StepOf, SetupInv, SetupShape
    <2>4. InPlace(p)'
      BY <1>0, <1>g, <1>p, <2>0, <2>2
         DEF InPlace, KnowsItsPlace, BackedUp, Prepared, UpToDate, OpeningPcs, AccessPcs,
             CommandPcs
    <2> QED BY <1>p, <1>s, <2>0, <2>2, <2>3, <2>4, OneProcess
            DEF ContextsStep, MigratesBackedUp, CompletesPrepared
  <1>14. ASSUME NEW p \in Inits \cup Cores, MigrateStep(p) PROVE SetupInv' /\ SetupStepSound
    <2>0. /\ proc[p].pc = "step" /\ proc[p].at < Latest /\ proc[p] \in Process
          /\ UNCHANGED <<config, keychain, contexts, backups>>
      BY <1>0, <1>14, <1>p DEF MigrateStep
    <2>1. CASE db.version = proc[p].at
      <3>1. /\ db' = [db EXCEPT !.file = "schema", !.version = @ + 1]
            /\ proc' = [proc EXCEPT ![p].at = @ + 1] /\ UNCHANGED <<setupLock, collectionLock>>
        BY <1>14, <2>1 DEF MigrateStep
      <3>0. db.version + 1 \in 0 .. Latest
        BY <1>g, <2>0, <2>1
      <3>a. /\ db' \in Database /\ db'.version = db.version + 1 /\ db'.issued = db.issued
        BY <1>g, <3>0, <3>1 DEF Database
      <3>2. GlobalShape' /\ Grows /\ db'.version = db.version + 1 /\ db'.issued = db.issued
        BY <1>0, <1>g, <2>0, <3>a DEF GlobalShape, Grows
      <3>3. /\ proc'[p] \in Process /\ proc'[p].pc = "step" /\ proc'[p].at = proc[p].at + 1
            /\ proc'[p].opened = proc[p].opened
        BY <1>g, <1>p, <1>q, <2>0, <2>1, <3>1 DEF SetupInv, SetupShape, Process
      <3>4. StepOf(p)
        BY <1>p, <3>1, <3>3 DEF StepOf, SetupInv, SetupShape
      <3>5. /\ proc[p].opened \in Nat /\ proc[p].opened <= proc[p].at
            /\ proc[p].opened > 0 => \E v \in backups : v <= db.version
            /\ backups \subseteq Nat
        BY <1>0, <1>p, <2>0, <2>1 DEF InPlace, BackedUp, Process, GlobalShape
      <3>6. BackedUp(p)'
        BY <1>g, <2>0, <2>1, <3>2, <3>3, <3>5 DEF BackedUp
      <3>7. KnowsItsPlace(p)' /\ Prepared(p)' /\ UpToDate(p)'
        BY <1>0, <1>p, <2>0, <3>1, <3>3
           DEF InPlace, KnowsItsPlace, Prepared, UpToDate, OpeningPcs, AccessPcs, CommandPcs
      <3> QED BY <1>p, <2>0, <3>2, <3>3, <3>4, <3>5, <3>6, <3>7, OneProcess
              DEF ContextsStep, MigratesBackedUp, CompletesPrepared, InPlace
    <2>2. CASE db.version # proc[p].at
      <3>1. Leave(p) /\ UNCHANGED db
        BY <1>14, <2>2 DEF MigrateStep
      <3> QED BY <1>p, <1>s, <2>0, <3>1, LeaveStep DEF ContextsStep
    <2> QED BY <2>1, <2>2
  <1>15. ASSUME NEW p \in Inits \cup Cores, Opened(p) PROVE SetupInv' /\ SetupStepSound
    <2>0. /\ proc[p].pc = "step" /\ proc[p].at >= Latest /\ proc[p] \in Process
          /\ UNCHANGED <<config, db, keychain, contexts, backups>>
      BY <1>0, <1>15, <1>p DEF Opened
    <2>1. CASE p \in Inits
      <3>1. Goto(p, "issue") /\ UNCHANGED <<setupLock, collectionLock>>
        BY <1>15, <2>1 DEF Opened
      <3>2. /\ StepOf(p) /\ MigratesBackedUp(p) /\ proc'[p].pc = "issue"
            /\ proc'[p].opened = proc[p].opened
        BY <1>p, <1>q, <3>1, GotoStep
      <3>3. db.version = Latest
        BY <1>0, <1>g, <1>p, <2>0 DEF InPlace, BackedUp, Process
      <3>4. InPlace(p)'
        BY <1>0, <1>p, <2>0, <2>1, <3>1, <3>2, <3>3
           DEF InPlace, KnowsItsPlace, BackedUp, Prepared, UpToDate, OpeningPcs, AccessPcs,
             CommandPcs
      <3> QED BY <1>p, <1>s, <2>0, <3>2, <3>4, OneProcess DEF ContextsStep, CompletesPrepared
    <2>2. CASE p \notin Inits
      BY <1>15, <1>p, <1>s, <2>0, <2>2, LeaveStep DEF Opened, ContextsStep
    <2> QED BY <2>1, <2>2
  <1>16. ASSUME NEW p \in Commands, LockCollection(p) PROVE SetupInv' /\ SetupStepSound
    <2>1. /\ Goto(p, "read") /\ collectionLock = Free /\ collectionLock' = p
          /\ UNCHANGED <<config, db, keychain, contexts, setupLock, backups>>
      BY <1>16 DEF LockCollection
    <2>2. \A q \in Processes \ {p} : /\ setupLock = q => setupLock' = q
                                     /\ collectionLock = q => collectionLock' = q
      BY <2>1
    <2>3. /\ StepOf(p) /\ MigratesBackedUp(p) /\ proc'[p].pc = "read"
          /\ proc'[p].opened = proc[p].opened
      BY <1>p, <1>q, <2>1, <2>2, GotoStep
    <2>4. InPlace(p)'
      BY <1>0, <1>p, <2>1, <2>3
         DEF InPlace, KnowsItsPlace, BackedUp, Prepared, UpToDate, OpeningPcs, AccessPcs,
             CommandPcs
    <2> QED BY <1>p, <1>s, <2>1, <2>3, <2>4, OneProcess DEF ContextsStep, CompletesPrepared
  <1>17. ASSUME NEW p \in Commands, ReadCollection(p) PROVE SetupInv' /\ SetupStepSound
    <2>0. proc[p].pc = "read" /\ UNCHANGED <<config, db, keychain, contexts, backups>>
      BY <1>17 DEF ReadCollection
    <2>1. ASSUME NEW x \in Contexts \cup {Local}, NEW op \in {"add", "use", "remove"},
                 (x \in contexts.ids) = (op # "add"),
                 proc' = [proc EXCEPT ![p].pc = "compare", ![p].copy = contexts,
                   ![p].next = [(IF op = "add" THEN Added(contexts, x)
                                 ELSE IF op = "use" THEN Used(contexts, x)
                                 ELSE Removed(contexts, x))
                                EXCEPT !.revision = @ + 1]],
                 UNCHANGED <<setupLock, collectionLock>>
          PROVE  SetupInv' /\ SetupStepSound
      <3> DEFINE changed == IF op = "add" THEN Added(contexts, x)
                            ELSE IF op = "use" THEN Used(contexts, x)
                            ELSE Removed(contexts, x)
                 next == [changed EXCEPT !.revision = @ + 1]
      <3>1. contexts \in File /\ contexts.active \in contexts.ids \cup {Free}
        BY <1>0 DEF GlobalShape, ContextFiles
      <3>2. /\ Added(contexts, x) \in ContextFiles
        BY <3>1 DEF Added, File, ContextFiles
      <3>3. x \in contexts.ids => Used(contexts, x) \in ContextFiles
        BY <3>1 DEF Used, File, ContextFiles
      <3>4. Removed(contexts, x) \in ContextFiles
        BY <3>1 DEF Removed, File, ContextFiles
      <3>5. changed \in ContextFiles
        BY <2>1, <3>2, <3>3, <3>4
      <3> HIDE DEF changed
      <3>6. next \in ContextFiles
        BY <3>5 DEF ContextFiles, File
      <3>7. proc' = [proc EXCEPT ![p].pc = "compare", ![p].copy = contexts, ![p].next = next]
        BY <2>1 DEF changed
      <3> HIDE DEF next
      <3>8. /\ proc'[p] \in Process /\ proc'[p].pc = "compare"
            /\ proc'[p].opened = proc[p].opened /\ proc'[p].at = proc[p].at
        BY <1>0, <1>p, <1>q, <3>6, <3>7 DEF SetupInv, SetupShape, GlobalShape, Process
      <3>9. StepOf(p)
        BY <1>p, <2>1, <3>7, <3>8 DEF StepOf, SetupInv, SetupShape
      <3>10. InPlace(p)'
        BY <1>0, <1>p, <2>0, <2>1, <3>8
           DEF InPlace, KnowsItsPlace, BackedUp, Prepared, UpToDate, OpeningPcs, AccessPcs,
             CommandPcs
      <3> QED BY <1>p, <1>s, <2>0, <3>8, <3>9, <3>10, OneProcess
              DEF ContextsStep, MigratesBackedUp, CompletesPrepared
    <2>2. CASE Leave(p)
      BY <1>p, <1>s, <2>0, <2>2, LeaveStep DEF ContextsStep
    <2> QED BY <1>17, <2>1, <2>2 DEF ReadCollection
  <1>18. ASSUME NEW p \in Commands, Compare(p) PROVE SetupInv' /\ SetupStepSound
    <2>0. proc[p].pc = "compare" /\ UNCHANGED <<config, db, keychain, contexts, backups>>
      BY <1>18 DEF Compare
    <2>1. CASE contexts = proc[p].copy
      <3>1. Goto(p, "write") /\ UNCHANGED <<setupLock, collectionLock>>
        BY <1>18, <2>1 DEF Compare
      <3>2. /\ StepOf(p) /\ MigratesBackedUp(p) /\ proc'[p].pc = "write"
            /\ proc'[p].opened = proc[p].opened /\ proc'[p].copy = proc[p].copy
        BY <1>p, <1>q, <3>1, GotoStep
      <3>3. InPlace(p)'
        BY <1>0, <1>p, <2>0, <2>1, <3>1, <3>2
           DEF InPlace, KnowsItsPlace, BackedUp, Prepared, UpToDate, OpeningPcs, AccessPcs,
             CommandPcs
      <3> QED BY <1>p, <1>s, <2>0, <3>2, <3>3, OneProcess DEF ContextsStep, CompletesPrepared
    <2>2. CASE contexts # proc[p].copy
      BY <1>18, <1>p, <1>s, <2>0, <2>2, LeaveStep DEF Compare, ContextsStep
    <2> QED BY <2>1, <2>2
  <1>19. ASSUME NEW p \in Commands, AtomicWrite(p) PROVE SetupInv' /\ SetupStepSound
    <2>1. /\ proc[p].pc = "write" /\ Leave(p) /\ UNCHANGED <<config, db, keychain, backups>>
          /\ contexts' = contexts \/ contexts' = proc[p].next
      BY <1>19 DEF AtomicWrite
    <2>2. contexts' \in ContextFiles
      BY <1>0, <1>p, <2>1 DEF GlobalShape, Process
    <2>3. GlobalShape' /\ Grows
      BY <1>0, <1>g, <2>1, <2>2 DEF GlobalShape, Grows
    <2> QED BY <1>p, <2>1, <2>3, LeaveStep DEF ContextsStep
  <1>20. ASSUME NEW p \in Processes, Kill(p) PROVE SetupInv' /\ SetupStepSound
    BY <1>20, <1>s, LeaveStep DEF Kill, ContextsStep
  <1>21. CASE UNCHANGED setupVars
    BY <1>21 DEF setupVars, SetupInv, SetupShape, InPlace, KnowsItsPlace, BackedUp, Prepared,
                 UpToDate
  <1> QED
    BY <1>1, <1>2, <1>3, <1>4, <1>5, <1>6, <1>7, <1>8, <1>9, <1>10, <1>11, <1>12, <1>13, <1>14,
       <1>15, <1>16, <1>17, <1>18, <1>19, <1>20, <1>21 DEF SetupNext

\* SetupSound, with any number of initializations, Cores and commands that
\* may be killed at any step: migrations follow a backup and each other,
\* success means that configuration, store, credential and local context are
\* there, and commands lose no context while no initialization adds its own.
THEOREM SetupIsSound == SetupSpec => SetupSound
  <1> USE SetupAssumption
  <1>1. SetupInit => SetupInv
    <2> SUFFICES ASSUME SetupInit PROVE SetupInv
      OBVIOUS
    <2>1. NoFile \in ContextFiles
      BY DEF NoFile, ContextFiles, File
    <2>2. Quiet \in Process /\ Quiet.pc = "idle" /\ Quiet.opened = 0
      BY <2>1 DEF Quiet, Process, Pcs
    <2>3. db \in Database
      BY DEF SetupInit, Database
    <2>4. SetupShape
      <3>1. proc \in [Processes -> Process]
        BY <2>2 DEF SetupInit
      <3>2. 0 \in 0 .. db.issued
        BY <2>3 DEF Database
      <3> QED BY <2>1, <2>3, <3>1, <3>2 DEF SetupInit, SetupShape
    <2>5. \A p \in Processes : InPlace(p)
      BY <2>2, <2>3
         DEF SetupInit, InPlace, KnowsItsPlace, BackedUp, Prepared, UpToDate, Database,
             OpeningPcs, AccessPcs, CommandPcs
    <2> QED BY <2>4, <2>5 DEF SetupInv
  <1>2. SetupInv => SetupTypeOK
    BY DEF SetupInv, SetupShape, SetupTypeOK, Database, ContextFiles, InPlace, KnowsItsPlace,
           Processes
  <1>3. SetupInv /\ [SetupNext]_setupVars =>
          [/\ SetupTypeOK'
           /\ BackupFirst /\ MigratedInOrder
           /\ CompleteMeans /\ CommandsKeepContexts]_setupVars
    <2>1. SetupInv' => SetupTypeOK'
      BY <1>2, PTL
    <2> QED BY <2>1, SetupStep DEF SetupStepSound
  <1>4. SetupInv /\ [SetupNext]_setupVars => SetupInv'
    BY SetupStep
  <1> QED BY <1>1, <1>3, <1>4, PTL DEF SetupSpec, SetupSound

(***************************************************************************)
(* Agents and the trace of the AI nodes.                                   *)
(***************************************************************************)
AskingPcs == {"open", "send", "wait", "answered"}
RestingPcs == {"idle", "retry", "failed"}
BetweenPcs == {"round", "reply", "tools", "tool", "done"}
Turn == [pc : AskingPcs \cup RestingPcs \cup BetweenPcs, attempt : Nat, round : Nat,
         tools : Nat, reply : Replies \cup {<<>>}, left : Seq(ToolUses), held : Nat,
         fresh : BOOLEAN, ran : Seq(Tools)]

ProviderShape ==
  /\ turn \in [AiNodes -> Turn]
  /\ spans \in [AiNodes -> [running : Int, finished : Nat]]
  /\ recorded \in [AiNodes -> Nat]
  /\ run \in [state : {"running", "ended"}, stop : BOOLEAN, restarts : Nat]
  /\ login \in [stored : Nat, issued : Nat]

RanCount(n) == Len(turn[n].ran)
LeftCount(n) == Len(turn[n].left)

\* The calls of a reply are counted before the first of them runs, so those
\* that ran and those to come are within the limit at every step.
WithinLimits(n) ==
  LET t == turn[n] IN
  /\ JobOf(n).kind = "agent" => t.round <= MaxModelCalls
  /\ RanCount(n) + LeftCount(n) <= t.tools /\ t.tools <= MaxToolCalls
  /\ t.pc \in {"tools", "tool"} => JobOf(n).kind = "agent"
  /\ t.pc = "tool" => t.left # <<>>
  /\ t.pc \in {"answered", "reply"} => t.reply \in Replies

\* A request is counted as a round when it is reserved, and recorded when it is
\* answered.
Recorded(n) ==
  LET t == turn[n] IN
  /\ t.pc \notin RestingPcs => spans[n].finished = recorded[n]
  /\ JobOf(n).kind = "exec" =>
       /\ t.pc \in {"round"} \cup AskingPcs => recorded[n] = 0
       /\ t.pc \in {"reply", "done"} => recorded[n] = 1
  /\ JobOf(n).kind # "exec" =>
       /\ t.pc \in BetweenPcs => recorded[n] = t.round
       /\ t.pc \in AskingPcs => recorded[n] + 1 = t.round

ResultFits(n) ==
  turn[n].pc = "done" /\ JobOf(n).kind = "agent" =>
    \/ ToolCallsFrom(turn[n].reply) = <<"submit">>
    \/ ToolCallsFrom(turn[n].reply) = <<>> /\ Texts(turn[n].reply) = <<"value">>

InTurn(n) == WithinLimits(n) /\ Recorded(n) /\ ResultFits(n)
ProviderInv ==
  /\ ProviderShape
  /\ \A n \in AiNodes : InTurn(n)
  /\ run.state = "ended" => \A n \in AiNodes : spans[n].running = 0

OthersKeep(n) ==
  \A m \in AiNodes \ {n} :
    turn'[m] = turn[m] /\ spans'[m] = spans[m] /\ recorded'[m] = recorded[m]

LEMMA NodeFrame ==
  ASSUME ProviderInv, NEW n \in AiNodes, UNCHANGED job, run'.state = "running",
         ProviderShape', OthersKeep(n), InTurn(n)'
  PROVE  ProviderInv'
  <1>1. AiNodes' = AiNodes /\ \A m : JobOf(m)' = JobOf(m)
    BY DEF AiNodes, JobOf
  <1>2. ASSUME NEW m \in AiNodes \ {n} PROVE InTurn(m)'
    <2>1. /\ InTurn(m) /\ turn'[m] = turn[m] /\ spans'[m] = spans[m]
          /\ recorded'[m] = recorded[m] /\ JobOf(m)' = JobOf(m)
      BY <1>1 DEF ProviderInv, OthersKeep
    <2> QED BY <2>1 DEF InTurn, WithinLimits, RanCount, LeftCount, Recorded, ResultFits
  <1> QED BY <1>1, <1>2 DEF ProviderInv

LEMMA WaitingTurn ==
  /\ Waiting \in Turn /\ Waiting.round = 0 /\ Waiting.tools = 0 /\ Waiting.pc = "idle"
  /\ Waiting.ran = <<>> /\ Waiting.left = <<>>
  <1>1. <<>> \in Seq(ToolUses) /\ <<>> \in Seq(Tools)
    BY EmptySeq
  <1> QED BY <1>1 DEF Waiting, Turn, RestingPcs

LEMMA FailFacts ==
  ASSUME ProviderInv, NEW n \in AiNodes, Fail(n), run.state = "running", UNCHANGED job
  PROVE  /\ turn' \in [AiNodes -> Turn] /\ \A m \in AiNodes \ {n} : turn'[m] = turn[m]
         /\ run' \in [state : {"running", "ended"}, stop : BOOLEAN, restarts : Nat]
         /\ run'.state = "running" /\ InTurn(n)'
  <1>0. /\ turn \in [AiNodes -> Turn] /\ turn[n] \in Turn /\ turn[n].attempt \in Nat
        /\ run \in [state : {"running", "ended"}, stop : BOOLEAN, restarts : Nat]
    BY DEF ProviderInv, ProviderShape, Turn
  <1>1. AiNodes' = AiNodes
    BY DEF AiNodes
  <1>3. CASE ~Stopped /\ turn[n].attempt < MaxAttempts
    <2>1. /\ turn' = [turn EXCEPT ![n] = [Waiting EXCEPT !.pc = "retry",
                                                        !.attempt = turn[n].attempt]]
          /\ run' = run
      BY <1>3 DEF Fail
    <2>2. /\ turn'[n] = [Waiting EXCEPT !.pc = "retry", !.attempt = turn[n].attempt]
          /\ \A m \in AiNodes \ {n} : turn'[m] = turn[m]
      BY <1>0, <2>1
    <2>3. /\ turn'[n] \in Turn /\ turn'[n].pc = "retry" /\ turn'[n].round = 0
          /\ turn'[n].tools = 0 /\ turn'[n].ran = <<>> /\ turn'[n].left = <<>>
      BY <1>0, <2>2, WaitingTurn DEF Turn, RestingPcs
    <2>4. InTurn(n)'
      <3>1. RanCount(n)' = 0 /\ LeftCount(n)' = 0
        BY <2>3 DEF RanCount, LeftCount
      <3>2. MaxModelCalls \in Nat /\ MaxToolCalls \in Nat
        BY ProviderBounds
      <3> QED BY <2>3, <3>1, <3>2
              DEF InTurn, WithinLimits, Recorded, ResultFits, RestingPcs, AskingPcs, BetweenPcs
    <2> QED BY <1>0, <2>1, <2>2, <2>3, <2>4
  <1>4. CASE ~(~Stopped /\ turn[n].attempt < MaxAttempts)
    <2>1. /\ turn' = [turn EXCEPT ![n] = [Waiting EXCEPT !.pc = "failed"]]
          /\ run' = [run EXCEPT !.stop = TRUE]
      BY <1>4 DEF Fail
    <2>2. /\ turn'[n] = [Waiting EXCEPT !.pc = "failed"]
          /\ \A m \in AiNodes \ {n} : turn'[m] = turn[m]
      BY <1>0, <2>1
    <2>3. /\ turn'[n] \in Turn /\ turn'[n].pc = "failed" /\ turn'[n].round = 0
          /\ turn'[n].tools = 0 /\ turn'[n].ran = <<>> /\ turn'[n].left = <<>>
      BY <1>0, <2>2, WaitingTurn DEF Turn, RestingPcs
    <2>4. InTurn(n)'
      <3>1. RanCount(n)' = 0 /\ LeftCount(n)' = 0
        BY <2>3 DEF RanCount, LeftCount
      <3>2. MaxModelCalls \in Nat /\ MaxToolCalls \in Nat
        BY ProviderBounds
      <3> QED BY <2>3, <3>1, <3>2
              DEF InTurn, WithinLimits, Recorded, ResultFits, RestingPcs, AskingPcs, BetweenPcs
    <2> QED BY <1>0, <2>1, <2>2, <2>3, <2>4
  <1> QED BY <1>3, <1>4

\* A node that fails at a step that changes no other node's trace.
LEMMA FailStep ==
  ASSUME ProviderInv, NEW n \in AiNodes, Fail(n), run.state = "running", UNCHANGED job,
         spans' \in [AiNodes -> [running : Int, finished : Nat]],
         recorded' \in [AiNodes -> Nat], login' \in [stored : Nat, issued : Nat],
         \A m \in AiNodes \ {n} : spans'[m] = spans[m] /\ recorded'[m] = recorded[m]
  PROVE  ProviderInv'
  <1>1. AiNodes' = AiNodes
    BY DEF AiNodes
  <1>2. ProviderShape' /\ OthersKeep(n)
    BY <1>1, FailFacts DEF ProviderShape, OthersKeep
  <1> QED BY <1>2, FailFacts, NodeFrame

LEMMA PlainFail ==
  ASSUME ProviderInv, NEW n \in AiNodes, Fail(n), run.state = "running",
         UNCHANGED <<job, spans, recorded, login>>
  PROVE  ProviderInv'
  BY FailStep DEF ProviderInv, ProviderShape

\* A node that goes on with its trace as it is, or changed at this node.
LEMMA GoOn ==
  ASSUME ProviderInv, NEW n \in AiNodes, run.state = "running", UNCHANGED <<job, run>>,
         NEW t \in Turn, turn' = [turn EXCEPT ![n] = t],
         spans' \in [AiNodes -> [running : Int, finished : Nat]],
         recorded' \in [AiNodes -> Nat], login' \in [stored : Nat, issued : Nat],
         \A m \in AiNodes \ {n} : spans'[m] = spans[m] /\ recorded'[m] = recorded[m],
         InTurn(n)'
  PROVE  ProviderInv'
  <1>1. AiNodes' = AiNodes
    BY DEF AiNodes
  <1>2. ProviderShape' /\ OthersKeep(n)
    BY <1>1 DEF ProviderInv, ProviderShape, OthersKeep
  <1> QED BY <1>2, NodeFrame

LEMMA EndStep ==
  ASSUME ProviderInv, NEW n \in AiNodes, run.state = "running", turn[n].pc = "reply",
         NEW ok \in BOOLEAN, End(n, ok), UNCHANGED <<job, spans, recorded, login>>,
         ok /\ JobOf(n).kind = "agent" =>
           \/ ToolCallsFrom(turn[n].reply) = <<"submit">>
           \/ ToolCallsFrom(turn[n].reply) = <<>> /\ Texts(turn[n].reply) = <<"value">>
  PROVE  ProviderInv'
  <1>1. CASE ~ok
    BY <1>1, PlainFail DEF End
  <1>2. CASE ok
    <2> DEFINE t == [turn[n] EXCEPT !.pc = "done", !.held = 0, !.fresh = FALSE]
    <2>0. /\ turn \in [AiNodes -> Turn] /\ turn[n] \in Turn /\ InTurn(n)
          /\ AiNodes' = AiNodes /\ JobOf(n)' = JobOf(n)
      BY DEF ProviderInv, ProviderShape, AiNodes, JobOf
    <2>1. turn' = [turn EXCEPT ![n] = t] /\ UNCHANGED run
      BY <1>2, <2>0 DEF End, Succeed
    <2>2. /\ t \in Turn /\ t.pc = "done" /\ t.round = turn[n].round /\ t.tools = turn[n].tools
          /\ t.ran = turn[n].ran /\ t.left = turn[n].left /\ t.reply = turn[n].reply
      BY <2>0 DEF Turn, BetweenPcs
    <2>3. turn'[n] = t
      BY <2>0, <2>1
    <2> HIDE DEF t
    <2>4. InTurn(n)'
      <3>1. WithinLimits(n)'
        BY <2>0, <2>2, <2>3 DEF InTurn, WithinLimits, RanCount, LeftCount
      <3>2. Recorded(n)'
        BY <2>0, <2>2, <2>3 DEF InTurn, Recorded, RestingPcs, AskingPcs, BetweenPcs
      <3>3. ResultFits(n)'
        BY <1>2, <2>0, <2>2, <2>3 DEF ResultFits
      <3> QED BY <3>1, <3>2, <3>3 DEF InTurn
    <2> QED BY <2>1, <2>2, <2>4, GoOn DEF ProviderInv, ProviderShape
  <1> QED BY <1>1, <1>2

LEMMA NodeStepInTurn ==
  ASSUME ProviderInv, NEW n \in AiNodes, NodeStep(n)
  PROVE  ProviderInv'
  <1>n. MaxModelCalls \in Nat /\ MaxToolCalls \in Nat
    BY ProviderBounds
  <1>0. /\ turn \in [AiNodes -> Turn] /\ turn[n] \in Turn /\ InTurn(n)
        /\ AiNodes' = AiNodes /\ JobOf(n)' = JobOf(n)
        /\ NodeStep(n) => UNCHANGED job
    BY DEF ProviderInv, ProviderShape, AiNodes, JobOf, NodeStep, BeginAttempt, Request,
           OpenRequest, RefreshTokens, SendRequest, AnswerRequest, StopRequest, Receive,
           UseReply, AgentReply, StartTool, EndTool, NextRound
  <1>a. /\ spans \in [AiNodes -> [running : Int, finished : Nat]]
        /\ recorded \in [AiNodes -> Nat] /\ login \in [stored : Nat, issued : Nat]
    BY DEF ProviderInv, ProviderShape
  <1>g. turn[n].ran \in Seq(Tools) /\ turn[n].left \in Seq(ToolUses)
    BY <1>0 DEF Turn
  <1>b. /\ turn[n].round \in Nat /\ turn[n].tools \in Nat /\ recorded[n] \in Nat
        /\ turn[n].attempt \in Nat /\ spans[n].running \in Int /\ spans[n].finished \in Nat
        /\ login.issued \in Nat
    BY <1>0, <1>a DEF Turn
  <1>e. RanCount(n) \in Nat /\ LeftCount(n) \in Nat
    BY <1>g DEF RanCount, LeftCount
  <1>f. ASSUME turn'[n].ran = turn[n].ran, turn'[n].left = turn[n].left
        PROVE  RanCount(n)' = RanCount(n) /\ LeftCount(n)' = LeftCount(n)
    BY <1>f DEF RanCount, LeftCount
  <1>d. /\ turn[n].attempt + 1 \in Nat /\ turn[n].round + 1 \in Nat
        /\ recorded[n] + 1 \in Nat
        /\ login.issued + 1 \in Nat /\ spans[n].finished + 1 \in Nat
        /\ spans[n].finished + 0 = spans[n].finished
        /\ spans[n].running + 1 \in Int /\ spans[n].running - 1 \in Int
    BY <1>b
  \* A step to another point of the attempt, its trace as it was.
  <1>c. ASSUME run.state = "running", UNCHANGED <<run, spans, recorded>>,
               login' \in [stored : Nat, issued : Nat],
               NEW t \in Turn, turn' = [turn EXCEPT ![n] = t], t.pc # "done",
               WithinLimits(n)', Recorded(n)'
        PROVE  ProviderInv'
    <2>1. turn'[n] = t
      BY <1>0, <1>c
    <2>2. ResultFits(n)'
      BY <1>c, <2>1 DEF ResultFits
    <2> QED BY <1>0, <1>a, <1>c, <2>2, GoOn DEF InTurn
  <1>1. CASE BeginAttempt(n)
    <2>0. run.state = "running" /\ UNCHANGED <<job, login>>
      BY <1>1 DEF BeginAttempt
    <2>1. CASE Stopped
      BY <1>1, <2>0, <2>1, PlainFail DEF BeginAttempt
    <2>2. CASE ~Stopped
      <3> DEFINE t == [Waiting EXCEPT !.pc = "round", !.attempt = turn[n].attempt + 1]
      <3>1. /\ turn' = [turn EXCEPT ![n] = t] /\ recorded' = [recorded EXCEPT ![n] = 0]
            /\ spans' = [spans EXCEPT ![n].finished = 0] /\ UNCHANGED run
        BY <1>1, <2>2 DEF BeginAttempt
      <3>2. /\ t \in Turn /\ t.pc = "round" /\ t.round = 0 /\ t.tools = 0 /\ t.ran = <<>>
            /\ t.left = <<>>
        BY <1>d, WaitingTurn DEF Turn, BetweenPcs
      <3> HIDE DEF t
      <3>3. turn'[n] = t /\ recorded'[n] = 0 /\ spans'[n].finished = 0
        BY <1>0, <1>a, <3>1
      <3>4. /\ spans' \in [AiNodes -> [running : Int, finished : Nat]]
            /\ recorded' \in [AiNodes -> Nat]
            /\ \A m \in AiNodes \ {n} : spans'[m] = spans[m] /\ recorded'[m] = recorded[m]
        BY <1>a, <3>1
      <3>5. InTurn(n)'
        <4>1. RanCount(n)' = 0 /\ LeftCount(n)' = 0
          BY <3>2, <3>3 DEF RanCount, LeftCount
        <4> QED BY <1>0, <1>n, <3>2, <3>3, <4>1
           DEF InTurn, WithinLimits, Recorded, ResultFits, RestingPcs, AskingPcs, BetweenPcs
      <3> QED BY <1>a, <2>0, <3>1, <3>2, <3>4, <3>5, GoOn
    <2> QED BY <2>1, <2>2
  <1>2. CASE Request(n)
    <2>0. /\ run.state = "running" /\ turn[n].pc = "round"
          /\ UNCHANGED <<job, spans, recorded, login>>
      BY <1>2 DEF Request
    <2>1. CASE Fail(n)
      BY <2>0, <2>1, PlainFail
    <2> DEFINE w == JobOf(n)
    <2>2. CASE w.kind = "exec" /\ Move(n, "open") /\ UNCHANGED run
      <3> DEFINE t == [turn[n] EXCEPT !.pc = "open"]
      <3>1. turn' = [turn EXCEPT ![n] = t]
        BY <2>2, <1>0 DEF Move
      <3>2. /\ t \in Turn /\ t.pc = "open" /\ t.round = turn[n].round
            /\ t.tools = turn[n].tools /\ t.ran = turn[n].ran /\ t.left = turn[n].left
        BY <1>0 DEF Turn, AskingPcs
      <3> HIDE DEF t
      <3>3. turn'[n] = t
        BY <1>0, <3>1
      <3>4. WithinLimits(n)' /\ Recorded(n)'
        BY <1>0, <1>f, <2>0, <2>2, <3>2, <3>3
           DEF InTurn, WithinLimits, Recorded, RestingPcs, AskingPcs, BetweenPcs
      <3> QED BY <1>a, <1>c, <2>0, <2>2, <3>1, <3>2, <3>4
    <2>3. CASE /\ w.kind # "exec" /\ (w.kind = "agent" => turn[n].round < MaxModelCalls)
               /\ turn' = [turn EXCEPT ![n].pc = "open", ![n].round = @ + 1] /\ UNCHANGED run
      <3> DEFINE t == [turn[n] EXCEPT !.pc = "open", !.round = @ + 1]
      <3>1. turn' = [turn EXCEPT ![n] = t]
        BY <2>3, <1>0
      <3>2. /\ t \in Turn /\ t.pc = "open" /\ t.round = turn[n].round + 1
            /\ t.tools = turn[n].tools /\ t.ran = turn[n].ran /\ t.left = turn[n].left
        BY <1>0, <1>d DEF Turn, AskingPcs
      <3> HIDE DEF t
      <3>3. turn'[n] = t
        BY <1>0, <3>1
      <3>4. WithinLimits(n)'
        BY <1>0, <1>b, <1>f, <1>n, <2>0, <2>3, <3>2, <3>3 DEF InTurn, WithinLimits
      <3>5. Recorded(n)'
        BY <1>0, <1>b, <2>0, <2>3, <3>2, <3>3
           DEF InTurn, Recorded, RestingPcs, AskingPcs, BetweenPcs
      <3> QED BY <1>a, <1>c, <2>0, <2>3, <3>1, <3>2, <3>4, <3>5
    <2>4. w.kind = "agent" => turn[n].round <= MaxModelCalls
      BY <1>0 DEF InTurn, WithinLimits
    <2>5. CASE w.kind = "agent" /\ turn[n].round = MaxModelCalls
      <3>0. ~(turn[n].round < MaxModelCalls) /\ w.kind # "exec"
        BY <1>n, <2>5
      <3>1. Fail(n)
        BY <1>2, <2>5, <3>0 DEF Request
      <3> QED BY <2>1, <3>1
    <2>6. CASE w.kind = "exec"
      <3>1. Move(n, "open") /\ UNCHANGED run
        BY <1>2, <2>6 DEF Request
      <3> QED BY <2>2, <2>6, <3>1
    <2>7. CASE w.kind # "exec" /\ (w.kind = "agent" => turn[n].round < MaxModelCalls)
      <3>1. Fail(n) \/ ReserveProviderTokens(n, w.profile, w.tokens)
        BY <1>2, <1>b, <2>7 DEF Request
      <3> QED BY <2>1, <2>3, <2>7, <3>1 DEF ReserveProviderTokens
    <2> QED BY <1>b, <1>n, <2>4, <2>5, <2>6, <2>7
  <1>3. CASE OpenRequest(n)
    <2>0. /\ run.state = "running" /\ turn[n].pc = "open" /\ UNCHANGED <<job, recorded, login>>
      BY <1>3 DEF OpenRequest
    <2>1. CASE Fail(n) /\ UNCHANGED spans
      BY <2>0, <2>1, PlainFail
    <2>2. CASE /\ StartTraceSpan(n)
               /\ turn' = [turn EXCEPT ![n].pc = "send", ![n].held = login.stored,
                                       ![n].fresh = FALSE]
               /\ UNCHANGED run
      <3> DEFINE t == [turn[n] EXCEPT !.pc = "send", !.held = login.stored, !.fresh = FALSE]
      <3>1. turn' = [turn EXCEPT ![n] = t]
        BY <2>2, <1>0
      <3>2. /\ t \in Turn /\ t.pc = "send" /\ t.round = turn[n].round
            /\ t.tools = turn[n].tools /\ t.ran = turn[n].ran /\ t.left = turn[n].left
        BY <1>0, <1>a DEF Turn, AskingPcs
      <3> HIDE DEF t
      <3>3. turn'[n] = t
        BY <1>0, <3>1
      <3>4. /\ spans' \in [AiNodes -> [running : Int, finished : Nat]]
            /\ spans'[n].finished = spans[n].finished
            /\ \A m \in AiNodes \ {n} : spans'[m] = spans[m] /\ recorded'[m] = recorded[m]
        BY <1>a, <1>d, <2>0, <2>2 DEF StartTraceSpan
      <3>5. InTurn(n)'
        BY <1>0, <1>f, <2>0, <3>2, <3>3, <3>4
           DEF InTurn, WithinLimits, Recorded, ResultFits, RestingPcs, AskingPcs, BetweenPcs
      <3> QED BY <1>a, <2>0, <2>2, <3>1, <3>2, <3>4, <3>5, GoOn
    <2> QED BY <1>3, <2>1, <2>2 DEF OpenRequest
  <1>4. CASE RefreshTokens(n)
    <2>0. /\ run.state = "running" /\ turn[n].pc = "send" /\ UNCHANGED <<job, spans, recorded>>
      BY <1>4 DEF RefreshTokens
    <2>1. CASE Fail(n) /\ UNCHANGED login
      BY <2>0, <2>1, PlainFail
    <2>2. CASE /\ login' = [login EXCEPT !.issued = @ + 1]
               /\ turn' = [turn EXCEPT ![n].held = login.issued + 1, ![n].fresh = TRUE]
               /\ UNCHANGED run
      <3> DEFINE t == [turn[n] EXCEPT !.held = login.issued + 1, !.fresh = TRUE]
      <3>1. turn' = [turn EXCEPT ![n] = t] /\ login' \in [stored : Nat, issued : Nat]
        BY <1>0, <1>a, <1>d, <2>2
      <3>2. /\ t \in Turn /\ t.pc = "send" /\ t.round = turn[n].round
            /\ t.tools = turn[n].tools /\ t.ran = turn[n].ran /\ t.left = turn[n].left
        BY <1>0, <1>d, <2>0 DEF Turn
      <3> HIDE DEF t
      <3>3. turn'[n] = t
        BY <1>0, <3>1
      <3>4. WithinLimits(n)' /\ Recorded(n)'
        BY <1>0, <1>f, <2>0, <3>2, <3>3
           DEF InTurn, WithinLimits, Recorded, RestingPcs, AskingPcs, BetweenPcs
      <3> QED BY <1>c, <2>0, <2>2, <3>1, <3>2, <3>4
    <2> QED BY <1>4, <2>1, <2>2 DEF RefreshTokens
  <1>5. CASE SendRequest(n)
    <2> DEFINE t == [turn[n] EXCEPT !.pc = "wait"]
    <2>0. /\ run.state = "running" /\ turn[n].pc = "send"
          /\ UNCHANGED <<job, run, spans, recorded, login>>
      BY <1>5 DEF SendRequest
    <2>1. turn' = [turn EXCEPT ![n] = t]
      BY <1>5, <1>0 DEF SendRequest, Move
    <2>2. /\ t \in Turn /\ t.pc = "wait" /\ t.round = turn[n].round
          /\ t.tools = turn[n].tools /\ t.ran = turn[n].ran /\ t.left = turn[n].left
      BY <1>0 DEF Turn, AskingPcs
    <2> HIDE DEF t
    <2>3. turn'[n] = t
      BY <1>0, <2>1
    <2>4. WithinLimits(n)' /\ Recorded(n)'
      BY <1>0, <1>f, <2>0, <2>2, <2>3
         DEF InTurn, WithinLimits, Recorded, RestingPcs, AskingPcs, BetweenPcs
    <2> QED BY <1>a, <1>c, <2>0, <2>1, <2>2, <2>4
  <1>6. CASE AnswerRequest(n)
    <2>0. /\ run.state = "running" /\ turn[n].pc = "wait"
          /\ UNCHANGED <<job, spans, recorded, login>>
      BY <1>6 DEF AnswerRequest
    <2>1. CASE Fail(n)
      BY <2>0, <2>1, PlainFail
    <2>2. ASSUME NEW reply \in Replies, UNCHANGED run,
                 turn' = [turn EXCEPT ![n].pc = "answered", ![n].reply = reply]
          PROVE  ProviderInv'
      <3> DEFINE t == [turn[n] EXCEPT !.pc = "answered", !.reply = reply]
      <3>1. turn' = [turn EXCEPT ![n] = t]
        BY <2>2, <1>0
      <3>2. /\ t \in Turn /\ t.pc = "answered" /\ t.round = turn[n].round /\ t.reply \in Replies
            /\ t.tools = turn[n].tools /\ t.ran = turn[n].ran /\ t.left = turn[n].left
        BY <1>0 DEF Turn, AskingPcs
      <3> HIDE DEF t
      <3>3. turn'[n] = t
        BY <1>0, <3>1
      <3>4. WithinLimits(n)' /\ Recorded(n)'
        BY <1>0, <1>f, <2>0, <3>2, <3>3
           DEF InTurn, WithinLimits, Recorded, RestingPcs, AskingPcs, BetweenPcs
      <3> QED BY <1>a, <1>c, <2>0, <2>2, <3>1, <3>2, <3>4
    <2> QED BY <1>6, <2>1, <2>2 DEF AnswerRequest
  <1>7. CASE StopRequest(n)
    BY <1>7, PlainFail DEF StopRequest
  <1>8. CASE Receive(n)
    <2>0. /\ run.state = "running" /\ turn[n].pc = "answered" /\ UNCHANGED job
          /\ login' = IF turn[n].fresh THEN [login EXCEPT !.stored = turn[n].held] ELSE login
      BY <1>8 DEF Receive
    <2>1. login' \in [stored : Nat, issued : Nat]
      BY <1>0, <1>a, <2>0 DEF Turn
    <2>2. CASE Stopped
      BY <1>8, <1>a, <2>0, <2>1, <2>2, FailStep DEF Receive
    <2>3. CASE ~Stopped
      <3> DEFINE t == [turn[n] EXCEPT !.pc = "reply"]
      <3>1. /\ turn' = [turn EXCEPT ![n] = t] /\ recorded' = [recorded EXCEPT ![n] = @ + 1]
            /\ FinishTraceSpan(n, 1) /\ UNCHANGED run
        BY <1>8, <2>3, <1>0 DEF Receive, Move
      <3>2. /\ t \in Turn /\ t.pc = "reply" /\ t.round = turn[n].round
            /\ t.reply = turn[n].reply
            /\ t.tools = turn[n].tools /\ t.ran = turn[n].ran /\ t.left = turn[n].left
        BY <1>0 DEF Turn, BetweenPcs
      <3> HIDE DEF t
      <3>3. turn'[n] = t
        BY <1>0, <3>1
      <3>4. /\ recorded' \in [AiNodes -> Nat] /\ recorded'[n] = recorded[n] + 1
            /\ \A m \in AiNodes \ {n} : recorded'[m] = recorded[m]
        BY <1>a, <3>1
      <3>5. /\ spans' \in [AiNodes -> [running : Int, finished : Nat]]
            /\ spans'[n].finished = spans[n].finished + 1
            /\ \A m \in AiNodes \ {n} : spans'[m] = spans[m]
        BY <1>a, <1>d, <3>1 DEF FinishTraceSpan
      <3>6. InTurn(n)'
        <4>1. WithinLimits(n)'
          BY <1>0, <1>f, <2>0, <3>2, <3>3 DEF InTurn, WithinLimits
        <4>2. Recorded(n)'
          BY <1>0, <1>b, <2>0, <3>2, <3>3, <3>4, <3>5
             DEF InTurn, Recorded, RestingPcs, AskingPcs, BetweenPcs
        <4> QED BY <3>2, <3>3, <4>1, <4>2 DEF InTurn, ResultFits
      <3> QED BY <2>0, <2>1, <3>1, <3>2, <3>4, <3>5, <3>6, GoOn
    <2> QED BY <2>2, <2>3
  <1>9. CASE UseReply(n)
    <2>0. /\ run.state = "running" /\ turn[n].pc = "reply"
          /\ UNCHANGED <<job, spans, recorded, login>>
      BY <1>9 DEF UseReply
    <2>1. \E ok \in BOOLEAN : End(n, ok) /\ JobOf(n).kind # "agent"
      BY <1>9 DEF UseReply, EndExec, EndMessages, EndGenerate, EndExtract, ValidateSchema
    <2> QED BY <2>0, <2>1, EndStep
  <1>10. CASE AgentReply(n)
    <2> DEFINE calls == ToolCallsFrom(turn[n].reply)
               structured == ValidateSchema(StructuredValue(turn[n].reply))
    <2>0. /\ run.state = "running" /\ turn[n].pc = "reply" /\ JobOf(n).kind = "agent"
          /\ UNCHANGED <<job, spans, recorded, login>>
      BY <1>10 DEF AgentReply
    <2>1. \/ Fail(n)
          \/ \E small \in BOOLEAN : End(n, calls = <<"submit">> /\ small)
          \/ calls = <<>> /\ \E small \in BOOLEAN : End(n, structured /\ small)
          \/ /\ WithinLimit(n, calls) /\ UNCHANGED run
             /\ turn' = [turn EXCEPT ![n].pc = "tools", ![n].left = calls,
                                     ![n].tools = @ + Len(calls)]
      BY <1>10 DEF AgentReply
    <2>2. calls = <<>> /\ structured => Texts(turn[n].reply) = <<"value">>
      BY DEF ValidateSchema, StructuredValue, ResponseText
    <2>3. structured \in BOOLEAN
      BY DEF ValidateSchema
    <2>4. calls \in Seq(ToolUses) /\ Len(calls) \in Nat
      BY <1>0, <2>0, RepliesAssumption DEF InTurn, WithinLimits
    <2> HIDE DEF calls, structured
    <2>5. CASE Fail(n)
      BY <2>0, <2>5, PlainFail
    <2>6. ASSUME NEW small \in BOOLEAN, End(n, calls = <<"submit">> /\ small)
          PROVE  ProviderInv'
      BY <2>0, <2>6, EndStep DEF calls
    <2>7. ASSUME calls = <<>>, NEW small \in BOOLEAN, End(n, structured /\ small)
          PROVE  ProviderInv'
      <3>1. (structured /\ small) \in BOOLEAN
        BY <2>3
      <3> QED BY <2>0, <2>2, <2>7, <3>1, EndStep DEF calls
    <2>8. ASSUME WithinLimit(n, calls), UNCHANGED run,
                 turn' = [turn EXCEPT ![n].pc = "tools", ![n].left = calls,
                                      ![n].tools = @ + Len(calls)]
          PROVE  ProviderInv'
      <3> DEFINE t == [turn[n] EXCEPT !.pc = "tools", !.left = calls, !.tools = @ + Len(calls)]
      <3>1. turn' = [turn EXCEPT ![n] = t]
        BY <2>8, <1>0
      <3>2. /\ t \in Turn /\ t.pc = "tools" /\ t.round = turn[n].round
            /\ t.tools = turn[n].tools + Len(calls) /\ t.ran = turn[n].ran /\ t.left = calls
        <4>1. turn[n].tools + Len(calls) \in Nat
          BY <1>b, <2>4
        <4> QED BY <1>0, <2>4, <4>1 DEF Turn, BetweenPcs
      <3> HIDE DEF t
      <3>3. turn'[n] = t
        BY <1>0, <3>1
      <3>4. RanCount(n) <= turn[n].tools
        BY <1>0, <1>b, <1>e DEF InTurn, WithinLimits
      <3>a. RanCount(n)' = RanCount(n) /\ LeftCount(n)' = Len(calls)
        BY <3>2, <3>3 DEF RanCount, LeftCount
      <3>b. /\ RanCount(n)' + LeftCount(n)' <= turn'[n].tools
            /\ turn'[n].tools <= MaxToolCalls
        <4>1. turn[n].tools + Len(calls) <= MaxToolCalls
          BY <2>8 DEF WithinLimit
        <4> HIDE DEF calls
        <4> QED BY <1>b, <1>e, <1>n, <2>4, <3>2, <3>3, <3>4, <3>a, <4>1
      <3>5. WithinLimits(n)'
        BY <1>0, <3>b, <1>b, <1>n, <2>0, <2>4, <2>8, <3>2, <3>3, <3>4
           DEF InTurn, WithinLimits, WithinLimit
      <3>6. Recorded(n)'
        BY <1>0, <2>0, <3>2, <3>3
           DEF InTurn, Recorded, RestingPcs, AskingPcs, BetweenPcs
      <3> QED BY <1>a, <1>c, <2>0, <2>8, <3>1, <3>2, <3>5, <3>6
    <2> QED BY <2>1, <2>5, <2>6, <2>7, <2>8
  <1>11. CASE StartTool(n)
    <2> DEFINE t == [turn[n] EXCEPT !.pc = "tool"]
    <2>0. /\ run.state = "running" /\ turn[n].pc = "tools" /\ turn[n].left # <<>>
          /\ StartTraceSpan(n) /\ UNCHANGED <<job, run, recorded, login>>
      BY <1>11 DEF StartTool
    <2>1. turn' = [turn EXCEPT ![n] = t]
      BY <1>11, <1>0 DEF StartTool
    <2>2. /\ t \in Turn /\ t.pc = "tool" /\ t.round = turn[n].round
          /\ t.tools = turn[n].tools /\ t.ran = turn[n].ran /\ t.left = turn[n].left
      BY <1>0 DEF Turn, BetweenPcs
    <2> HIDE DEF t
    <2>3. turn'[n] = t
      BY <1>0, <2>1
    <2>4. /\ spans' \in [AiNodes -> [running : Int, finished : Nat]]
          /\ spans'[n].finished = spans[n].finished
          /\ \A m \in AiNodes \ {n} : spans'[m] = spans[m] /\ recorded'[m] = recorded[m]
      BY <1>a, <1>d, <2>0 DEF StartTraceSpan
    <2>5. InTurn(n)'
      BY <1>0, <1>f, <2>0, <2>2, <2>3, <2>4
         DEF InTurn, WithinLimits, Recorded, ResultFits, RestingPcs, AskingPcs, BetweenPcs
    <2> QED BY <1>a, <2>0, <2>1, <2>2, <2>4, <2>5, GoOn
  <1>12. CASE EndTool(n)
    <2> DEFINE name == Head(turn[n].left)
    <2>0. /\ run.state = "running" /\ turn[n].pc = "tool" /\ UNCHANGED <<job, recorded, login>>
          /\ FinishTraceSpan(n, 0)
      BY <1>12 DEF EndTool
    <2>1. /\ spans' \in [AiNodes -> [running : Int, finished : Nat]]
          /\ spans'[n].finished = spans[n].finished
          /\ \A m \in AiNodes \ {n} : spans'[m] = spans[m] /\ recorded'[m] = recorded[m]
      BY <1>a, <1>d, <2>0 DEF FinishTraceSpan
    <2>2. CASE Fail(n)
      BY <1>a, <2>0, <2>1, <2>2, FailStep
    <2>3. CASE /\ ExecuteAgentTool(name) /\ UNCHANGED run
               /\ turn' = [turn EXCEPT ![n].pc = "tools", ![n].left = Tail(@),
                                       ![n].ran = Append(@, name)]
      <3> DEFINE t == [turn[n] EXCEPT !.pc = "tools", !.left = Tail(@), !.ran = Append(@, name)]
      <3>1. turn' = [turn EXCEPT ![n] = t]
        BY <2>3, <1>0
      <3>2. turn[n].left # <<>> /\ JobOf(n).kind = "agent"
        BY <1>0, <2>0 DEF InTurn, WithinLimits
      <3>3. /\ Tail(turn[n].left) \in Seq(ToolUses) /\ Append(turn[n].ran, name) \in Seq(Tools)
            /\ Len(Tail(turn[n].left)) = Len(turn[n].left) - 1
            /\ Len(Append(turn[n].ran, name)) = Len(turn[n].ran) + 1
        BY <1>g, <2>3, <3>2, HeadTailProperties, AppendProperties DEF ExecuteAgentTool
      <3>4. /\ t \in Turn /\ t.pc = "tools" /\ t.round = turn[n].round
            /\ t.tools = turn[n].tools
        BY <1>0, <3>3 DEF Turn, BetweenPcs
      <3>b. Len(t.ran) = Len(turn[n].ran) + 1 /\ Len(t.left) = Len(turn[n].left) - 1
        BY <1>0, <3>3 DEF Turn
      <3> HIDE DEF t
      <3>5. turn'[n] = t
        BY <1>0, <3>1
      <3>a. RanCount(n)' = RanCount(n) + 1 /\ LeftCount(n)' = LeftCount(n) - 1
        BY <3>5, <3>b DEF RanCount, LeftCount
      <3>6. WithinLimits(n)'
        <4>1. /\ RanCount(n) + LeftCount(n) <= turn[n].tools /\ turn[n].tools <= MaxToolCalls
              /\ turn[n].round <= MaxModelCalls
          BY <1>0, <3>2 DEF InTurn, WithinLimits
        <4>2. RanCount(n)' + LeftCount(n)' = RanCount(n) + LeftCount(n)
          BY ONLY <1>e, <3>a
        <4>3. JobOf(n)' = JobOf(n)
          BY <2>0 DEF JobOf
        <4>4. /\ turn'[n].pc = "tools" /\ turn'[n].round = turn[n].round
              /\ turn'[n].tools = turn[n].tools
          BY <3>4, <3>5
        <4> QED BY ONLY <3>2, <4>1, <4>2, <4>3, <4>4 DEF WithinLimits
      <3>7. Recorded(n)' /\ ResultFits(n)'
        BY <1>0, <2>0, <2>1, <3>4, <3>5
           DEF InTurn, Recorded, ResultFits, RestingPcs, AskingPcs, BetweenPcs
      <3> QED BY <1>a, <2>0, <2>1, <2>3, <3>1, <3>4, <3>6, <3>7, GoOn DEF InTurn
    <2> QED BY <1>12, <2>2, <2>3 DEF EndTool
  <1>13. CASE NextRound(n)
    <2> DEFINE t == [turn[n] EXCEPT !.pc = "round"]
    <2>0. /\ run.state = "running" /\ turn[n].pc = "tools"
          /\ UNCHANGED <<job, run, spans, recorded, login>>
      BY <1>13 DEF NextRound
    <2>1. turn' = [turn EXCEPT ![n] = t]
      BY <1>13, <1>0 DEF NextRound, Move
    <2>2. /\ t \in Turn /\ t.pc = "round" /\ t.round = turn[n].round
          /\ t.tools = turn[n].tools /\ t.ran = turn[n].ran /\ t.left = turn[n].left
      BY <1>0 DEF Turn, BetweenPcs
    <2> HIDE DEF t
    <2>3. turn'[n] = t
      BY <1>0, <2>1
    <2>4. WithinLimits(n)' /\ Recorded(n)'
      BY <1>0, <1>f, <2>0, <2>2, <2>3
         DEF InTurn, WithinLimits, Recorded, RestingPcs, AskingPcs, BetweenPcs
    <2> QED BY <1>a, <1>c, <2>0, <2>1, <2>2, <2>4
  <1> QED BY <1>1, <1>2, <1>3, <1>4, <1>5, <1>6, <1>7, <1>8, <1>9, <1>10, <1>11, <1>12, <1>13
          DEF NodeStep

\* Both ends of an execution close the spans and keep the finished nodes.
LEMMA CloseFacts ==
  ASSUME ProviderShape, CloseSpans
  PROVE  /\ spans' \in [AiNodes -> [running : Int, finished : Nat]]
         /\ \A n \in AiNodes : spans'[n].running = 0 /\ spans'[n].finished = spans[n].finished
  BY DEF ProviderShape, CloseSpans

LEMMA ProviderStep == ProviderInv /\ [ProviderNext]_providerVars => ProviderInv'
  <1> SUFFICES ASSUME ProviderInv, [ProviderNext]_providerVars PROVE ProviderInv'
    OBVIOUS
  <1>0. ProviderShape /\ \A n \in AiNodes : InTurn(n)
    BY DEF ProviderInv
  <1>1. CASE StopRun
    <2>1. /\ run' = [run EXCEPT !.stop = TRUE] /\ run.state = "running"
          /\ UNCHANGED <<job, turn, spans, recorded, login>>
      BY <1>1 DEF StopRun
    <2>2. AiNodes' = AiNodes /\ \A n : JobOf(n)' = JobOf(n)
      BY <2>1 DEF AiNodes, JobOf
    <2>3. ProviderShape' /\ run'.state = "running"
      BY <1>0, <2>1, <2>2 DEF ProviderShape
    <2>4. \A n \in AiNodes : InTurn(n)'
      BY <1>0, <2>1, <2>2 DEF InTurn, WithinLimits, RanCount, LeftCount, Recorded, ResultFits
    <2> QED BY <2>2, <2>3, <2>4 DEF ProviderInv
  <1>2. CASE EndExecution
    <2>1. /\ run' = [run EXCEPT !.state = "ended"] /\ CloseSpans
          /\ UNCHANGED <<job, turn, recorded, login>>
      BY <1>2 DEF EndExecution
    <2>2. AiNodes' = AiNodes /\ \A n : JobOf(n)' = JobOf(n)
      BY <2>1 DEF AiNodes, JobOf
    <2>3. ProviderShape'
      BY <1>0, <2>1, <2>2, CloseFacts DEF ProviderShape
    <2>4. \A n \in AiNodes : InTurn(n)'
      BY <1>0, <2>1, <2>2, CloseFacts
         DEF InTurn, WithinLimits, RanCount, LeftCount, Recorded, ResultFits
    <2> QED BY <1>0, <2>1, <2>2, <2>3, <2>4, CloseFacts DEF ProviderInv
  <1>3. CASE RecoverRun
    <2> DEFINE lost == \E n \in AiNodes : InFlight(n) \/ turn[n].pc = "retry"
    <2>1. /\ run' = [run EXCEPT !.restarts = @ + 1, !.stop = FALSE,
                                !.state = IF lost THEN "ended" ELSE "running"]
          /\ turn' = [n \in AiNodes |-> IF turn[n].pc = "done" THEN turn[n] ELSE Waiting]
          /\ CloseSpans /\ UNCHANGED <<job, recorded, login>>
      BY <1>3 DEF RecoverRun
    <2> HIDE DEF lost
    <2>2. AiNodes' = AiNodes /\ \A n : JobOf(n)' = JobOf(n)
      BY <2>1 DEF AiNodes, JobOf
    <2>3. turn' \in [AiNodes -> Turn]
      BY <1>0, <2>1, WaitingTurn DEF ProviderShape
    <2>4. run' \in [state : {"running", "ended"}, stop : BOOLEAN, restarts : Nat]
      <3>1. run.restarts + 1 \in Nat
        BY <1>0 DEF ProviderShape
      <3> QED BY <1>0, <2>1, <3>1 DEF ProviderShape
    <2>5. ProviderShape'
      BY <1>0, <2>1, <2>2, <2>3, <2>4, CloseFacts DEF ProviderShape
    <2>6. ASSUME NEW n \in AiNodes PROVE InTurn(n)'
      <3>0. /\ turn'[n] = IF turn[n].pc = "done" THEN turn[n] ELSE Waiting
            /\ spans'[n].finished = spans[n].finished /\ recorded'[n] = recorded[n]
            /\ JobOf(n)' = JobOf(n) /\ InTurn(n)
        BY <1>0, <2>1, <2>2, CloseFacts
      <3>1. CASE turn[n].pc = "done"
        BY <3>0, <3>1 DEF InTurn, WithinLimits, RanCount, LeftCount, Recorded, ResultFits
      <3>2. CASE turn[n].pc # "done"
        <4>1. turn'[n] = Waiting
          BY <3>0, <3>2
        <4>2. RanCount(n)' = 0 /\ LeftCount(n)' = 0
          BY <4>1, WaitingTurn DEF RanCount, LeftCount
        <4>3. MaxModelCalls \in Nat /\ MaxToolCalls \in Nat
          BY ProviderBounds
        <4> QED BY <4>1, <4>2, <4>3, WaitingTurn
                DEF InTurn, WithinLimits, Recorded, ResultFits, RestingPcs, AskingPcs,
                    BetweenPcs
      <3> QED BY <3>1, <3>2
    <2> QED BY <1>0, <2>1, <2>2, <2>5, <2>6, CloseFacts DEF ProviderInv
  <1>4. ASSUME NEW n \in AiNodes, NodeStep(n) PROVE ProviderInv'
    BY <1>4, NodeStepInTurn
  <1>5. CASE UNCHANGED providerVars
    <2>1. AiNodes' = AiNodes /\ \A n : JobOf(n)' = JobOf(n)
      BY <1>5 DEF providerVars, AiNodes, JobOf
    <2> QED BY <1>5, <2>1
            DEF providerVars, ProviderInv, ProviderShape, InTurn, WithinLimits, RanCount,
                LeftCount, Recorded, ResultFits
  <1> QED BY <1>1, <1>2, <1>3, <1>4, <1>5 DEF ProviderNext

LEMMA ProviderStart == ProviderInit => ProviderInv
  <1> SUFFICES ASSUME ProviderInit PROVE ProviderInv
    OBVIOUS
  <1>1. turn = [n \in AiNodes |-> Waiting] /\ run.state = "running"
    BY DEF ProviderInit
  <1>2. ProviderShape
    BY WaitingTurn DEF ProviderInit, ProviderShape
  <1>3. \A n \in AiNodes : InTurn(n)
    <2>1. MaxModelCalls \in Nat /\ MaxToolCalls \in Nat /\ Len(<<>>) = 0
      BY ProviderBounds
    <2>2. \A n \in AiNodes : turn[n] = Waiting
      BY <1>1
    <2>3. \A n \in AiNodes : RanCount(n) = 0 /\ LeftCount(n) = 0
      BY <2>1, <2>2, WaitingTurn DEF RanCount, LeftCount
    <2> QED BY <2>1, <2>2, <2>3, WaitingTurn
       DEF InTurn, WithinLimits, Recorded, ResultFits, RestingPcs, AskingPcs, BetweenPcs
  <1> QED BY <1>1, <1>2, <1>3 DEF ProviderInv

\* AgentSound: for any number of AI nodes in parallel, retried, stopped and cut
\* off by restarts of Core, an agent keeps to its limits and to its tools, its
\* result is a lone submission or JSON text, and when the execution has ended
\* no span runs and each request of a successful attempt is on record.
THEOREM AgentIsSound == ProviderSpec => []AgentSound
  <1>1. ProviderInit => ProviderInv
    BY ProviderStart
  <1>2. ProviderInv => AgentSound
    <2> SUFFICES ASSUME ProviderInv, NEW n \in AiNodes
                 PROVE  /\ JobOf(n).kind = "agent" =>
                             /\ Len(turn[n].ran) <= MaxToolCalls
                             /\ turn[n].round <= MaxModelCalls
                             /\ \A i \in DOMAIN turn[n].ran : turn[n].ran[i] \in Tools
                             /\ turn[n].pc = "done" =>
                                  \/ ToolCallsFrom(turn[n].reply) = <<"submit">>
                                  \/ /\ ToolCallsFrom(turn[n].reply) = <<>>
                                     /\ Texts(turn[n].reply) = <<"value">>
                        /\ run.state = "ended" =>
                             /\ spans[n].running = 0
                             /\ turn[n].pc = "done" =>
                                  /\ recorded[n] = (IF JobOf(n).kind = "exec" THEN 1
                                                    ELSE turn[n].round)
                                  /\ spans[n].finished = recorded[n]
      BY DEF AgentSound, AgentBounded, TraceSettled
    <2>1. /\ turn[n].ran \in Seq(Tools) /\ turn[n].left \in Seq(ToolUses)
          /\ turn[n].tools \in Nat
      BY DEF ProviderInv, ProviderShape, Turn
    <2>2. RanCount(n) \in Nat /\ LeftCount(n) \in Nat
      BY <2>1 DEF RanCount, LeftCount
    <2>3. Len(turn[n].ran) <= MaxToolCalls
      <3>1. MaxToolCalls \in Nat
        BY ProviderBounds
      <3>2. RanCount(n) + LeftCount(n) <= turn[n].tools /\ turn[n].tools <= MaxToolCalls
        BY DEF ProviderInv, InTurn, WithinLimits
      <3>3. RanCount(n) <= MaxToolCalls
        BY <2>1, <2>2, <3>1, <3>2
      <3> QED BY <3>3 DEF RanCount
    <2>4. \A i \in DOMAIN turn[n].ran : turn[n].ran[i] \in Tools
      BY <2>1
    <2>5. turn[n].pc = "done" =>
            /\ recorded[n] = (IF JobOf(n).kind = "exec" THEN 1 ELSE turn[n].round)
            /\ spans[n].finished = recorded[n]
      BY DEF ProviderInv, InTurn, Recorded, BetweenPcs, RestingPcs
    <2> QED BY <2>3, <2>4, <2>5 DEF ProviderInv, InTurn, WithinLimits, ResultFits
  <1> QED BY <1>1, <1>2, ProviderStep, PTL DEF ProviderSpec

(***************************************************************************)
(* The token budget.  A reservation that has not been sent is owed: one    *)
(* pair for each of its tokens, so that a sum over the nodes is the size   *)
(* of a set.                                                               *)
(***************************************************************************)
Asks(n) == JobOf(n).kind # "exec" /\ turn[n].pc \in {"open", "send"}
Pile(n) == {n} \X (1 .. JobOf(n).tokens)
Owed(p) ==
  {q \in AiNodes \X (1 .. Budget) :
     /\ Asks(q[1]) /\ JobOf(q[1]).profile = p
     /\ q[2] <= JobOf(q[1]).tokens}

\* What was sent and what is still owed has been reserved.
BudgetShape ==
  /\ job \in Work
  /\ reserved \in [Profiles -> Nat] /\ sent \in [Profiles -> Nat]
  /\ \A n \in AiNodes : Asks(n) => JobOf(n).tokens <= Budget
  /\ \A p \in Profiles :
       sent[p] + Cardinality(Owed(p)) <= reserved[p] /\ reserved[p] <= Budget

LEMMA JobFacts ==
  ASSUME job \in Work
  PROVE  /\ IsFiniteSet(AiNodes)
         /\ \A n \in AiNodes : JobOf(n).profile \in Profiles /\ JobOf(n).tokens \in Nat
  <1>1. IsFiniteSet(job) /\ \A w \in job : w.profile \in Profiles /\ w.tokens \in Nat
    BY WorkAssumption DEF Profiles
  <1>2. IsFiniteSet(AiNodes)
    <2> DEFINE f == [w \in job |-> w.id]
    <2>1. f \in Surjection(job, AiNodes)
      BY DEF AiNodes, Surjection
    <2> QED BY <1>1, <2>1, FS_Surjection
  <1>3. \A n \in AiNodes : JobOf(n) \in job
    BY DEF AiNodes, JobOf
  <1> QED BY <1>1, <1>2, <1>3

LEMMA OwedFinite ==
  ASSUME job \in Work, NEW p
  PROVE  IsFiniteSet(Owed(p)) /\ Cardinality(Owed(p)) \in Nat
  <1>1. IsFiniteSet(1 .. Budget)
    BY FS_Interval, ProviderBounds
  <1>2. IsFiniteSet(AiNodes \X (1 .. Budget))
    BY <1>1, JobFacts, FS_Product
  <1>3. Owed(p) \subseteq AiNodes \X (1 .. Budget)
    BY DEF Owed
  <1> QED BY <1>2, <1>3, FS_Subset, FS_CardinalityType

LEMMA PileSize ==
  ASSUME job \in Work, NEW n \in AiNodes
  PROVE  IsFiniteSet(Pile(n)) /\ Cardinality(Pile(n)) = JobOf(n).tokens
  <1>1. JobOf(n).tokens \in Nat
    BY JobFacts
  <1>2. IsFiniteSet(1 .. JobOf(n).tokens) /\ Cardinality(1 .. JobOf(n).tokens) = JobOf(n).tokens
    <2>1. \A t \in Nat : IsFiniteSet(1 .. t) /\ Cardinality(1 .. t) = t
      BY FS_Interval
    <2> QED BY <1>1, <2>1
  <1>3. IsFiniteSet({n}) /\ Cardinality({n}) = 1
    BY FS_Singleton
  <1> QED BY <1>1, <1>2, <1>3, FS_Product DEF Pile

\* Nobody begins to owe.
LEMMA OwedShrinks ==
  ASSUME BudgetShape, UNCHANGED <<job, sent, reserved>>, \A n \in AiNodes : Asks(n)' => Asks(n)
  PROVE  BudgetShape'
  <1>1. AiNodes' = AiNodes /\ \A n : JobOf(n)' = JobOf(n)
    BY DEF AiNodes, JobOf
  <1>2. ASSUME NEW p \in Profiles
        PROVE  sent[p] + Cardinality(Owed(p)') <= reserved[p] /\ reserved[p] <= Budget
    <2>1. Owed(p)' \subseteq Owed(p)
      BY <1>1 DEF Owed
    <2>2. IsFiniteSet(Owed(p)) /\ Cardinality(Owed(p)) \in Nat
      BY OwedFinite DEF BudgetShape
    <2>3. Cardinality(Owed(p)') <= Cardinality(Owed(p)) /\ Cardinality(Owed(p)') \in Nat
      BY <2>1, <2>2, FS_Subset, FS_CardinalityType
    <2>4. /\ sent[p] + Cardinality(Owed(p)) <= reserved[p] /\ reserved[p] <= Budget
          /\ sent[p] \in Nat /\ reserved[p] \in Nat
      BY DEF BudgetShape
    <2> QED BY <2>2, <2>3, <2>4
  <1> QED BY <1>1, <1>2 DEF BudgetShape

\* A reservation is owed from the moment it is made.
LEMMA OwedGrows ==
  ASSUME BudgetShape, NEW n \in AiNodes, UNCHANGED <<job, sent>>, JobOf(n).kind # "exec",
         Fits(JobOf(n).profile, JobOf(n).tokens),
         reserved' = [reserved EXCEPT ![JobOf(n).profile] = @ + JobOf(n).tokens],
         \A m \in AiNodes \ {n} : Asks(m)' <=> Asks(m)
  PROVE  BudgetShape'
  <1> DEFINE o == JobOf(n).profile
             t == JobOf(n).tokens
  <1>1. AiNodes' = AiNodes /\ \A m : JobOf(m)' = JobOf(m)
    BY DEF AiNodes, JobOf
  <1>2. job \in Work /\ o \in Profiles /\ t \in Nat /\ Budget \in Nat
    BY JobFacts, ProviderBounds DEF BudgetShape
  <1>3. /\ reserved[o] \in Nat /\ reserved[o] + t <= Budget /\ t <= Budget
        /\ reserved' \in [Profiles -> Nat]
        /\ reserved'[o] = reserved[o] + t
        /\ \A p \in Profiles \ {o} : reserved'[p] = reserved[p]
    <2>1. reserved \in [Profiles -> Nat] /\ reserved[o] + t <= Budget
      BY DEF BudgetShape, Fits
    <2>2. reserved[o] \in Nat /\ reserved[o] + t \in Nat /\ t <= Budget
      BY <1>2, <2>1
    <2> HIDE DEF o, t
    <2>3. reserved' = [reserved EXCEPT ![o] = @ + t]
      BY DEF o, t
    <2> QED BY <1>2, <2>1, <2>2, <2>3
  <1>4. ASSUME NEW p \in Profiles
        PROVE  sent[p] + Cardinality(Owed(p)') <= reserved'[p] /\ reserved'[p] <= Budget
    <2>1. /\ sent[p] + Cardinality(Owed(p)) <= reserved[p] /\ reserved[p] <= Budget
          /\ sent[p] \in Nat /\ reserved[p] \in Nat
      BY DEF BudgetShape
    <2>2. IsFiniteSet(Owed(p)) /\ Cardinality(Owed(p)) \in Nat
      BY <1>2, OwedFinite
    <2>3. CASE p = o
      <3>1. IsFiniteSet(Pile(n)) /\ Cardinality(Pile(n)) = t
        BY <1>2, PileSize
      <3>2. Owed(p)' \subseteq Owed(p) \cup Pile(n)
        <4> SUFFICES ASSUME NEW q \in Owed(p)', q[1] # n PROVE q \in Owed(p)
          <5>1. \A q \in Owed(p)' : q[1] = n => q \in Pile(n)
            BY <1>1 DEF Owed, Pile
          <5> QED BY <5>1
        <4> QED BY <1>1 DEF Owed
      <3>3. IsFiniteSet(Owed(p) \cup Pile(n))
            /\ Cardinality(Owed(p) \cup Pile(n)) <= Cardinality(Owed(p)) + t
        <4>1. IsFiniteSet(Owed(p) \cap Pile(n)) /\ Cardinality(Owed(p) \cap Pile(n)) \in Nat
          BY <2>2, FS_Intersection, FS_CardinalityType, FS_Subset
        <4>2. /\ IsFiniteSet(Owed(p) \cup Pile(n))
              /\ Cardinality(Owed(p) \cup Pile(n)) =
                   Cardinality(Owed(p)) + t - Cardinality(Owed(p) \cap Pile(n))
          BY <2>2, <3>1, FS_Union
        <4> HIDE DEF t
        <4> QED BY <1>2, <2>2, <4>1, <4>2
      <3>4. Cardinality(Owed(p)') <= Cardinality(Owed(p) \cup Pile(n))
            /\ Cardinality(Owed(p)') \in Nat /\ Cardinality(Owed(p) \cup Pile(n)) \in Nat
        BY <3>2, <3>3, FS_Subset, FS_CardinalityType
      <3> HIDE DEF o, t
      <3> QED BY <1>2, <1>3, <2>1, <2>2, <2>3, <3>3, <3>4
    <2>4. CASE p # o
      <3>1. Owed(p)' \subseteq Owed(p)
        <4> SUFFICES ASSUME NEW q \in Owed(p)' PROVE q \in Owed(p)
          OBVIOUS
        <4>1. q[1] # n
          BY <1>1, <2>4 DEF Owed
        <4> QED BY <1>1, <4>1 DEF Owed
      <3>2. Cardinality(Owed(p)') <= Cardinality(Owed(p)) /\ Cardinality(Owed(p)') \in Nat
        BY <2>2, <3>1, FS_Subset, FS_CardinalityType
      <3> HIDE DEF o, t
      <3> QED BY <1>3, <2>1, <2>2, <2>4, <3>2
    <2> QED BY <2>3, <2>4
  <1>5. \A m \in AiNodes : Asks(m)' => JobOf(m).tokens <= Budget
    BY <1>3 DEF BudgetShape
  <1> QED BY <1>1, <1>3, <1>4, <1>5 DEF BudgetShape

\* What is sent is no longer owed.
LEMMA OwedSent ==
  ASSUME BudgetShape, NEW n \in AiNodes, UNCHANGED <<job, reserved>>, Asks(n), ~Asks(n)',
         sent' = [sent EXCEPT ![JobOf(n).profile] = @ + JobOf(n).tokens],
         \A m \in AiNodes \ {n} : Asks(m)' <=> Asks(m)
  PROVE  BudgetShape'
  <1> DEFINE o == JobOf(n).profile
             t == JobOf(n).tokens
  <1>1. AiNodes' = AiNodes /\ \A m : JobOf(m)' = JobOf(m)
    BY DEF AiNodes, JobOf
  <1>2. job \in Work /\ o \in Profiles /\ t \in Nat /\ t <= Budget
    BY JobFacts DEF BudgetShape
  <1>3. /\ sent[o] \in Nat /\ sent' \in [Profiles -> Nat] /\ sent'[o] = sent[o] + t
        /\ \A p \in Profiles \ {o} : sent'[p] = sent[p]
    <2>1. sent \in [Profiles -> Nat]
      BY DEF BudgetShape
    <2>2. sent[o] \in Nat /\ sent[o] + t \in Nat
      BY <1>2, <2>1
    <2> HIDE DEF o, t
    <2>3. sent' = [sent EXCEPT ![o] = @ + t]
      BY DEF o, t
    <2> QED BY <1>2, <2>1, <2>2, <2>3
  <1>4. ASSUME NEW p \in Profiles
        PROVE  sent'[p] + Cardinality(Owed(p)') <= reserved[p] /\ reserved[p] <= Budget
    <2>1. /\ sent[p] + Cardinality(Owed(p)) <= reserved[p] /\ reserved[p] <= Budget
          /\ sent[p] \in Nat /\ reserved[p] \in Nat
      BY DEF BudgetShape
    <2>2. IsFiniteSet(Owed(p)) /\ Cardinality(Owed(p)) \in Nat
      BY <1>2, OwedFinite
    <2>3. Owed(p)' \subseteq Owed(p)
      <3> SUFFICES ASSUME NEW q \in Owed(p)' PROVE q \in Owed(p)
        OBVIOUS
      <3>1. q[1] # n
        BY DEF Owed
      <3> QED BY <1>1, <3>1 DEF Owed
    <2>4. IsFiniteSet(Owed(p)') /\ Cardinality(Owed(p)') \in Nat
          /\ Cardinality(Owed(p)') <= Cardinality(Owed(p))
      BY <2>2, <2>3, FS_Subset, FS_CardinalityType
    <2>5. CASE p = o
      <3>1. IsFiniteSet(Pile(n)) /\ Cardinality(Pile(n)) = t
        BY <1>2, PileSize
      <3>2. Owed(p)' \cap Pile(n) = {}
        BY DEF Owed, Pile
      <3>3. Pile(n) \subseteq Owed(p)
        <4> SUFFICES ASSUME NEW i \in 1 .. t PROVE <<n, i>> \in Owed(p)
          BY DEF Pile
        <4>1. i \in 1 .. Budget /\ i <= t
          BY <1>2, ProviderBounds
        <4> QED BY <2>5, <4>1 DEF Owed
      <3>4. Cardinality(Owed(p)') + t <= Cardinality(Owed(p))
        <4>1. IsFiniteSet(Owed(p)' \cup Pile(n))
              /\ Cardinality(Owed(p)' \cup Pile(n)) = Cardinality(Owed(p)') + t - 0
          BY <2>4, <3>1, <3>2, FS_Union, FS_EmptySet
        <4>2. Cardinality(Owed(p)' \cup Pile(n)) <= Cardinality(Owed(p))
          BY <2>2, <2>3, <3>3, FS_Subset
        <4> HIDE DEF t
        <4> QED BY <1>2, <2>2, <2>4, <4>1, <4>2
      <3> HIDE DEF o, t
      <3> QED BY <1>2, <1>3, <2>1, <2>2, <2>4, <2>5, <3>4
    <2>6. CASE p # o
      <3> HIDE DEF o
      <3> QED BY <1>3, <2>1, <2>2, <2>4, <2>6
    <2> QED BY <2>5, <2>6
  <1>5. \A m \in AiNodes : Asks(m)' => JobOf(m).tokens <= Budget
    BY DEF BudgetShape
  <1> QED BY <1>1, <1>3, <1>4, <1>5 DEF BudgetShape

LEMMA FailAsks ==
  ASSUME ProviderShape, NEW n \in AiNodes, Fail(n), UNCHANGED job
  PROVE  ~Asks(n)' /\ \A m \in AiNodes \ {n} : Asks(m)' <=> Asks(m)
  <1>1. \A m : JobOf(m)' = JobOf(m)
    BY DEF JobOf
  <1>2. turn \in [AiNodes -> Turn]
    BY DEF ProviderShape
  <1>3. turn'[n].pc \in {"retry", "failed"} /\ \A m \in AiNodes \ {n} : turn'[m] = turn[m]
    BY <1>2, WaitingTurn DEF Fail, Waiting
  <1> QED BY <1>1, <1>3 DEF Asks

\* Each step of a node makes a reservation, sends one, or does neither.
LEMMA NodeStepBudget ==
  ASSUME ProviderInv, BudgetShape, NEW n \in AiNodes, NodeStep(n)
  PROVE  BudgetShape'
  <1> DEFINE Keeps == \A m \in AiNodes \ {n} : Asks(m)' <=> Asks(m)
  <1>0. ProviderShape /\ turn \in [AiNodes -> Turn] /\ turn[n] \in Turn
    BY DEF ProviderInv, ProviderShape
  <1>1. ASSUME UNCHANGED <<job, sent, reserved>>, Fail(n) PROVE BudgetShape'
    BY <1>0, <1>1, FailAsks, OwedShrinks
  <1>2. ASSUME UNCHANGED <<job, sent, reserved>>, NEW t, turn' = [turn EXCEPT ![n] = t],
               t.pc \in {"open", "send"} =>
                 turn[n].pc \in {"open", "send"} \/ JobOf(n).kind = "exec"
        PROVE  BudgetShape'
    <2>1. turn'[n] = t /\ \A m \in AiNodes \ {n} : turn'[m] = turn[m]
      BY <1>0, <1>2
    <2>2. \A m : JobOf(m)' = JobOf(m)
      BY <1>2 DEF JobOf
    <2>3. \A m \in AiNodes : Asks(m)' => Asks(m)
      BY <1>2, <2>1, <2>2 DEF Asks
    <2> QED BY <1>2, <2>3, OwedShrinks
  <1>3. ASSUME UNCHANGED <<job, sent, reserved>>, NEW pc, pc \notin {"open", "send"}, Move(n, pc)
        PROVE  BudgetShape'
    <2> DEFINE t == [turn[n] EXCEPT !.pc = pc]
    <2>1. turn' = [turn EXCEPT ![n] = t] /\ t.pc = pc
      BY <1>0, <1>3 DEF Move, Turn
    <2> HIDE DEF t
    <2> QED BY <1>2, <1>3, <2>1
  <1>4. CASE BeginAttempt(n)
    <2> DEFINE t == [Waiting EXCEPT !.pc = "round", !.attempt = turn[n].attempt + 1]
    <2>1. UNCHANGED <<job, sent, reserved>> /\ (Fail(n) \/ turn' = [turn EXCEPT ![n] = t])
      BY <1>4 DEF BeginAttempt
    <2>2. t.pc = "round"
      BY DEF Waiting
    <2> HIDE DEF t
    <2> QED BY <1>1, <1>2, <2>1, <2>2
  <1>5. CASE Request(n)
    <2>0. UNCHANGED <<job, sent>> /\ turn[n].pc = "round"
      BY <1>5 DEF Request
    <2>1. CASE Fail(n) /\ UNCHANGED reserved
      BY <1>1, <2>0, <2>1
    <2>2. CASE JobOf(n).kind = "exec" /\ Move(n, "open") /\ UNCHANGED reserved
      <3> DEFINE t == [turn[n] EXCEPT !.pc = "open"]
      <3>1. turn' = [turn EXCEPT ![n] = t]
        BY <1>0, <2>2 DEF Move
      <3> HIDE DEF t
      <3> QED BY <1>2, <2>0, <2>2, <3>1
    <2>3. CASE JobOf(n).kind # "exec"
               /\ ReserveProviderTokens(n, JobOf(n).profile, JobOf(n).tokens)
      <3>1. CASE Fits(JobOf(n).profile, JobOf(n).tokens)
        <4>1. /\ reserved' = [reserved EXCEPT ![JobOf(n).profile] = @ + JobOf(n).tokens]
              /\ turn' = [turn EXCEPT ![n].pc = "open", ![n].round = @ + 1]
          BY <2>3, <3>1 DEF ReserveProviderTokens
        <4>2. \A m \in AiNodes \ {n} : turn'[m] = turn[m] /\ JobOf(m)' = JobOf(m)
          BY <1>0, <2>0, <4>1 DEF JobOf
        <4>3. Keeps
          BY <4>2 DEF Asks
        <4> QED BY <2>0, <2>3, <3>1, <4>1, <4>3, OwedGrows
      <3>2. CASE ~Fits(JobOf(n).profile, JobOf(n).tokens)
        BY <2>1, <2>3, <3>2 DEF ReserveProviderTokens
      <3> QED BY <3>1, <3>2
    <2>4. /\ turn[n].round \in Nat /\ MaxModelCalls \in Nat
          /\ JobOf(n).kind = "agent" => turn[n].round <= MaxModelCalls
      BY <1>0, ProviderBounds DEF Turn, ProviderInv, InTurn, WithinLimits
    <2>5. CASE JobOf(n).kind = "agent" /\ turn[n].round = MaxModelCalls
      <3>1. ~(turn[n].round < MaxModelCalls) /\ JobOf(n).kind # "exec"
        BY <2>4, <2>5
      <3>2. Fail(n) /\ UNCHANGED reserved
        BY <1>5, <2>5, <3>1 DEF Request
      <3> QED BY <2>1, <3>2
    <2>6. CASE JobOf(n).kind = "exec"
      <3>1. Move(n, "open") /\ UNCHANGED reserved
        BY <1>5, <2>6 DEF Request
      <3> QED BY <2>2, <2>6, <3>1
    <2>7. CASE /\ JobOf(n).kind # "exec"
               /\ JobOf(n).kind = "agent" => turn[n].round < MaxModelCalls
      <3>1. \/ Fail(n) /\ UNCHANGED reserved
            \/ ReserveProviderTokens(n, JobOf(n).profile, JobOf(n).tokens)
        BY <1>5, <2>4, <2>7 DEF Request
      <3> QED BY <2>1, <2>3, <2>7, <3>1
    <2> QED BY <2>4, <2>5, <2>6, <2>7
  <1>6. CASE OpenRequest(n)
    <2> DEFINE t == [turn[n] EXCEPT !.pc = "send", !.held = login.stored, !.fresh = FALSE]
    <2>1. UNCHANGED <<job, sent, reserved>> /\ turn[n].pc = "open"
          /\ (Fail(n) \/ turn' = [turn EXCEPT ![n].pc = "send", ![n].held = login.stored,
                                              ![n].fresh = FALSE])
      BY <1>6 DEF OpenRequest
    <2>2. Fail(n) \/ turn' = [turn EXCEPT ![n] = t]
      BY <1>0, <2>1
    <2> HIDE DEF t
    <2> QED BY <1>1, <1>2, <2>1, <2>2
  <1>7. CASE RefreshTokens(n)
    <2> DEFINE t == [turn[n] EXCEPT !.held = login.issued + 1, !.fresh = TRUE]
    <2>1. UNCHANGED <<job, sent, reserved>> /\ turn[n].pc = "send"
          /\ (Fail(n) \/ turn' = [turn EXCEPT ![n].held = login.issued + 1, ![n].fresh = TRUE])
      BY <1>7 DEF RefreshTokens
    <2>2. Fail(n) \/ turn' = [turn EXCEPT ![n] = t]
      BY <1>0, <2>1
    <2> HIDE DEF t
    <2> QED BY <1>1, <1>2, <2>1, <2>2
  <1>8. CASE SendRequest(n)
    <2>1. /\ UNCHANGED <<job, reserved>> /\ turn[n].pc = "send" /\ Move(n, "wait")
          /\ sent' = IF JobOf(n).kind = "exec" THEN sent
                     ELSE [sent EXCEPT ![JobOf(n).profile] = @ + JobOf(n).tokens]
      BY <1>8 DEF SendRequest
    <2>2. CASE JobOf(n).kind = "exec"
      BY <1>3, <2>1, <2>2
    <2>3. CASE JobOf(n).kind # "exec"
      <3>1. turn'[n].pc = "wait" /\ \A m \in AiNodes \ {n} : turn'[m] = turn[m]
        BY <1>0, <2>1 DEF Move, Turn
      <3>2. \A m : JobOf(m)' = JobOf(m)
        BY <2>1 DEF JobOf
      <3>3. Asks(n) /\ ~Asks(n)' /\ Keeps
        BY <2>1, <2>3, <3>1, <3>2 DEF Asks
      <3> QED BY <2>1, <2>3, <3>3, OwedSent
    <2> QED BY <2>2, <2>3
  <1>9. CASE \/ AnswerRequest(n) \/ StopRequest(n) \/ Receive(n) \/ UseReply(n)
             \/ AgentReply(n) \/ StartTool(n) \/ EndTool(n) \/ NextRound(n)
    <2>1. UNCHANGED <<job, sent, reserved>>
      BY <1>9 DEF AnswerRequest, StopRequest, Receive, UseReply, AgentReply, StartTool,
                  EndTool, NextRound
    <2>2. \/ Fail(n) \/ Succeed(n) \/ Move(n, "reply") \/ Move(n, "round")
          \/ Move(n, "tool")
          \/ \E reply : turn' = [turn EXCEPT ![n].pc = "answered", ![n].reply = reply]
          \/ \E calls : turn' = [turn EXCEPT ![n].pc = "tools", ![n].left = calls,
                                             ![n].tools = @ + Len(calls)]
          \/ \E name : turn' = [turn EXCEPT ![n].pc = "tools", ![n].left = Tail(@),
                                            ![n].ran = Append(@, name)]
      BY <1>9 DEF AnswerRequest, StopRequest, Receive, UseReply, AgentReply, StartTool,
                  EndTool, NextRound, End, EndExec, EndMessages, EndGenerate, EndExtract, Move
    <2>3. CASE Fail(n)
      BY <1>1, <2>1, <2>3
    <2>4. CASE ~Fail(n)
      <3>1. turn'[n].pc \notin {"open", "send"} /\ \A m \in AiNodes \ {n} : turn'[m] = turn[m]
        <4>1. CASE Succeed(n)
          BY <1>0, <4>1 DEF Succeed, Turn
        <4>2. CASE Move(n, "reply") \/ Move(n, "round") \/ Move(n, "tool")
          BY <1>0, <4>2 DEF Move, Turn
        <4>3. ASSUME NEW reply,
                     turn' = [turn EXCEPT ![n].pc = "answered", ![n].reply = reply]
              PROVE  /\ turn'[n].pc \notin {"open", "send"}
                     /\ \A m \in AiNodes \ {n} : turn'[m] = turn[m]
          BY <1>0, <4>3 DEF Turn
        <4>4. ASSUME NEW calls,
                     turn' = [turn EXCEPT ![n].pc = "tools", ![n].left = calls,
                                          ![n].tools = @ + Len(calls)]
              PROVE  /\ turn'[n].pc \notin {"open", "send"}
                     /\ \A m \in AiNodes \ {n} : turn'[m] = turn[m]
          BY <1>0, <4>4 DEF Turn
        <4>5. ASSUME NEW name,
                     turn' = [turn EXCEPT ![n].pc = "tools", ![n].left = Tail(@),
                                          ![n].ran = Append(@, name)]
              PROVE  /\ turn'[n].pc \notin {"open", "send"}
                     /\ \A m \in AiNodes \ {n} : turn'[m] = turn[m]
          BY <1>0, <4>5 DEF Turn
        <4> QED BY <2>2, <2>4, <4>1, <4>2, <4>3, <4>4, <4>5
      <3>2. \A m : JobOf(m)' = JobOf(m)
        BY <2>1 DEF JobOf
      <3>3. \A m \in AiNodes : Asks(m)' => Asks(m)
        BY <3>1, <3>2 DEF Asks
      <3> QED BY <2>1, <3>3, OwedShrinks
    <2> QED BY <2>3, <2>4
  <1> QED BY <1>4, <1>5, <1>6, <1>7, <1>8, <1>9 DEF NodeStep

\* BudgetKept: parallel nodes, retries and restarts of Core ask a profile for
\* no more output tokens than the execution's budget, since a reservation
\* outlives the node that made it and is sent at most once.
THEOREM BudgetIsKept == ProviderSpec => []BudgetKept
  <1> DEFINE Inv == ProviderInv /\ BudgetShape
  <1>1. ASSUME ProviderInit PROVE BudgetShape
    <2>1. \A n \in AiNodes : ~Asks(n)
      <3>1. turn = [n \in AiNodes |-> Waiting]
        BY <1>1 DEF ProviderInit
      <3>2. \A n \in AiNodes : turn[n].pc = "idle"
        BY <3>1, WaitingTurn
      <3> QED BY <3>2 DEF Asks
    <2>2. \A p : Owed(p) = {}
      BY <2>1 DEF Owed
    <2>3. \A p \in Profiles : Cardinality(Owed(p)) = 0
      BY <2>2, FS_EmptySet
    <2>4. job \in Work /\ reserved = [p \in Profiles |-> 0] /\ sent = [p \in Profiles |-> 0]
      BY <1>1 DEF ProviderInit
    <2> QED BY <2>1, <2>3, <2>4, ProviderBounds DEF BudgetShape
  <1>2. ASSUME ProviderInv, BudgetShape, [ProviderNext]_providerVars PROVE BudgetShape'
    <2>1. CASE UNCHANGED providerVars \/ StopRun \/ EndExecution
      <3>1. UNCHANGED <<job, turn, sent, reserved>>
        BY <2>1 DEF providerVars, StopRun, EndExecution
      <3>2. \A n \in AiNodes : Asks(n)' <=> Asks(n)
        BY <3>1 DEF Asks, JobOf
      <3> QED BY <1>2, <3>1, <3>2, OwedShrinks
    <2>2. CASE RecoverRun
      <3>1. UNCHANGED <<job, sent, reserved>>
            /\ turn' = [n \in AiNodes |-> IF turn[n].pc = "done" THEN turn[n] ELSE Waiting]
        BY <2>2 DEF RecoverRun
      <3>2. \A n \in AiNodes : ~Asks(n)'
        <4>1. \A n \in AiNodes : turn'[n].pc \in {"done", "idle"}
          BY <3>1, WaitingTurn
        <4> QED BY <4>1 DEF Asks
      <3> QED BY <1>2, <3>1, <3>2, OwedShrinks
    <2> QED BY <1>2, <2>1, <2>2, NodeStepBudget DEF ProviderNext
  <1>3. BudgetShape => BudgetKept
    <2> SUFFICES ASSUME BudgetShape, NEW p \in Profiles
                 PROVE  sent[p] <= reserved[p] /\ reserved[p] <= Budget
      BY DEF BudgetKept
    <2>1. Cardinality(Owed(p)) \in Nat
      BY OwedFinite DEF BudgetShape
    <2> QED BY <2>1 DEF BudgetShape
  <1>4. ProviderInit => Inv
    BY <1>1, ProviderStart
  <1>5. Inv /\ [ProviderNext]_providerVars => Inv'
    BY <1>2, ProviderStep
  <1> QED BY <1>3, <1>4, <1>5, PTL DEF ProviderSpec

(***************************************************************************)
(* Secrets.                                                                *)
(***************************************************************************)
CallPcs == {"idle", "lock", "locked", "staged", "cleanup", "bind", "read", "fetch", "done",
            "row"}
LockedPcs == {"locked", "staged", "cleanup", "bind"}
CallType == [op : {"none", "set", "remove", "bind", "resolve", "legacy"}, pc : CallPcs,
             value : Values \cup {None}, version : Nat, previous : Rows \cup {None}]
Connections == [revision : 1 .. MaxRevisions, bearer : BOOLEAN]

SecretBase ==
  /\ backend \in Backends /\ row \in Rows \cup {None}
  /\ native \in [Versions -> Values \cup {None}] /\ minted \in Versions
  /\ holder \in Callers \cup {None} /\ call \in [Callers -> CallType]
  /\ connection \in Connections \cup {None}
  /\ restarts \in 0 .. MaxRestarts /\ excused \subseteq Versions /\ legacy \in BOOLEAN
  /\ row # None => row.version <= minted
SecretShape == SecretBase /\ seen \in [Callers -> SUBSET (Values \cup {None})]

\* Where a caller is, whoever else writes: it holds the lock, and what it
\* stages is newer than what any row names.
InCall(c) ==
  LET k == call[c] IN
  /\ k.pc \in LockedPcs => holder = c
  /\ k.op = "set" /\ k.pc \in {"lock", "locked", "staged"} => k.value \in Values
  /\ k.previous # None => k.previous.version <= minted
  /\ k.pc \in {"lock", "locked"} => k.op \in {"set", "remove", "bind"}
  /\ k.pc = "staged" => /\ k.op = "set" /\ k.version = minted /\ k.version >= 1
                        /\ row # None => row.version < k.version
  /\ k.pc = "cleanup" => k.op \in {"set", "remove"}
  /\ k.pc \in {"read", "fetch", "done"} => k.op = "resolve"
  /\ k.pc = "fetch" => k.previous # None
  /\ k.pc = "bind" => connection \in Connections
  /\ k.pc = "idle" => k.op = "none"
  /\ k.op = "legacy" => legacy

\* The row names a value that is there.
RowHolds ==
  row # None =>
    /\ row.backend = "vault" => row.copy \in Values /\ native[row.version] = None
    /\ row.backend # "vault" => /\ native[row.version] \in Values
                                /\ row.copy \in {None, native[row.version]}
Unminted == \A v \in Versions : v > minted => native[v] = None

\* Under the lock nothing moves but by the holder.
Undisturbed(c) ==
  LET k == call[c] IN
  /\ k.pc \in {"locked", "staged"} => k.previous = row
  /\ k.pc = "staged" /\ backend = "vault" => native[k.version] = None
  /\ k.pc = "cleanup" /\ k.previous # None /\ k.previous.backend = "vault" =>
       native[k.previous.version] = None
  /\ k.pc = "cleanup" /\ k.op = "set" => row # None /\ row.version = k.version
  /\ k.pc = "cleanup" /\ k.op = "set" /\ k.previous # None => k.previous.version < k.version
  /\ k.pc = "cleanup" /\ k.op = "remove" => row = None

\* What a reader may still be given was the secret after it began.
Regular(c) ==
  LET k == call[c] IN
  /\ k.pc = "fetch" =>
       /\ k.previous.copy \in seen[c] \cup {None}
       /\ k.previous.backend # "vault" =>
            native[k.previous.version] \in seen[c] \cup {None}
  /\ k.pc = "done" => k.value \in seen[c] \cup {None}

Accounted(v) ==
  \/ row # None /\ row.version = v
  \/ v \in excused
  \/ \E c \in Callers :
       /\ holder = c
       /\ \/ call[c].pc = "staged" /\ call[c].version = v
          \/ call[c].pc = "cleanup" /\ call[c].previous # None /\ call[c].previous.version = v

VersionsKept ==
  /\ RowHolds /\ Unminted
  /\ \A c \in Callers : Undisturbed(c) /\ Regular(c)
  /\ \A v \in Versions : Stored(v) => Accounted(v)

SecretInv ==
  /\ SecretShape
  /\ \A c \in Callers : InCall(c)
  /\ ~legacy => VersionsKept

SeenStep ==
  seen' = [c \in Callers |-> IF call'[c].op = "resolve" THEN seen[c] \cup {Current, Current'}
                             ELSE {}]

LEMMA VersionFacts ==
  /\ MaxVersions \in Nat /\ MaxRevisions \in Nat /\ MaxRestarts \in Nat /\ 1 <= MaxRevisions
  /\ None \notin Values /\ None \notin Callers /\ None \notin Rows /\ Versions \subseteq Nat
  BY CredentialBounds, RowsAssumption DEF Versions

LEMMA CurrentTyped == SecretBase => Current \in Values \cup {None}
  <1> SUFFICES ASSUME SecretBase, row # None PROVE Resolved(row, TRUE) \in Values \cup {None}
    BY DEF Current
  <1>1. row.copy \in Values \cup {None} /\ row.version \in Versions
    BY DEF SecretBase, Rows
  <1>2. native[row.version] \in Values \cup {None}
    BY <1>1 DEF SecretBase
  <1> QED BY <1>1, <1>2 DEF Resolved

LEMMA CurrentTypedNext == SecretBase' => Current' \in Values \cup {None}
  <1> SUFFICES ASSUME SecretBase', row' # None
               PROVE  Resolved(row, TRUE)' \in Values \cup {None}
    BY DEF Current
  <1>1. row'.copy \in Values \cup {None} /\ row'.version \in Versions
    BY DEF SecretBase, Rows
  <1>2. native'[row'.version] \in Values \cup {None}
    BY <1>1 DEF SecretBase
  <1> QED BY <1>1, <1>2 DEF Resolved

LEMMA SeenFacts ==
  ASSUME SecretShape, SecretBase', SeenStep
  PROVE  /\ SecretShape'
         /\ \A c \in Callers : call'[c].op = "resolve" =>
              seen[c] \subseteq seen'[c] /\ Current \in seen'[c] /\ Current' \in seen'[c]
  <1>1. Current \in Values \cup {None}
    BY CurrentTyped DEF SecretShape
  <1>2. Current' \in Values \cup {None}
    BY CurrentTypedNext
  <1>3. seen' \in [Callers -> SUBSET (Values \cup {None})]
    BY <1>1, <1>2 DEF SeenStep, SecretShape
  <1> QED BY <1>3 DEF SeenStep, SecretShape

\* A step of one caller that leaves the secret as it is.
LEMMA CallOnly ==
  ASSUME SecretInv, NEW c \in Callers, NEW k \in CallType, call' = [call EXCEPT ![c] = k],
         UNCHANGED <<backend, row, native, minted, excused, legacy, restarts>>,
         connection' \in Connections \cup {None},
         connection \in Connections => connection' \in Connections,
         holder' \in Callers \cup {None}, \A d \in Callers \ {c} : holder = d => holder' = d,
         call[c].pc \notin {"staged", "cleanup"}, SeenStep,
         InCall(c)', ~legacy => Undisturbed(c)' /\ Regular(c)'
  PROVE  SecretInv'
  <1>0. call'[c] = k /\ \A d \in Callers \ {c} : call'[d] = call[d]
    BY DEF SecretInv, SecretShape, SecretBase
  <1>1. SecretBase'
    BY <1>0 DEF SecretInv, SecretShape, SecretBase
  <1>2. /\ SecretShape'
        /\ \A d \in Callers : call'[d].op = "resolve" => seen[d] \subseteq seen'[d]
    BY <1>1, SeenFacts DEF SecretInv
  <1>3. ASSUME NEW d \in Callers \ {c} PROVE InCall(d)'
    <2>1. InCall(d) /\ call'[d] = call[d] /\ (holder = d => holder' = d)
      BY <1>0 DEF SecretInv
    <2> QED BY <2>1 DEF InCall
  <1>4. ASSUME ~legacy PROVE VersionsKept'
    <2>0. VersionsKept
      BY <1>4 DEF SecretInv
    <2>1. RowHolds' /\ Unminted'
      BY <2>0 DEF VersionsKept, RowHolds, Unminted
    <2>2. ASSUME NEW d \in Callers \ {c} PROVE Undisturbed(d)' /\ Regular(d)'
      <3>1. Undisturbed(d) /\ Regular(d) /\ call'[d] = call[d] /\ InCall(d)
        BY <1>0, <2>0 DEF VersionsKept, SecretInv
      <3>2. Undisturbed(d)'
        BY <3>1 DEF Undisturbed
      <3>3. call[d].pc \in {"fetch", "done"} => seen[d] \subseteq seen'[d]
        BY <1>2, <3>1 DEF InCall
      <3>4. Regular(d)'
        BY <3>1, <3>3 DEF Regular
      <3> QED BY <3>2, <3>4
    <2>3. ASSUME NEW v \in Versions, Stored(v)' PROVE Accounted(v)'
      <3>1. Accounted(v)
        BY <2>0, <2>3 DEF VersionsKept, Stored
      <3>2. CASE (row # None /\ row.version = v) \/ v \in excused
        BY <3>2 DEF Accounted
      <3>3. ASSUME NEW d \in Callers, holder = d,
                   \/ call[d].pc = "staged" /\ call[d].version = v
                   \/ /\ call[d].pc = "cleanup" /\ call[d].previous # None
                      /\ call[d].previous.version = v
            PROVE  Accounted(v)'
        <4>1. d # c /\ call'[d] = call[d] /\ holder' = d
          BY <1>0, <3>3
        <4> QED BY <3>3, <4>1 DEF Accounted
      <3> QED BY <3>1, <3>2, <3>3 DEF Accounted
    <2> QED BY <1>4, <2>1, <2>2, <2>3 DEF VersionsKept
  <1> QED BY <1>2, <1>3, <1>4 DEF SecretInv

\* A step of the holder of the lock, which may write.
LEMMA HolderStep ==
  ASSUME SecretInv, NEW c \in Callers, holder = c, NEW k \in CallType,
         call' = [call EXCEPT ![c] = k], UNCHANGED <<backend, connection, restarts, legacy>>,
         row' \in Rows \cup {None}, native' \in [Versions -> Values \cup {None}],
         minted' \in Versions, minted <= minted', row' # None => row'.version <= minted',
         holder' \in {c, None}, excused' \subseteq Versions, SeenStep,
         InCall(c)', k.pc \notin {"fetch", "done"},
         ~legacy => /\ RowHolds' /\ Unminted' /\ Undisturbed(c)'
                    /\ \A v \in Versions : v <= minted => native'[v] \in {native[v], None}
                    /\ \A v \in Versions : Stored(v)' => Accounted(v)'
  PROVE  SecretInv'
  <1>0. call'[c] = k /\ \A d \in Callers \ {c} : call'[d] = call[d]
    BY DEF SecretInv, SecretShape, SecretBase
  <1>1. SecretBase'
    BY <1>0 DEF SecretInv, SecretShape, SecretBase
  <1>2. /\ SecretShape'
        /\ \A d \in Callers : call'[d].op = "resolve" => seen[d] \subseteq seen'[d]
    BY <1>1, SeenFacts DEF SecretInv
  <1>m. minted \in Nat /\ minted' \in Nat
    BY VersionFacts DEF SecretInv, SecretShape, SecretBase
  <1>3. ASSUME NEW d \in Callers \ {c}
        PROVE  /\ InCall(d)' /\ call'[d] = call[d] /\ call[d].pc \notin LockedPcs
               /\ InCall(d)
               /\ call[d].previous # None =>
                    call[d].previous.version \in Versions /\ call[d].previous.version <= minted
    <2>1. InCall(d) /\ call'[d] = call[d] /\ call[d] \in CallType
      BY <1>0 DEF SecretInv, SecretShape, SecretBase
    <2>2. call[d].pc \notin LockedPcs
      BY <2>1 DEF InCall
    <2>3. call[d].previous # None =>
            call[d].previous.version \in Versions /\ call[d].previous.version <= minted
      BY <2>1 DEF CallType, Rows, InCall
    <2>4. call[d].previous # None => call[d].previous.version <= minted'
      <3>1. ASSUME NEW n \in Nat, n <= minted PROVE n <= minted'
        BY <1>m, <3>1
      <3>2. call[d].previous # None =>
              call[d].previous.version \in Nat /\ call[d].previous.version <= minted
        BY <2>3, VersionFacts
      <3> QED BY <3>1, <3>2
    <2> QED BY <2>1, <2>2, <2>3, <2>4 DEF InCall, LockedPcs
  <1>4. ASSUME ~legacy PROVE VersionsKept'
    <2>0. VersionsKept
      BY <1>4 DEF SecretInv
    <2>1. ASSUME NEW d \in Callers \ {c} PROVE Undisturbed(d)' /\ Regular(d)'
      <3>1. Undisturbed(d)'
        BY <1>3 DEF Undisturbed, LockedPcs
      <3>2. Regular(d) /\ call'[d] = call[d]
        BY <1>3, <2>0 DEF VersionsKept
      <3>3. call[d].pc \in {"fetch", "done"} => seen[d] \subseteq seen'[d]
        BY <1>2, <1>3 DEF InCall
      <3>4. call[d].pc = "fetch" =>
              native'[call[d].previous.version] \in {native[call[d].previous.version], None}
        BY <1>3, <1>4 DEF InCall
      <3>5. Regular(d)'
        BY <3>2, <3>3, <3>4 DEF Regular
      <3> QED BY <3>1, <3>5
    <2>2. Regular(c)'
      BY <1>0 DEF Regular
    <2> QED BY <1>4, <2>1, <2>2 DEF VersionsKept
  <1> QED BY <1>2, <1>3, <1>4 DEF SecretInv

\* What is stored when c holds the lock.
LEMMA HolderAccounts ==
  ASSUME SecretInv, ~legacy, NEW c \in Callers, holder = c, NEW v \in Versions, Stored(v)
  PROVE  \/ row # None /\ row.version = v
         \/ v \in excused
         \/ call[c].pc = "staged" /\ call[c].version = v
         \/ call[c].pc = "cleanup" /\ call[c].previous # None /\ call[c].previous.version = v
  <1>1. Accounted(v)
    BY DEF SecretInv, VersionsKept
  <1> QED BY <1>1 DEF Accounted

LEMMA IdleTyped ==
  /\ Idle \in CallType /\ Idle.op = "none" /\ Idle.pc = "idle" /\ Idle.previous = None
  BY DEF Idle, CallType, CallPcs

\* The caller is idle again.
LEMMA BackToIdle ==
  ASSUME NEW c \in Callers, call \in [Callers -> CallType], call' = [call EXCEPT ![c] = Idle]
  PROVE  InCall(c)' /\ Undisturbed(c)' /\ Regular(c)' /\ call'[c] = Idle
  <1>1. call'[c] = Idle
    OBVIOUS
  <1> QED BY <1>1 DEF InCall, Undisturbed, Regular, Idle, LockedPcs

LEMMA FinishIdle ==
  ASSUME SecretInv, NEW c \in Callers, Finish(c), call[c].pc \notin {"staged", "cleanup"},
         UNCHANGED <<backend, row, native, minted, excused, legacy, restarts>>,
         connection' \in Connections \cup {None},
         connection \in Connections => connection' \in Connections, SeenStep
  PROVE  SecretInv'
  <1>1. call' = [call EXCEPT ![c] = Idle] /\ holder' \in Callers \cup {None}
        /\ \A d \in Callers \ {c} : holder = d => holder' = d
    BY DEF Finish, Go, SecretInv, SecretShape, SecretBase
  <1>2. InCall(c)' /\ Undisturbed(c)' /\ Regular(c)'
    BY <1>1, BackToIdle DEF SecretInv, SecretShape, SecretBase
  <1> QED BY <1>1, <1>2, IdleTyped, CallOnly

LEMMA GoIdle ==
  ASSUME SecretInv, NEW c \in Callers, Go(c, Idle), call[c].pc \notin {"staged", "cleanup"},
         UNCHANGED <<backend, row, native, minted, holder, connection, excused, legacy,
                     restarts>>, SeenStep
  PROVE  SecretInv'
  <1>1. call' = [call EXCEPT ![c] = Idle] /\ holder' \in Callers \cup {None}
        /\ connection' \in Connections \cup {None}
    BY DEF Go, SecretInv, SecretShape, SecretBase
  <1>2. InCall(c)' /\ Undisturbed(c)' /\ Regular(c)'
    BY <1>1, BackToIdle DEF SecretInv, SecretShape, SecretBase
  <1> QED BY <1>1, <1>2, IdleTyped, CallOnly

LEMMA BeginKeeps ==
  ASSUME SecretInv, NEW c \in Callers, NEW op \in {"set", "remove", "bind"},
         NEW v \in Values \cup {None}, op = "set" => v \in Values, Begin(c, op, v), SeenStep
  PROVE  SecretInv'
  <1> DEFINE k == [Idle EXCEPT !.op = op, !.pc = "lock", !.value = v]
  <1>1. /\ k \in CallType /\ k.op = op /\ k.pc = "lock" /\ k.value = v /\ k.previous = None
    BY IdleTyped DEF CallType, CallPcs
  <1>2. /\ call' = [call EXCEPT ![c] = k] /\ call[c].pc = "idle"
        /\ UNCHANGED <<backend, row, native, minted, holder, connection, excused, legacy,
                       restarts>>
    BY DEF Begin, Go
  <1> HIDE DEF k
  <1>3. /\ call'[c] = k
        /\ connection' \in Connections \cup {None} /\ holder' \in Callers \cup {None}
    BY <1>2 DEF SecretInv, SecretShape, SecretBase
  <1>4. InCall(c)' /\ Undisturbed(c)' /\ Regular(c)'
    BY <1>1, <1>3 DEF InCall, Undisturbed, Regular, LockedPcs
  <1> QED BY <1>1, <1>2, <1>3, <1>4, CallOnly

\* The facts about a caller that its steps start from.
LEMMA CallerFacts ==
  ASSUME SecretInv, NEW c \in Callers
  PROVE  /\ call \in [Callers -> CallType] /\ call[c] \in CallType /\ InCall(c)
         /\ holder \in Callers \cup {None} /\ connection \in Connections \cup {None}
         /\ row \in Rows \cup {None} /\ native \in [Versions -> Values \cup {None}]
         /\ minted \in Versions /\ minted \in Nat /\ excused \subseteq Versions
         /\ row # None => row.version <= minted /\ row.version \in Versions
         /\ ~legacy => RowHolds /\ Unminted /\ Undisturbed(c) /\ Regular(c)
  BY VersionFacts DEF SecretInv, SecretShape, SecretBase, VersionsKept, Rows

LEMMA AcquireKeeps ==
  ASSUME SecretInv, NEW c \in Callers, Acquire(c), SeenStep
  PROVE  SecretInv'
  <1> DEFINE k == [call[c] EXCEPT !.pc = "locked", !.previous = row]
  <1>0. call[c] \in CallType /\ row \in Rows \cup {None} /\ InCall(c)
    BY CallerFacts
  <1>1. call' = [call EXCEPT ![c] = k] /\ k \in CallType
    BY <1>0 DEF Acquire, Go, CallType, CallPcs
  <1>2. /\ call'[c] = k /\ call[c].pc = "lock" /\ holder = None /\ holder' = c
        /\ UNCHANGED <<backend, row, native, minted, connection, excused, legacy, restarts>>
        /\ connection' \in Connections \cup {None}
        /\ k.pc = "locked" /\ k.previous = row /\ k.op = call[c].op /\ k.value = call[c].value
    BY <1>0, <1>1, CallerFacts DEF Acquire, CallType
  <1> HIDE DEF k
  <1>3. InCall(c)'
    BY <1>0, <1>2, CallerFacts DEF InCall, LockedPcs
  <1>4. Undisturbed(c)' /\ Regular(c)'
    BY <1>2 DEF Undisturbed, Regular
  <1> QED BY <1>1, <1>2, <1>3, <1>4, VersionFacts, CallOnly

LEMMA StageKeeps ==
  ASSUME SecretInv, NEW c \in Callers, Stage(c), SeenStep
  PROVE  SecretInv'
  <1> DEFINE v == minted + 1
             k == [call[c] EXCEPT !.pc = "staged", !.version = v]
  <1>0. /\ call[c] \in CallType /\ InCall(c) /\ call[c].pc = "locked" /\ call[c].op = "set"
        /\ minted \in Nat /\ minted < MaxVersions /\ MaxVersions \in Nat
    BY CallerFacts, VersionFacts DEF Stage, At
  <1>v. v \in Versions /\ v \in Nat /\ minted < v /\ 1 <= v
    BY <1>0 DEF Versions
  <1>c. holder = c /\ call[c].value \in Values
    BY <1>0 DEF InCall, LockedPcs
  <1>1. call' = [call EXCEPT ![c] = k] /\ k \in CallType
    BY <1>0, <1>v DEF Stage, Go, CallType, CallPcs, FreshVersion
  <1>2. /\ call'[c] = k /\ holder' = c /\ minted' = v
        /\ UNCHANGED <<backend, row, connection, excused, legacy, restarts>>
        /\ k.pc = "staged" /\ k.previous = call[c].previous /\ k.op = "set"
        /\ k.value = call[c].value /\ k.version = v
    BY <1>0, <1>1, <1>c, CallerFacts DEF Stage, CallType
  <1>3. native' = IF UsesNative(backend) THEN [native EXCEPT ![v] = call[c].value] ELSE native
    BY DEF Stage, FreshVersion
  <1>r. row # None => row.version < v /\ row.version <= v /\ row.version \in Versions
    <2>1. row # None => row.version \in Nat /\ row.version <= minted /\ row.version \in Versions
      BY CallerFacts, VersionFacts
    <2> QED BY <1>v, <1>0, <2>1
  <1>p. call[c].previous # None => call[c].previous.version <= v
    <2>1. call[c].previous # None =>
            call[c].previous.version \in Nat /\ call[c].previous.version <= minted
      BY <1>0, VersionFacts DEF InCall, CallType, Rows
    <2> QED BY <2>1, <1>0, <1>v
  <1> HIDE DEF k, v
  <1>4. InCall(c)'
    BY <1>0, <1>c, <1>2, <1>r, <1>p, <1>v DEF InCall, LockedPcs
  <1>n. /\ native' \in [Versions -> Values \cup {None}]
        /\ \A w \in Versions : w # v => native'[w] = native[w]
        /\ native'[v] \in {native[v], call[c].value}
        /\ backend = "vault" => native' = native
    BY <1>3, <1>v, <1>c, CallerFacts DEF UsesNative
  <1>w. \A w \in Versions : (w <= minted => w # v) /\ (w > v => w > minted /\ w # v)
    <2>1. \A w \in Versions : w \in Nat
      BY VersionFacts
    <2>2. ASSUME NEW w \in Nat PROVE (w <= minted => w # v) /\ (w > v => w > minted /\ w # v)
      BY <1>v, <1>0
    <2> QED BY <2>1, <2>2
  <1>5. ASSUME ~legacy
        PROVE  /\ RowHolds' /\ Unminted' /\ Undisturbed(c)'
               /\ \A w \in Versions : w <= minted => native'[w] \in {native[w], None}
               /\ \A w \in Versions : Stored(w)' => Accounted(w)'
    <2>0. RowHolds /\ Unminted /\ Undisturbed(c)
      BY <1>5, CallerFacts
    <2>r. row # None => row.version \in Versions /\ row.version # v
      BY <1>r, <1>v, VersionFacts
    <2>1. RowHolds'
      BY <2>0, <2>r, <1>2, <1>n DEF RowHolds
    <2>2. Unminted'
      BY <2>0, <1>2, <1>n, <1>w DEF Unminted
    <2>3. native[v] = None
      BY <2>0, <1>v DEF Unminted
    <2>4. Undisturbed(c)'
      BY <2>0, <2>3, <1>0, <1>2, <1>n DEF Undisturbed
    <2>5. \A w \in Versions : w <= minted => native'[w] \in {native[w], None}
      BY <1>n, <1>w
    <2>6. ASSUME NEW w \in Versions, Stored(w)' PROVE Accounted(w)'
      <3>1. CASE w = v
        BY <3>1, <1>2 DEF Accounted
      <3>2. CASE w # v
        <4>1. Stored(w)
          BY <2>6, <3>2, <1>n DEF Stored
        <4> QED BY <4>1, <1>5, <1>c, <1>0, <1>2, HolderAccounts DEF Accounted
      <3> QED BY <3>1, <3>2
    <2> QED BY <2>1, <2>2, <2>4, <2>5, <2>6
  <1>6. /\ minted' \in Versions /\ minted <= minted' /\ row' \in Rows \cup {None}
        /\ row' # None => row'.version <= minted'
        /\ excused' \subseteq Versions
    BY <1>2, <1>v, <1>0, <1>r, CallerFacts
  <1> QED BY <1>1, <1>2, <1>c, <1>4, <1>5, <1>6, <1>n, HolderStep

\* The holder's call ends; what is deleted is not what the row names, and
\* what is left is named or excused.
LEMMA DropKeeps ==
  ASSUME SecretInv, NEW c \in Callers, SeenStep, holder = c, Finish(c),
         UNCHANGED <<backend, row, minted, connection, restarts, legacy>>,
         native' \in [Versions -> Values \cup {None}],
         \A w \in Versions : native'[w] \in {native[w], None},
         excused \subseteq excused', excused' \subseteq Versions,
         ~legacy => /\ row # None => native'[row.version] = native[row.version]
                    /\ \A w \in Versions : native'[w] # None =>
                         (row # None /\ row.version = w) \/ w \in excused'
  PROVE  SecretInv'
  <1>1. call' = [call EXCEPT ![c] = Idle] /\ holder' = None
    BY DEF Finish, Go
  <1>2. InCall(c)' /\ Undisturbed(c)'
    BY <1>1, CallerFacts, BackToIdle
  <1>3. /\ Idle \in CallType /\ minted' \in Versions /\ row' \in Rows \cup {None}
        /\ minted' = minted /\ minted \in Nat /\ (row' # None => row'.version <= minted')
    BY CallerFacts, IdleTyped
  <1>4. ASSUME ~legacy
        PROVE  /\ RowHolds' /\ Unminted'
               /\ \A w \in Versions : Stored(w)' => Accounted(w)'
    <2>0. RowHolds /\ Unminted
      BY <1>4, CallerFacts
    <2>1. RowHolds'
      BY <2>0, <1>4 DEF RowHolds
    <2>2. Unminted'
      BY <2>0 DEF Unminted
    <2>3. ASSUME NEW w \in Versions, Stored(w)' PROVE Accounted(w)'
      BY <2>3, <1>4 DEF Accounted, Stored
    <2> QED BY <2>1, <2>2, <2>3
  <1>5. Idle.pc \notin {"fetch", "done"}
    BY DEF Idle
  <1>6. minted <= minted' /\ holder' \in {c, None}
    BY <1>1, <1>3
  <1>7. \A w \in Versions : w <= minted => native'[w] \in {native[w], None}
    OBVIOUS
  <1> QED BY <1>1, <1>2, <1>3, <1>4, <1>5, <1>6, <1>7, HolderStep

LEMMA StagingFailsKeeps ==
  ASSUME SecretInv, NEW c \in Callers, StagingFails(c), SeenStep
  PROVE  SecretInv'
  <1>1. /\ call[c] \in CallType /\ InCall(c) /\ call[c].pc = "staged" /\ Finish(c)
        /\ UNCHANGED <<backend, row, minted, connection, restarts, legacy>>
    BY CallerFacts DEF StagingFails, At
  <1>2. holder = c /\ call[c].version = minted /\ (row # None => row.version < minted)
    BY <1>1 DEF InCall, LockedPcs
  <1>3. /\ minted \in Versions /\ minted \in Nat
        /\ row # None => row.version \in Versions /\ row.version # minted
    BY <1>2, CallerFacts, VersionFacts
  <1>4. \/ native' = [native EXCEPT ![minted] = None] /\ excused' = excused
        \/ native' = native /\ excused' = excused \cup {minted}
    BY <1>2 DEF StagingFails
  <1>5. /\ native' \in [Versions -> Values \cup {None}]
        /\ \A w \in Versions : native'[w] \in {native[w], None}
        /\ \A w \in Versions : w # minted => native'[w] = native[w]
        /\ native'[minted] = None \/ minted \in excused'
        /\ excused \subseteq excused' /\ excused' \subseteq Versions
    BY <1>3, <1>4, CallerFacts
  <1>6. ASSUME ~legacy
        PROVE  /\ row # None => native'[row.version] = native[row.version]
               /\ \A w \in Versions : native'[w] # None =>
                    (row # None /\ row.version = w) \/ w \in excused'
    <2>1. ASSUME NEW w \in Versions, native'[w] # None, w # minted
          PROVE  (row # None /\ row.version = w) \/ w \in excused'
      BY <1>1, <1>2, <1>5, <1>6, <2>1, HolderAccounts DEF Stored
    <2> QED BY <1>3, <1>5, <2>1
  <1> QED BY <1>1, <1>2, <1>5, <1>6, DropKeeps

LEMMA CleanupKeeps ==
  ASSUME SecretInv, NEW c \in Callers, Cleanup(c), SeenStep
  PROVE  SecretInv'
  <1> DEFINE p == call[c].previous
  <1>1. /\ call[c] \in CallType /\ InCall(c) /\ call[c].pc = "cleanup" /\ Finish(c)
        /\ UNCHANGED <<backend, row, minted, connection, restarts, legacy>>
    BY CallerFacts DEF Cleanup
  <1>2. holder = c /\ call[c].op \in {"set", "remove"} /\ p \in Rows \cup {None}
    BY <1>1 DEF InCall, LockedPcs, CallType
  <1>3. p # None => p.version \in Versions /\ p.backend \in BackendNames
    BY <1>2 DEF Rows
  <1>4. \/ p # None /\ native' = [native EXCEPT ![p.version] = None] /\ excused' = excused
        \/ p # None /\ native' = native /\ excused' = excused \cup {p.version}
        \/ native' = native /\ excused' = excused /\ (p = None \/ ~UsesNative(p.backend))
    BY DEF Cleanup
  <1>5. /\ native' \in [Versions -> Values \cup {None}]
        /\ \A w \in Versions : native'[w] \in {native[w], None}
        /\ \A w \in Versions : ~(p # None /\ p.version = w) => native'[w] = native[w]
        /\ excused \subseteq excused' /\ excused' \subseteq Versions
    BY <1>3, <1>4, CallerFacts
  <1>6. ASSUME ~legacy
        PROVE  /\ row # None => native'[row.version] = native[row.version]
               /\ \A w \in Versions : native'[w] # None =>
                    (row # None /\ row.version = w) \/ w \in excused'
    <2>0. Undisturbed(c)
      BY <1>6, CallerFacts
    <2>1. p # None /\ row # None => p.version # row.version
      <3>1. ASSUME p # None, row # None PROVE p.version < row.version
        BY <1>1, <1>2, <2>0, <3>1 DEF Undisturbed, InCall
      <3>2. row # None => row.version \in Nat
        BY CallerFacts, VersionFacts
      <3>3. p # None => p.version \in Nat
        BY <1>3, VersionFacts
      <3> QED BY <3>1, <3>2, <3>3
    <2>2. p # None => native'[p.version] = None \/ p.version \in excused'
      <3>1. p # None /\ ~UsesNative(p.backend) => p.backend = "vault"
        BY <1>3 DEF BackendNames, UsesNative
      <3>2. p # None /\ p.backend = "vault" => native[p.version] = None
        BY <1>1, <2>0 DEF Undisturbed
      <3> QED BY <1>3, <1>4, <3>1, <3>2, CallerFacts
    <2>3. ASSUME NEW w \in Versions, native'[w] # None, ~(p # None /\ p.version = w)
          PROVE  (row # None /\ row.version = w) \/ w \in excused'
      BY <1>1, <1>2, <1>5, <1>6, <2>3, HolderAccounts DEF Stored
    <2>4. row # None => row.version \in Versions
      BY CallerFacts
    <2> QED BY <1>5, <2>1, <2>2, <2>3, <2>4
  <1> QED BY <1>1, <1>2, <1>5, <1>6, DropKeeps

LEMMA PublishKeeps ==
  ASSUME SecretInv, NEW c \in Callers, Publish(c), SeenStep
  PROVE  SecretInv'
  <1> DEFINE k == [call[c] EXCEPT !.pc = "cleanup"]
             r == [backend |-> backend, version |-> call[c].version,
                   copy |-> Copy(call[c].value)]
  <1>1. /\ call[c] \in CallType /\ InCall(c) /\ call[c].pc = "staged" /\ call[c].op = "set"
        /\ UNCHANGED <<backend, native, minted, holder, connection, restarts, excused, legacy>>
        /\ row' = r /\ (UsesNative(backend) => native[call[c].version] = call[c].value)
        /\ call' = [call EXCEPT ![c] = k]
    BY CallerFacts DEF Publish, At, Go
  <1>2. /\ holder = c /\ call[c].version = minted /\ (row # None => row.version < minted)
        /\ call[c].value \in Values
    BY <1>1 DEF InCall, LockedPcs
  <1>3. backend \in BackendNames
    BY BackendsAssumption DEF SecretInv, SecretShape, SecretBase
  <1>4. /\ k \in CallType /\ call'[c] = k /\ k.pc = "cleanup" /\ k.op = "set"
        /\ k.value = call[c].value /\ k.version = minted /\ k.previous = call[c].previous
    BY <1>1, <1>2, CallerFacts DEF CallType, CallPcs
  <1>5. /\ r \in Rows /\ r # None /\ r.version = minted /\ r.backend = backend
        /\ r.copy = Copy(call[c].value)
    BY <1>2, <1>3, CallerFacts, VersionFacts DEF Rows, Copy
  <1>6. ASSUME ~legacy PROVE call[c].previous = row
    BY <1>1, <1>6, CallerFacts DEF Undisturbed
  <1>p. call[c].previous # None => call[c].previous.version <= minted
    BY <1>1 DEF InCall
  <1>m. minted \in Nat /\ minted \in Versions /\ native \in [Versions -> Values \cup {None}]
    BY CallerFacts
  <1> HIDE DEF k, r
  <1>7. InCall(c)'
    BY <1>1, <1>2, <1>4, <1>p DEF InCall, LockedPcs
  <1>8. ASSUME ~legacy
        PROVE  /\ RowHolds' /\ Unminted' /\ Undisturbed(c)'
               /\ \A w \in Versions : Stored(w)' => Accounted(w)'
    <2>0. Unminted /\ Undisturbed(c) /\ RowHolds
      BY <1>8, CallerFacts
    <2>1. RowHolds'
      <3>1. CASE backend = "vault"
        <4>1. native[minted] = None /\ r.copy = call[c].value
          BY <3>1, <2>0, <1>1, <1>2, <1>5 DEF Undisturbed, Copy, UsesVault
        <4> QED BY <4>1, <3>1, <1>1, <1>2, <1>5 DEF RowHolds
      <3>2. CASE backend # "vault"
        <4>1. native[minted] = call[c].value /\ r.copy \in {None, call[c].value}
          BY <3>2, <1>1, <1>2, <1>3, <1>5 DEF UsesNative, BackendNames, Copy
        <4> QED BY <4>1, <3>2, <1>1, <1>2, <1>5 DEF RowHolds
      <3> QED BY <3>1, <3>2
    <2>2. Unminted'
      BY <2>0, <1>1 DEF Unminted
    <2>3. call[c].previous # None /\ call[c].previous.backend = "vault" =>
            native[call[c].previous.version] = None
      BY <2>0, <1>6, <1>8 DEF RowHolds
    <2>4. Undisturbed(c)'
      BY <2>3, <1>1, <1>2, <1>4, <1>5, <1>6, <1>8 DEF Undisturbed
    <2>5. ASSUME NEW w \in Versions, Stored(w)' PROVE Accounted(w)'
      <3>1. \/ call[c].previous # None /\ call[c].previous.version = w
            \/ w \in excused
            \/ minted = w
        BY <2>5, <1>1, <1>2, <1>6, <1>8, HolderAccounts DEF Stored
      <3> QED BY <3>1, <1>1, <1>2, <1>4, <1>5 DEF Accounted
    <2> QED BY <2>1, <2>2, <2>4, <2>5
  <1>9. /\ minted' \in Versions /\ minted <= minted' /\ row' \in Rows \cup {None}
        /\ row' # None => row'.version <= minted'
        /\ excused' \subseteq Versions /\ native' \in [Versions -> Values \cup {None}]
        /\ \A v \in Versions : v <= minted => native'[v] \in {native[v], None}
        /\ holder' \in {c, None} /\ k.pc \notin {"fetch", "done"}
    BY <1>1, <1>2, <1>4, <1>5, <1>m, CallerFacts
  <1> QED BY <1>1, <1>2, <1>4, <1>7, <1>8, <1>9, HolderStep

LEMMA UnpublishKeeps ==
  ASSUME SecretInv, NEW c \in Callers, Unpublish(c), SeenStep
  PROVE  SecretInv'
  <1>1. /\ call[c] \in CallType /\ InCall(c) /\ call[c].pc = "locked" /\ call[c].op = "remove"
        /\ UNCHANGED <<backend, native, minted, connection, restarts, excused, legacy>>
        /\ connection \in Connections \cup {None}
    BY CallerFacts DEF Unpublish, At
  <1>2. CASE call[c].previous = None
    <2>1. Finish(c) /\ row' = row
      BY <1>2 DEF Unpublish
    <2> QED BY <1>1, <2>1, FinishIdle
  <1>3. CASE call[c].previous # None
    <2> DEFINE k == [call[c] EXCEPT !.pc = "cleanup"]
    <2>1. row' = None /\ holder' = holder /\ call' = [call EXCEPT ![c] = k]
      BY <1>3 DEF Unpublish, Go
    <2>2. /\ k \in CallType /\ call'[c] = k /\ k.pc = "cleanup" /\ k.op = "remove"
          /\ k.value = call[c].value /\ k.previous = call[c].previous
      BY <1>1, <2>1, CallerFacts DEF CallType, CallPcs
    <2> HIDE DEF k
    <2>3. /\ holder = c
          /\ call[c].previous # None => call[c].previous.version <= minted
      BY <1>1 DEF InCall, LockedPcs
    <2>4. InCall(c)'
      BY <1>1, <2>1, <2>2, <2>3 DEF InCall, LockedPcs
    <2>5. ASSUME ~legacy
          PROVE  /\ RowHolds' /\ Unminted' /\ Undisturbed(c)'
                 /\ \A w \in Versions : Stored(w)' => Accounted(w)'
      <3>0. Unminted /\ Undisturbed(c) /\ RowHolds
        BY <2>5, CallerFacts
      <3>1. RowHolds' /\ Unminted'
        BY <3>0, <1>1, <2>1 DEF RowHolds, Unminted
      <3>2. call[c].previous = row
        BY <3>0, <1>1 DEF Undisturbed
      <3>3. Undisturbed(c)'
        BY <3>0, <3>2, <1>1, <2>1, <2>2 DEF Undisturbed, RowHolds
      <3>4. ASSUME NEW w \in Versions, Stored(w)' PROVE Accounted(w)'
        <4>1. (call[c].previous # None /\ call[c].previous.version = w) \/ w \in excused
          BY <3>2, <3>4, <1>1, <2>3, <2>5, HolderAccounts DEF Stored
        <4> QED BY <4>1, <1>1, <2>1, <2>2, <2>3 DEF Accounted
      <3> QED BY <3>1, <3>3, <3>4
    <2>6. /\ minted' \in Versions /\ minted <= minted' /\ row' \in Rows \cup {None}
          /\ row' # None => row'.version <= minted'
          /\ excused' \subseteq Versions /\ native' \in [Versions -> Values \cup {None}]
          /\ \A v \in Versions : v <= minted => native'[v] \in {native[v], None}
          /\ holder' \in {c, None} /\ k.pc \notin {"fetch", "done"}
      BY <1>1, <2>1, <2>2, <2>3, CallerFacts
    <2> QED BY <1>1, <2>1, <2>2, <2>3, <2>4, <2>5, <2>6, HolderStep
  <1> QED BY <1>2, <1>3

LEMMA ReadKeeps ==
  ASSUME SecretInv, NEW c \in Callers, BeginResolve(c) \/ ReadRow(c) \/ Fetch(c), SeenStep
  PROVE  SecretInv'
  <1>0. /\ call[c] \in CallType /\ call \in [Callers -> CallType] /\ InCall(c)
        /\ row \in Rows \cup {None} /\ native \in [Versions -> Values \cup {None}]
        /\ row # None => row.version <= minted
        /\ UNCHANGED <<backend, row, native, minted, holder, connection, excused, legacy,
                       restarts>>
        /\ connection' \in Connections \cup {None} /\ holder' \in Callers \cup {None}
    BY CallerFacts DEF BeginResolve, ReadRow, Fetch
  <1>s. ASSUME NEW k \in CallType, call' = [call EXCEPT ![c] = k], k.op = "resolve"
        PROVE  seen[c] \subseteq seen'[c] /\ Current \in seen'[c] /\ call'[c] = k
    BY <1>0, <1>s DEF SeenStep
  <1>1. CASE BeginResolve(c)
    <2> DEFINE k == [Idle EXCEPT !.op = "resolve", !.pc = "read"]
    <2>1. /\ k \in CallType /\ k.op = "resolve" /\ k.pc = "read" /\ k.previous = None
          /\ call' = [call EXCEPT ![c] = k] /\ call[c].pc = "idle"
      BY <1>1, IdleTyped DEF BeginResolve, Go, CallType, CallPcs
    <2> HIDE DEF k
    <2>2. call'[c] = k
      BY <1>0, <2>1
    <2>3. InCall(c)' /\ Undisturbed(c)' /\ Regular(c)'
      BY <2>1, <2>2 DEF InCall, Undisturbed, Regular, LockedPcs
    <2> QED BY <1>0, <2>1, <2>3, CallOnly
  <1>2. CASE ReadRow(c)
    <2>1. call[c].pc = "read" /\ call[c].op = "resolve"
      BY <1>2 DEF ReadRow, At
    <2>2. CASE row = None
      BY <1>0, <1>2, <2>1, <2>2, GoIdle DEF ReadRow
    <2>3. CASE row # None
      <3> DEFINE k == [call[c] EXCEPT !.pc = "fetch", !.previous = row]
      <3>1. /\ k \in CallType /\ k.op = "resolve" /\ k.pc = "fetch" /\ k.previous = row
            /\ call' = [call EXCEPT ![c] = k]
        BY <1>0, <1>2, <2>1, <2>3 DEF ReadRow, Go, CallType, CallPcs
      <3> HIDE DEF k
      <3>2. call'[c] = k /\ Current \in seen'[c]
        BY <1>s, <3>1
      <3>3. InCall(c)' /\ Undisturbed(c)'
        BY <1>0, <2>3, <3>1, <3>2 DEF InCall, Undisturbed, LockedPcs
      <3>4. ASSUME ~legacy PROVE Regular(c)'
        <4>1. RowHolds
          BY <3>4, CallerFacts
        <4>2. /\ row.backend = "vault" => Current = row.copy
              /\ row.backend # "vault" => Current = native[row.version]
          BY <2>3, <4>1, VersionFacts DEF RowHolds, Current, Resolved, Stored
        <4> QED BY <1>0, <2>3, <3>1, <3>2, <4>1, <4>2 DEF Regular, RowHolds
      <3> QED BY <1>0, <2>1, <3>1, <3>3, <3>4, CallOnly
    <2> QED BY <2>2, <2>3
  <1>3. CASE Fetch(c)
    <2>1. call[c].pc = "fetch" /\ call[c].op = "resolve" /\ call[c].previous # None
      BY <1>0, <1>3 DEF Fetch, At, InCall
    <2>2. PICK answers \in BOOLEAN :
            Go(c, [call[c] EXCEPT !.pc = "done",
                                  !.value = Resolved(call[c].previous, answers)])
      BY <1>3 DEF Fetch
    <2> DEFINE v == Resolved(call[c].previous, answers)
               k == [call[c] EXCEPT !.pc = "done", !.value = v]
    <2>3. /\ call[c].previous \in Rows /\ call[c].previous.copy \in Values \cup {None}
          /\ call[c].previous.version \in Versions
      BY <1>0, <2>1 DEF CallType, Rows
    <2>4. v \in Values \cup {None}
      BY <1>0, <2>3 DEF Resolved
    <2> HIDE DEF v
    <2>5. /\ k \in CallType /\ k.op = "resolve" /\ k.pc = "done" /\ k.value = v
          /\ k.previous = call[c].previous
      BY <1>0, <2>1, <2>4 DEF CallType, CallPcs
    <2>6. call' = [call EXCEPT ![c] = k]
      BY <2>2 DEF Go, v
    <2> HIDE DEF k
    <2>7. call'[c] = k /\ seen[c] \subseteq seen'[c]
      BY <1>s, <2>5, <2>6
    <2>8. InCall(c)' /\ Undisturbed(c)'
      BY <1>0, <2>1, <2>5, <2>7 DEF InCall, Undisturbed, LockedPcs
    <2>9. ASSUME ~legacy PROVE Regular(c)'
      <3>1. v \in seen[c] \cup {None}
        BY <2>1, <2>9, CallerFacts DEF Regular, v, Resolved
      <3> QED BY <3>1, <2>5, <2>7 DEF Regular
    <2> QED BY <1>0, <2>1, <2>5, <2>6, <2>8, <2>9, CallOnly
  <1> QED BY <1>1, <1>2, <1>3

LEMMA BindKeeps ==
  ASSUME SecretInv, NEW c \in Callers, CheckBinding(c) \/ Bind(c), SeenStep
  PROVE  SecretInv'
  <1>0. /\ call[c] \in CallType /\ call \in [Callers -> CallType] /\ InCall(c)
        /\ connection \in Connections \cup {None} /\ holder \in Callers \cup {None}
        /\ MaxRevisions \in Nat
    BY CallerFacts, VersionFacts
  <1>1. CASE CheckBinding(c)
    <2>1. /\ call[c].pc = "locked" /\ call[c].op = "bind" /\ connection \in Connections
          /\ UNCHANGED <<backend, row, native, minted, connection, excused, legacy, restarts>>
      BY <1>0, <1>1 DEF CheckBinding, At
    <2>2. CASE Finish(c)
      BY <2>1, <2>2, FinishIdle
    <2>3. CASE ~Finish(c)
      <3>1. PICK revision \in 1 .. MaxRevisions :
              /\ holder' = holder
              /\ Go(c, [call[c] EXCEPT !.pc = "bind", !.version = revision])
        BY <1>1, <2>3 DEF CheckBinding
      <3> DEFINE k == [call[c] EXCEPT !.pc = "bind", !.version = revision]
      <3>2. revision \in Nat
        BY <1>0, <3>1
      <3>3. /\ k \in CallType /\ k.op = "bind" /\ k.pc = "bind"
            /\ k.previous = call[c].previous
        BY <1>0, <2>1, <3>2 DEF CallType, CallPcs
      <3>4. call' = [call EXCEPT ![c] = k]
        BY <3>1 DEF Go
      <3> HIDE DEF k
      <3>5. call'[c] = k /\ holder = c /\ holder' \in Callers \cup {None}
        BY <1>0, <2>1, <3>1, <3>4 DEF InCall, LockedPcs
      <3>6. InCall(c)' /\ Undisturbed(c)' /\ Regular(c)'
        BY <1>0, <2>1, <3>1, <3>3, <3>5 DEF InCall, Undisturbed, Regular, LockedPcs
      <3> QED BY <1>0, <2>1, <3>1, <3>3, <3>4, <3>5, <3>6, CallOnly
    <2> QED BY <2>2, <2>3
  <1>2. CASE Bind(c)
    <2>1. /\ call[c].pc = "bind" /\ connection \in Connections /\ Finish(c)
          /\ UNCHANGED <<backend, row, native, minted, excused, legacy, restarts>>
      BY <1>0, <1>2 DEF Bind, At, InCall
    <2>2. /\ connection.revision \in 1 .. MaxRevisions /\ connection.revision < MaxRevisions
      BY <1>2, <2>1 DEF Bind, Connections
    <2>3. connection.revision + 1 \in 1 .. MaxRevisions
      BY <1>0, <2>2
    <2>4. connection' \in Connections
      BY <1>2, <2>1, <2>3 DEF Bind, Connections
    <2> QED BY <2>1, <2>4, FinishIdle
  <1> QED BY <1>1, <1>2

\* Once an old client has written, the calls still are where they are.
LEMMA LegacyKeeps ==
  ASSUME SecretInv, NEW c \in Callers, SeenStep,
         (\E v \in Values : LegacyWrite(c, v)) \/ LegacyRow(c) \/ LegacyDelete(c)
  PROVE  SecretInv'
  <1>0. /\ call[c] \in CallType /\ call \in [Callers -> CallType] /\ InCall(c)
        /\ row \in Rows \cup {None} /\ native \in [Versions -> Values \cup {None}]
        /\ 0 \in Versions /\ minted \in Nat /\ backend \in BackendNames
        /\ UNCHANGED <<minted, holder, connection, backend, restarts, excused>>
    <2>1. 0 \in Versions /\ backend \in BackendNames
      BY VersionFacts, BackendsAssumption DEF Versions, SecretInv, SecretShape, SecretBase
    <2>2. UNCHANGED <<minted, holder, connection, backend, restarts, excused>>
      BY DEF LegacyWrite, LegacyRow, LegacyDelete
    <2> QED BY <2>1, <2>2, CallerFacts
  <1>1. legacy' = TRUE
    BY <1>0 DEF LegacyWrite, LegacyRow, LegacyDelete, At, InCall, SecretInv, SecretShape,
           SecretBase
  <1>2. /\ call' \in [Callers -> CallType]
        /\ \A d \in Callers \ {c} : call'[d] = call[d]
        /\ InCall(c)' \/ (call[c].pc = "idle" /\ call'[c] = call[c])
    <2>1. CASE \E v \in Values : LegacyWrite(c, v)
      <3>1. PICK v \in Values : LegacyWrite(c, v)
        BY <2>1
      <3> DEFINE k == [Idle EXCEPT !.op = "legacy", !.pc = "row", !.value = v]
      <3>2. /\ k \in CallType /\ k.op = "legacy" /\ k.pc = "row" /\ k.previous = None
            /\ call' = [call EXCEPT ![c] = k]
        BY <3>1, IdleTyped DEF LegacyWrite, Go, CallType, CallPcs
      <3> HIDE DEF k
      <3>3. call'[c] = k
        BY <1>0, <3>2
      <3> QED BY <1>0, <1>1, <3>2, <3>3 DEF InCall, LockedPcs
    <2>2. CASE LegacyRow(c)
      <3>1. call' = [call EXCEPT ![c] = Idle]
        BY <2>2 DEF LegacyRow, Go
      <3> QED BY <1>0, <3>1, IdleTyped, BackToIdle
    <2>3. CASE LegacyDelete(c)
      BY <1>0, <2>3 DEF LegacyDelete
    <2> QED BY <2>1, <2>2, <2>3
  <1>3. /\ row' \in Rows \cup {None} /\ native' \in [Versions -> Values \cup {None}]
        /\ row' # None => row'.version <= minted
        /\ row' # None => row'.version = 0 \/ (row # None /\ row'.version = row.version)
    <2>1. CASE \E v \in Values : LegacyWrite(c, v)
      BY <1>0, <2>1, CallerFacts DEF LegacyWrite
    <2>2. CASE LegacyRow(c)
      <3>1. Copy(call[c].value) \in Values \cup {None}
        BY <1>0 DEF Copy, CallType
      <3>2. (IF row = None THEN 0 ELSE row.version) \in Versions
        BY <1>0, CallerFacts
      <3>3. row' = [backend |-> backend, copy |-> Copy(call[c].value),
                    version |-> IF row = None THEN 0 ELSE row.version]
        BY <2>2 DEF LegacyRow
      <3>4. row' \in Rows /\ row'.version = (IF row = None THEN 0 ELSE row.version)
        BY <1>0, <3>1, <3>2, <3>3 DEF Rows
      <3> QED BY <1>0, <2>2, <3>4, CallerFacts DEF LegacyRow
    <2>3. CASE LegacyDelete(c)
      BY <1>0, <2>3, CallerFacts DEF LegacyDelete
    <2> QED BY <2>1, <2>2, <2>3
  <1>4. SecretBase'
    BY <1>0, <1>1, <1>2, <1>3 DEF SecretInv, SecretShape, SecretBase
  <1>5. SecretShape'
    BY <1>4, SeenFacts DEF SecretInv
  <1>6. ASSUME NEW d \in Callers, call'[d] = call[d] PROVE InCall(d)'
    <2>1. InCall(d) /\ call[d] \in CallType
      BY CallerFacts
    <2>2. call[d].pc = "staged" /\ row' # None => row'.version < call[d].version
      <3> SUFFICES ASSUME call[d].pc = "staged", row' # None
                   PROVE  row'.version < call[d].version
        OBVIOUS
      <3>1. call[d].version \in Nat /\ call[d].version >= 1
            /\ (row # None => row.version < call[d].version)
        BY <2>1 DEF InCall, CallType
      <3> QED BY <3>1, <1>3
    <2> QED BY <1>0, <1>1, <1>6, <2>1, <2>2 DEF InCall
  <1> QED BY <1>1, <1>2, <1>5, <1>6 DEF SecretInv

LEMMA CreateKeeps ==
  ASSUME SecretInv, CreateConnection, SeenStep PROVE SecretInv'
  <1>1. /\ connection = None /\ connection' \in Connections
        /\ UNCHANGED <<backend, row, native, minted, holder, call, restarts, excused, legacy>>
    BY VersionFacts DEF CreateConnection, Connections
  <1>2. SecretBase'
    BY <1>1 DEF SecretInv, SecretShape, SecretBase
  <1>3. /\ SecretShape'
        /\ \A d \in Callers : call'[d].op = "resolve" => seen[d] \subseteq seen'[d]
    BY <1>2, SeenFacts DEF SecretInv
  <1>4. \A d \in Callers : InCall(d)'
    BY <1>1 DEF SecretInv, InCall
  <1>5. ASSUME ~legacy PROVE VersionsKept'
    <2>0. VersionsKept
      BY <1>5 DEF SecretInv
    <2>1. RowHolds' /\ Unminted' /\ \A v \in Versions : Stored(v)' => Accounted(v)'
      BY <1>1, <2>0 DEF VersionsKept, RowHolds, Unminted, Stored, Accounted
    <2>2. ASSUME NEW d \in Callers PROVE Undisturbed(d)' /\ Regular(d)'
      <3>1. Undisturbed(d) /\ Regular(d) /\ InCall(d)
        BY <2>0 DEF VersionsKept, SecretInv
      <3>2. call[d].pc \in {"fetch", "done"} => seen[d] \subseteq seen'[d]
        BY <1>1, <1>3, <3>1 DEF InCall
      <3> QED BY <1>1, <3>1, <3>2 DEF Undisturbed, Regular
    <2> QED BY <2>1, <2>2 DEF VersionsKept
  <1> QED BY <1>1, <1>3, <1>4, <1>5 DEF SecretInv

LEMMA RestartKeeps ==
  ASSUME SecretInv, Restart, SeenStep PROVE SecretInv'
  <1>1. /\ backend' \in Backends /\ holder' = None /\ call' = [c \in Callers |-> Idle]
        /\ UNCHANGED <<row, native, minted, connection, legacy>>
        /\ excused' = excused \cup
             {v \in Versions : Stored(v) /\ (row = None \/ row.version # v)}
    BY DEF Restart
  <1>2. restarts' \in 0 .. MaxRestarts
    BY VersionFacts DEF Restart, SecretInv, SecretShape, SecretBase
  <1>3. call' \in [Callers -> CallType]
    BY <1>1, IdleTyped
  <1>4. SecretBase'
    BY <1>1, <1>2, <1>3 DEF SecretInv, SecretShape, SecretBase
  <1>5. SecretShape'
    BY <1>4, SeenFacts DEF SecretInv
  <1>6. \A c \in Callers : InCall(c)' /\ Undisturbed(c)' /\ Regular(c)'
    BY <1>1 DEF InCall, Undisturbed, Regular, Idle, LockedPcs
  <1>7. ASSUME ~legacy PROVE VersionsKept'
    <2>0. RowHolds /\ Unminted
      BY <1>7 DEF SecretInv, VersionsKept
    <2>1. RowHolds' /\ Unminted'
      BY <2>0, <1>1 DEF RowHolds, Unminted
    <2>2. \A v \in Versions : Stored(v)' => Accounted(v)'
      BY <1>1 DEF Stored, Accounted
    <2> QED BY <1>6, <2>1, <2>2 DEF VersionsKept
  <1> QED BY <1>1, <1>5, <1>6, <1>7 DEF SecretInv

LEMMA SecretStutter == ASSUME SecretInv, UNCHANGED secretVars PROVE SecretInv'
  BY DEF SecretInv, SecretShape, SecretBase, InCall, VersionsKept, RowHolds, Unminted,
         Undisturbed, Regular, Accounted, Stored, secretVars

LEMMA SecretInvStep == SecretInv /\ [SecretNext]_secretVars => SecretInv'
  <1> SUFFICES ASSUME SecretInv, SecretNext PROVE SecretInv'
    BY SecretStutter
  <1>0. SeenStep
    BY DEF SecretNext, SeenStep
  <1>1. ASSUME NEW c \in Callers, SecretStep(c) PROVE SecretInv'
    <2>0. connection \in Connections \cup {None}
      BY CallerFacts
    <2>1. CASE \E v \in Values : BeginSet(c, v)
      BY <1>0, <2>1, BeginKeeps DEF BeginSet
    <2>2. CASE BeginRemove(c) \/ BeginBind(c)
      BY <1>0, <2>2, BeginKeeps DEF BeginRemove, BeginBind
    <2>3. CASE Busy(c) \/ Answered(c)
      BY <1>0, <2>3, GoIdle DEF Busy, Answered
    <2>4. CASE EncryptFails(c)
      BY <1>0, <2>0, <2>4, FinishIdle DEF EncryptFails, At
    <2>5. CASE Acquire(c) \/ Stage(c) \/ StagingFails(c) \/ Publish(c) \/ Cleanup(c)
      BY <1>0, <2>5, AcquireKeeps, StageKeeps, StagingFailsKeeps, PublishKeeps, CleanupKeeps
    <2>6. CASE Unpublish(c) \/ BeginResolve(c) \/ ReadRow(c) \/ Fetch(c)
      BY <1>0, <2>6, UnpublishKeeps, ReadKeeps
    <2>7. CASE CheckBinding(c) \/ Bind(c)
      BY <1>0, <2>7, BindKeeps
    <2>8. CASE (\E v \in Values : LegacyWrite(c, v)) \/ LegacyRow(c) \/ LegacyDelete(c)
      BY <1>0, <2>8, LegacyKeeps
    <2> QED BY <1>1, <2>1, <2>2, <2>3, <2>4, <2>5, <2>6, <2>7, <2>8 DEF SecretStep
  <1> QED BY <1>0, <1>1, CreateKeeps, RestartKeeps DEF SecretNext

LEMMA SecretInvInit == SecretInit => SecretInv
  <1> SUFFICES ASSUME SecretInit PROVE SecretInv
    OBVIOUS
  <1>1. 0 \in Versions /\ 0 \in 0 .. MaxRestarts /\ Idle \in CallType
    BY VersionFacts, IdleTyped DEF Versions
  <1>2. SecretShape
    BY <1>1 DEF SecretInit, SecretShape, SecretBase
  <1>3. \A c \in Callers : InCall(c) /\ Undisturbed(c) /\ Regular(c)
    BY DEF SecretInit, InCall, Undisturbed, Regular, Idle, LockedPcs
  <1>4. RowHolds /\ Unminted /\ \A v \in Versions : Stored(v) => Accounted(v)
    BY DEF SecretInit, RowHolds, Unminted, Stored
  <1> QED BY <1>2, <1>3, <1>4 DEF SecretInv, VersionsKept

LEMMA SecretInvSound == SecretInv => SecretsSound
  <1> SUFFICES ASSUME SecretInv PROVE SecretsSound
    OBVIOUS
  <1>1. SecretTypeOK
    <2>1. ASSUME NEW c \in Callers
          PROVE  /\ call[c].value \in Values \cup {None} /\ call[c].version \in Nat
                 /\ call[c].previous \in Rows \cup {None}
                 /\ seen[c] \subseteq Values \cup {None}
                 /\ call[c].pc \in {"locked", "staged", "cleanup", "bind"} => holder = c
      <3>1. call[c] \in CallType /\ InCall(c)
        BY CallerFacts
      <3>2. seen[c] \subseteq Values \cup {None}
        BY DEF SecretInv, SecretShape
      <3> QED BY <3>1, <3>2 DEF CallType, InCall, LockedPcs
    <2> QED BY <2>1 DEF SecretTypeOK, SecretInv, SecretShape, SecretBase, Connections
  <1>2. SecretReadable
    <2> SUFFICES ASSUME row # None, ~legacy PROVE Current # None
      BY DEF SecretReadable
    <2>1. RowHolds
      BY DEF SecretInv, VersionsKept
    <2> QED BY <2>1, VersionFacts DEF RowHolds, Current, Resolved, Stored
  <1>3. NoOrphans
    <2> SUFFICES ASSUME ~legacy, NEW v \in Versions, Stored(v) PROVE Accounted(v)
      BY DEF NoOrphans, Accounted
    <2> QED BY DEF SecretInv, VersionsKept
  <1>4. ReadsRegular
    <2> SUFFICES ASSUME NEW c \in Callers, call[c].pc = "done", ~legacy
                 PROVE  call[c].value = None \/ call[c].value \in seen[c]
      BY DEF ReadsRegular, At
    <2> QED BY CallerFacts DEF Regular
  <1> QED BY <1>1, <1>2, <1>3, <1>4 DEF SecretsSound

\* Every reachable state keeps the secret sound: a listed secret can be read,
\* no credential is left behind unnoticed, and a read that overlaps writers,
\* removals and restarts of Core returns a value the secret had meanwhile.
THEOREM SecretsAreSound == SecretSpec => []SecretsSound
  <1>1. SecretSpec => []SecretInv
    BY SecretInvInit, SecretInvStep, PTL DEF SecretSpec
  <1> QED BY <1>1, SecretInvSound, PTL

(***************************************************************************)
(* Pages and the event stream.                                             *)
(*                                                                         *)
(* The order of a collection is total, so its rows have ranks and sorting  *)
(* by rank lists each once.  A walk is at a row: what it has shown is in   *)
(* order up to that row, and every row that stayed is shown or beyond it.  *)
(* Changes of the collection between two pages take from the rows that     *)
(* stay and never move one across the cursor.                              *)
(***************************************************************************)
Ascending(s) == \A i, j \in 1 .. Len(s) : i < j => Precedes(s[i], s[j])

RowShape ==
  /\ rows \subseteq Keys /\ scheduled \subseteq Keys /\ counter \in Nat
  /\ kind # "triggers" => scheduled = {}
  /\ kind # "executions" => hidden = {}
  /\ kind \in Numbered => \A r \in rows : r[2] = 1 /\ r[1] <= counter

WalkType ==
  [pc : {"idle", "more", "done", "refused"}, seen : Seq(Keys), after : Nat \X Nat, high : Nat,
   digest : SUBSET Keys, offset : Nat]

\* The rows of T that are still to come are beyond the cursor.
Ahead(T) == \A r \in T : r \in Range(walk.seen) \/ Beyond(walk.after, r)

\* Between two pages: the rows so far are in order, the rows that stayed are
\* among them or beyond the cursor, and so is the collection of a digest.
MoreShape ==
  /\ Ascending(walk.seen) /\ steady \subseteq Shown
  /\ walk.seen # <<>> /\ walk.after = Last(walk.seen)
  /\ kind # "tools" => Ahead(steady)
  /\ kind = "events" =>
       /\ \A r \in Range(walk.seen) : r[2] = 1 /\ r[1] <= walk.high
       /\ \A r \in steady : r[1] <= walk.high
  /\ kind \in Digested => steady \subseteq walk.digest
  /\ kind = "metadata" => Range(walk.seen) \subseteq walk.digest /\ Ahead(walk.digest)
  /\ kind = "tools" =>
       /\ walk.offset <= Cardinality(walk.digest)
       /\ walk.seen = SubSeq(Sorted(walk.digest), 1, walk.offset)

WalkShape ==
  /\ walk.pc = "idle" => walk = NoWalk
  /\ walk.pc = "more" => MoreShape
  /\ WalkFaithful

LastReceived == IF stream.received = <<>> THEN 0 ELSE Last(stream.received)[1]
Rising(s) == \A i, j \in 1 .. Len(s) : i < j => s[i][1] < s[j][1]

\* The events received are all there are up to the last of them, and those on
\* their way are all there are between two numbers.
StreamShape ==
  /\ Rising(stream.received) /\ Rising(stream.pending)
  /\ \A r \in Range(stream.received) \cup Range(stream.pending) : r[1] <= counter
  /\ \A r \in rows : r[1] <= LastReceived => r \in Range(stream.received)
  /\ stream.pc = "on" =>
       /\ stream.cursor = LastReceived
       /\ \A r \in Range(stream.pending) : r[1] > stream.cursor
       /\ stream.pending # <<>> =>
            \A r \in rows : \/ r[1] <= stream.cursor \/ r \in Range(stream.pending)
                            \/ r[1] > Last(stream.pending)[1]
StreamType ==
  [pc : {"on", "off"}, pending : Seq(Nat \X {1}), cursor : Nat, received : Seq(Nat \X {1})]

LEMMA PrecedesOrder ==
  ASSUME NEW a \in Keys, NEW b \in Keys, NEW c \in Keys
  PROVE  /\ ~Precedes(a, a)
         /\ Precedes(a, b) /\ Precedes(b, c) => Precedes(a, c)
         /\ a = b \/ Precedes(a, b) \/ Precedes(b, a)
         /\ Beyond(a, b) <=> Precedes(a, b)
  <1>1. /\ a[1] \in Int /\ a[2] \in Int /\ b[1] \in Int /\ b[2] \in Int
        /\ c[1] \in Int /\ c[2] \in Int
    BY DEF Keys
  <1>2. a[1] = b[1] /\ a[2] = b[2] => a = b
    BY DEF Keys
  <1> QED BY <1>1, <1>2 DEF Precedes, Beyond

\* The number of rows before a row.
Rank(S, r) == Cardinality(Before(S, r))

LEMMA RowsFinite ==
  ASSUME NEW S \in SUBSET Keys
  PROVE  IsFiniteSet(S) /\ Cardinality(S) \in Nat
  <1>1. MaxKey \in Nat /\ IsFiniteSet(1 .. MaxKey)
    BY PageBounds, FS_Interval
  <1>2. IsFiniteSet(Keys)
    BY <1>1, FS_Product DEF Keys
  <1> QED BY <1>2, FS_Subset, FS_CardinalityType

\* Ranks are different, grow with the order, and are the numbers below the size.
LEMMA RankOrder ==
  ASSUME NEW S \in SUBSET Keys
  PROVE  /\ \A r \in S : Rank(S, r) \in 0 .. (Cardinality(S) - 1)
         /\ \A r, s \in S : Precedes(r, s) => Rank(S, r) < Rank(S, s)
         /\ \A r, s \in S : Rank(S, r) = Rank(S, s) => r = s
  <1>1. \A r \in S : /\ Before(S, r) \in SUBSET Keys /\ Before(S, r) \subseteq S
                     /\ r \notin Before(S, r) /\ Rank(S, r) \in Nat
    <2> TAKE r \in S
    <2>1. Before(S, r) \subseteq S /\ Before(S, r) \in SUBSET Keys
      BY DEF Before
    <2>2. r \notin Before(S, r)
      BY PrecedesOrder DEF Before
    <2> QED BY <2>1, <2>2, RowsFinite DEF Rank
  <1>2. IsFiniteSet(S) /\ Cardinality(S) \in Nat
    BY RowsFinite
  <1>3. ASSUME NEW r \in S PROVE Rank(S, r) \in 0 .. (Cardinality(S) - 1)
    <2>1. Before(S, r) # S
      BY <1>1
    <2>2. Rank(S, r) < Cardinality(S)
      BY <1>1, <1>2, <2>1, FS_Subset DEF Rank
    <2> QED BY <1>1, <1>2, <2>2
  <1>4. ASSUME NEW r \in S, NEW s \in S, Precedes(r, s) PROVE Rank(S, r) < Rank(S, s)
    <2>1. Before(S, r) \subseteq Before(S, s)
      BY <1>4, PrecedesOrder DEF Before
    <2>2. r \in Before(S, s)
      BY <1>4 DEF Before
    <2>3. Before(S, r) # Before(S, s)
      BY <1>1, <2>2
    <2>4. IsFiniteSet(Before(S, s))
      BY <1>1, RowsFinite
    <2>5. Rank(S, r) <= Rank(S, s) /\ Rank(S, r) # Rank(S, s)
      BY <2>1, <2>3, <2>4, FS_Subset DEF Rank
    <2> QED BY <1>1, <2>5
  <1>5. ASSUME NEW r \in S, NEW s \in S, Rank(S, r) = Rank(S, s) PROVE r = s
    <2>1. r = s \/ Precedes(r, s) \/ Precedes(s, r)
      BY PrecedesOrder
    <2>2. ~(Rank(S, r) < Rank(S, s)) /\ ~(Rank(S, s) < Rank(S, r))
      BY <1>1, <1>5
    <2> QED BY <1>4, <2>1, <2>2
  <1> QED BY <1>3, <1>4, <1>5

LEMMA RankOnto ==
  ASSUME NEW S \in SUBSET Keys, NEW i \in 1 .. Cardinality(S)
  PROVE  \E r \in S : Rank(S, r) = i - 1
  <1> DEFINE f == [r \in S |-> Rank(S, r) + 1]
             T == {f[r] : r \in S}
             n == Cardinality(S)
  <1>1. IsFiniteSet(S) /\ n \in Nat
    BY RowsFinite
  <1>2. \A r \in S : f[r] = Rank(S, r) + 1 /\ f[r] \in 1 .. n /\ Rank(S, r) \in Nat
    <2> TAKE r \in S
    <2>1. Rank(S, r) \in 0 .. (n - 1)
      BY RankOrder
    <2> QED BY <1>1, <2>1
  <1>3. \A r, s \in S : f[r] = f[s] => r = s
    <2> TAKE r, s \in S
    <2>1. f[r] = f[s] => Rank(S, r) = Rank(S, s)
      BY <1>2
    <2> QED BY <2>1, RankOrder
  <1>4. f \in Bijection(S, T)
    <2>1. f \in [S -> T] /\ \A t \in T : \E r \in S : f[r] = t
      OBVIOUS
    <2> QED BY <1>3, <2>1 DEF Bijection, Injection, Surjection, IsInjective
  <1>5. IsFiniteSet(T) /\ Cardinality(T) = n
    <2>1. ExistsBijection(S, T)
      BY <1>4 DEF ExistsBijection
    <2> HIDE DEF T
    <2> QED BY <1>1, <2>1, FS_Bijection
  <1>6. IsFiniteSet(1 .. n) /\ Cardinality(1 .. n) = n
    BY <1>1, FS_Interval
  <1>7. T \subseteq 1 .. n
    BY <1>2
  <1>8. T = 1 .. n
    <2> HIDE DEF T, n
    <2> QED BY <1>1, <1>5, <1>6, <1>7, FS_Subset
  <1>9. PICK r \in S : f[r] = i
    BY <1>8
  <1> QED BY <1>2, <1>9

LEMMA SortedFacts ==
  ASSUME NEW S \in SUBSET Keys
  PROVE  /\ Sorted(S) \in Seq(S) /\ Len(Sorted(S)) = Cardinality(S)
         /\ Ascending(Sorted(S)) /\ Range(Sorted(S)) = S
  <1> DEFINE n == Cardinality(S)
             s == Sorted(S)
  <1>1. n \in Nat
    BY RowsFinite
  <1>2. \A i \in 1 .. n : s[i] \in S /\ Rank(S, s[i]) = i - 1
    <2> TAKE i \in 1 .. n
    <2>1. s[i] = CHOOSE r \in S : Rank(S, r) = i - 1
      BY DEF Sorted, Rank
    <2>2. \E r \in S : Rank(S, r) = i - 1
      BY RankOnto
    <2> QED BY <2>1, <2>2
  <1>3. s = [i \in 1 .. n |-> s[i]]
    BY DEF Sorted
  <1>4. s \in Seq(S) /\ Len(s) = n /\ DOMAIN s = 1 .. n
    <2> HIDE DEF s, n
    <2> QED BY <1>1, <1>2, <1>3, IsASeq
  <1>5. Ascending(s)
    <2> SUFFICES ASSUME NEW i \in 1 .. n, NEW j \in 1 .. n, i < j
                 PROVE  Precedes(s[i], s[j])
      BY <1>4 DEF Ascending
    <2> HIDE DEF s
    <2>1. /\ s[i] \in S /\ s[j] \in S /\ s[i] \in Keys /\ s[j] \in Keys
          /\ Rank(S, s[i]) = i - 1 /\ Rank(S, s[j]) = j - 1
      BY <1>2
    <2>2. s[i] # s[j] /\ ~(Rank(S, s[j]) < Rank(S, s[i]))
      BY <1>1, <2>1
    <2>3. ~Precedes(s[j], s[i])
      BY <2>1, <2>2, RankOrder
    <2> QED BY <2>1, <2>2, <2>3, PrecedesOrder
  <1>6. S \subseteq Range(s)
    <2> SUFFICES ASSUME NEW r \in S PROVE \E i \in 1 .. n : s[i] = r
      BY <1>4 DEF Range
    <2>1. Rank(S, r) \in 0 .. (n - 1)
      BY RankOrder
    <2> DEFINE i == Rank(S, r) + 1
    <2>2. i \in 1 .. n /\ i - 1 = Rank(S, r)
      BY <1>1, <2>1
    <2> HIDE DEF i, s
    <2>3. s[i] \in S /\ Rank(S, s[i]) = Rank(S, r)
      BY <1>2, <2>2
    <2> QED BY <2>2, <2>3, RankOrder
  <1>7. Range(s) \subseteq S
    BY <1>2, <1>4 DEF Range
  <1> QED BY <1>4, <1>5, <1>6, <1>7

\* A sequence in order is the only one of its rows.
LEMMA SortedUnique ==
  ASSUME NEW s \in Seq(Keys), Ascending(s)
  PROVE  s = Sorted(Range(s))
  <1> DEFINE S == Range(s)
             n == Len(s)
  <1>0. n \in Nat /\ s \in [1 .. n -> Keys] /\ S = {s[i] : i \in 1 .. n}
    BY DEF Range
  <1>1. S \in SUBSET Keys
    BY <1>0
  <1>2. ASSUME NEW i \in 1 .. n, NEW j \in 1 .. n PROVE (Precedes(s[i], s[j]) <=> i < j)
                                                        /\ (s[i] = s[j] => i = j)
    <2>1. i < j => Precedes(s[i], s[j])
      BY DEF Ascending
    <2>2. j < i => Precedes(s[j], s[i])
      BY DEF Ascending
    <2>3. s[i] \in Keys /\ s[j] \in Keys
      BY <1>0
    <2>4. ~Precedes(s[i], s[i]) /\ ~(Precedes(s[i], s[j]) /\ Precedes(s[j], s[i]))
      BY <2>3, PrecedesOrder
    <2>5. i < j \/ j < i \/ i = j
      BY <1>0
    <2> QED BY <1>0, <2>1, <2>2, <2>4, <2>5
  <1>3. ASSUME NEW k \in 0 .. n
        PROVE  Cardinality({s[j] : j \in 1 .. k}) = k
    <2> DEFINE f == [j \in 1 .. k |-> s[j]]
               T == {s[j] : j \in 1 .. k}
    <2>1. \A j \in 1 .. k : j \in 1 .. n
      BY <1>0
    <2>2. f \in Bijection(1 .. k, T)
      BY <1>2, <2>1 DEF Bijection, Injection, Surjection, IsInjective
    <2>3. k \in Nat /\ IsFiniteSet(1 .. k) /\ Cardinality(1 .. k) = k
      BY <1>0, FS_Interval
    <2> HIDE DEF f, T
    <2>4. Cardinality(T) = k
      <3>1. ExistsBijection(1 .. k, T)
        BY <2>2 DEF ExistsBijection
      <3> QED BY <2>3, <3>1, FS_Bijection
    <2> QED BY <2>4 DEF T
  <1>4. Cardinality(S) = n
    BY <1>0, <1>3
  <1>5. ASSUME NEW i \in 1 .. n PROVE Sorted(S)[i] = s[i]
    <2>1. Before(S, s[i]) = {s[j] : j \in 1 .. (i - 1)}
      <3>1. \A j \in 1 .. (i - 1) : j \in 1 .. n /\ j < i
        BY <1>0
      <3>2. \A j \in 1 .. n : j < i => j \in 1 .. (i - 1)
        BY <1>0
      <3>3. \A j \in 1 .. n : Precedes(s[j], s[i]) <=> j < i
        BY <1>2
      <3> QED BY <1>0, <3>1, <3>2, <3>3 DEF Before
    <2>2. i - 1 \in 0 .. n
      BY <1>0
    <2>3. Rank(S, s[i]) = i - 1
      BY <1>3, <2>1, <2>2 DEF Rank
    <2>4. s[i] \in S
      BY <1>0
    <2>5. Sorted(S)[i] = CHOOSE r \in S : Rank(S, r) = i - 1
      BY <1>4 DEF Sorted, Rank
    <2> HIDE DEF S
    <2>6. \A r \in S : Rank(S, r) = i - 1 => r = s[i]
      <3>1. \A r, t \in S : Rank(S, r) = Rank(S, t) => r = t
        BY <1>1, RankOrder
      <3> QED BY <2>3, <2>4, <3>1
    <2> QED BY <2>3, <2>4, <2>5, <2>6
  <1>6. Sorted(S) = [i \in 1 .. n |-> Sorted(S)[i]]
    BY <1>4 DEF Sorted
  <1> HIDE DEF S
  <1>7. Sorted(S) = s
    BY <1>0, <1>5, <1>6
  <1> QED BY <1>7 DEF S

\* The rows of a page: a beginning of the collection.
LEMMA FirstRows ==
  ASSUME NEW S \in SUBSET Keys, NEW limit \in Nat \ {0}, NEW p,
         p = FirstOf(Sorted(S), limit)
  PROVE  /\ p \in Seq(Keys) /\ Ascending(p) /\ Range(p) \subseteq S
         /\ ~(Len(Sorted(S)) > limit) => Range(p) = S
         /\ Len(Sorted(S)) > limit => p # <<>>
         /\ p # <<>> => Last(p) \in S /\ \A r \in S : r \in Range(p) \/ Precedes(Last(p), r)
  <1> DEFINE s == Sorted(S)
             n == Len(s)
             k == IF n < limit THEN n ELSE limit
  <1>1. /\ s \in Seq(S) /\ n \in Nat /\ Ascending(s) /\ Range(s) = S
        /\ s \in [1 .. n -> S] /\ DOMAIN s = 1 .. n
    <2>1. s \in Seq(S) /\ n = Cardinality(S) /\ Ascending(s) /\ Range(s) = S
      BY SortedFacts
    <2> HIDE DEF s
    <2> QED BY <2>1
  <1> HIDE DEF s
  <1>2. k \in 0 .. n /\ (~(n > limit) => k = n) /\ (n > limit => k > 0)
    <2>1. n \in Nat /\ limit \in Nat /\ limit # 0
      BY <1>1
    <2> HIDE DEF n
    <2> QED BY <2>1
  <1>3. p = SubSeq(s, 1, k)
    BY DEF FirstOf, s
  <1> HIDE DEF n, k
  <1>4. p \in Seq(S) /\ Len(p) = k /\ \A i \in 1 .. k : p[i] = s[i] /\ p[i] \in S
    <2>1. \A i \in 1 .. k : s[i] \in S /\ i \in 1 .. n
      BY <1>1, <1>2
    <2>2. 1 \in Int /\ k \in Int /\ 1 + 0 = 1
      BY <1>2
    <2>3. p \in Seq(S) /\ Len(p) = k
      BY <1>2, <1>3, <2>1, <2>2, SubSeqProperties
    <2>4. \A i \in 1 .. k : p[i] = s[i]
      BY <1>2, <1>3, <2>1, <2>2, SubSeqProperties
    <2> QED BY <2>1, <2>3, <2>4
  <1>5. p \in Seq(Keys) /\ Range(p) = {s[i] : i \in 1 .. k} /\ Range(p) \subseteq S
    <2>1. p \in Seq(Keys)
      BY <1>4
    <2>2. DOMAIN p = 1 .. k
      BY <1>4
    <2> QED BY <1>4, <2>1, <2>2 DEF Range
  <1>6. Ascending(p)
    BY <1>1, <1>2, <1>4 DEF Ascending
  <1>7. ~(n > limit) => Range(p) = S
    BY <1>1, <1>2, <1>5 DEF Range
  <1>8. n > limit => p # <<>>
    BY <1>2, <1>4
  <1>9. ASSUME p # <<>>
        PROVE  Last(p) \in S /\ \A r \in S : r \in Range(p) \/ Precedes(Last(p), r)
    <2>1. k # 0
      BY <1>4, <1>9
    <2>2. k \in 1 .. n /\ k \in 1 .. k
      BY <1>1, <1>2, <2>1
    <2>3. Last(p) = s[k] /\ Last(p) \in S
      BY <1>4, <2>2 DEF Last
    <2>4. ASSUME NEW r \in S PROVE r \in Range(p) \/ Precedes(Last(p), r)
      <3>1. PICK i \in 1 .. n : s[i] = r
        BY <1>1 DEF Range
      <3>2. i \in 1 .. k \/ k < i
        BY <1>1, <1>2
      <3>3. k < i => Precedes(s[k], s[i])
        BY <1>1, <2>2 DEF Ascending, n
      <3> QED BY <1>5, <2>3, <3>1, <3>2, <3>3
    <2> QED BY <2>3, <2>4
  <1> QED BY <1>5, <1>6, <1>7, <1>8, <1>9 DEF n, s

\* A page after the rows seen so far keeps the order when it begins beyond the
\* last of them.
LEMMA ConcatAscending ==
  ASSUME NEW s \in Seq(Keys), NEW t \in Seq(Keys), Ascending(s), Ascending(t),
         s # <<>> => \A r \in Range(t) : Precedes(Last(s), r)
  PROVE  /\ s \o t \in Seq(Keys) /\ Ascending(s \o t) /\ Range(s \o t) = Range(s) \cup Range(t)
         /\ t # <<>> => s \o t # <<>> /\ Last(s \o t) = Last(t)
         /\ t = <<>> => s \o t = s
  <1> DEFINE c == s \o t
             m == Len(s)
             n == Len(t)
  <1>1. /\ m \in Nat /\ n \in Nat /\ DOMAIN s = 1 .. m /\ DOMAIN t = 1 .. n
        /\ \A i \in 1 .. m : s[i] \in Keys /\ s[i] \in Range(s)
        /\ \A i \in 1 .. n : t[i] \in Keys /\ t[i] \in Range(t)
    BY DEF Range
  <1>2. /\ c \in Seq(Keys) /\ Len(c) = m + n
        /\ \A i \in 1 .. (m + n) : c[i] = IF i <= m THEN s[i] ELSE t[i - m]
    BY ConcatProperties
  <1> HIDE DEF c, m, n
  <1>3. Range(c) = Range(s) \cup Range(t)
    <2>1. DOMAIN c = 1 .. (m + n)
      BY <1>1, <1>2
    <2>2. \A i \in 1 .. (m + n) : (i <= m => i \in 1 .. m) /\ (~(i <= m) => i - m \in 1 .. n)
      BY <1>1
    <2>3. \A i \in 1 .. m : i \in 1 .. (m + n) /\ i <= m
      BY <1>1
    <2>4. \A i \in 1 .. n : i + m \in 1 .. (m + n) /\ ~(i + m <= m) /\ (i + m) - m = i
      BY <1>1
    <2>5. Range(c) \subseteq Range(s) \cup Range(t)
      BY <1>1, <1>2, <2>1, <2>2 DEF Range
    <2>6. Range(s) \subseteq Range(c)
      BY <1>1, <1>2, <2>1, <2>3 DEF Range
    <2>7. \A i \in 1 .. n : t[i] = c[i + m]
      BY <1>2, <2>4
    <2>8. Range(t) \subseteq Range(c)
      <3> SUFFICES ASSUME NEW i \in 1 .. n PROVE t[i] \in Range(c)
        BY <1>1 DEF Range
      <3>1. i + m \in DOMAIN c /\ t[i] = c[i + m]
        BY <2>1, <2>4, <2>7
      <3> QED BY <3>1 DEF Range
    <2> QED BY <2>5, <2>6, <2>8
  <1>4. Ascending(c)
    <2> SUFFICES ASSUME NEW i \in 1 .. (m + n), NEW j \in 1 .. (m + n), i < j
                 PROVE  Precedes(c[i], c[j])
      BY <1>2 DEF Ascending
    <2>1. CASE j <= m
      <3>1. i \in 1 .. m /\ j \in 1 .. m /\ c[i] = s[i] /\ c[j] = s[j]
        BY <1>1, <1>2, <2>1
      <3> QED BY <3>1 DEF Ascending, m
    <2>2. CASE ~(i <= m)
      <3>0. /\ i - m \in 1 .. n /\ j - m \in 1 .. n /\ i - m < j - m
            /\ ~(i <= m) /\ ~(j <= m)
        BY <1>1, <2>2
      <3>1. /\ i - m \in 1 .. n /\ j - m \in 1 .. n /\ i - m < j - m
            /\ c[i] = t[i - m] /\ c[j] = t[j - m]
        BY <1>2, <3>0
      <3> QED BY <3>1 DEF Ascending, n
    <2>3. CASE i <= m /\ ~(j <= m)
      <3>1. i \in 1 .. m /\ j - m \in 1 .. n /\ m \in 1 .. m /\ m # 0
        BY <1>1, <2>3
      <3>2. c[i] = s[i] /\ c[j] = t[j - m] /\ c[j] \in Range(t)
        BY <1>1, <1>2, <2>3, <3>1
      <3>3. s # <<>> /\ Last(s) = s[m]
        BY <3>1 DEF m, Last
      <3>4. Precedes(s[m], t[j - m])
        BY <3>2, <3>3
      <3>5. i = m \/ Precedes(s[i], s[m])
        <4>1. i = m \/ i < m
          BY <1>1, <3>1
        <4> QED BY <3>1, <4>1 DEF Ascending, m
      <3>6. s[i] \in Keys /\ s[m] \in Keys /\ t[j - m] \in Keys
        BY <1>1, <3>1
      <3>7. Precedes(s[i], t[j - m])
        BY <3>4, <3>5, <3>6, PrecedesOrder
      <3> QED BY <3>2, <3>7
    <2> QED BY <1>1, <2>1, <2>2, <2>3
  <1>5. ASSUME t # <<>> PROVE c # <<>> /\ Last(c) = Last(t)
    <2>1. n # 0
      BY <1>5 DEF n
    <2>2. n \in 1 .. n /\ m + n \in 1 .. (m + n) /\ ~(m + n <= m) /\ (m + n) - m = n /\ m + n # 0
      BY <1>1, <2>1
    <2>3. c[m + n] = t[n]
      BY <1>2, <2>2
    <2> QED BY <1>2, <2>2, <2>3 DEF Last, n
  <1>6. t = <<>> => c = s
    BY DEF c
  <1> QED BY <1>2, <1>3, <1>4, <1>5, <1>6 DEF c

\* One page: the rows seen stay in order, a page that ends the walk leaves no
\* row out, and otherwise what is left is beyond the new cursor.
LEMMA PageStep ==
  ASSUME NEW S \in SUBSET Keys, NEW limit \in Nat \ {0}, walk \in WalkType,
         Ascending(walk.seen), NEW W, W = ReadAfter(S, limit),
         walk.seen # <<>> => \A r \in S : Precedes(Last(walk.seen), r)
  PROVE  /\ W \in WalkType /\ W.pc \in {"more", "done"}
         /\ W.high = walk.high /\ W.digest = walk.digest /\ W.offset = walk.offset
         /\ Ascending(W.seen) /\ Range(walk.seen) \subseteq Range(W.seen)
         /\ Range(W.seen) \subseteq Range(walk.seen) \cup S
         /\ W.pc = "done" => S \subseteq Range(W.seen)
         /\ W.pc = "more" => /\ W.seen # <<>> /\ W.after = Last(W.seen) /\ W.after \in Keys
                             /\ \A r \in S : r \in Range(W.seen) \/ Precedes(W.after, r)
  <1> DEFINE p == FirstOf(Sorted(S), limit)
             more == Len(Sorted(S)) > limit
  <1>1. /\ p \in Seq(Keys) /\ Ascending(p) /\ Range(p) \subseteq S
        /\ ~more => Range(p) = S
        /\ more => p # <<>>
        /\ p # <<>> => Last(p) \in S /\ \A r \in S : r \in Range(p) \/ Precedes(Last(p), r)
    <2> HIDE DEF p
    <2>1. p = FirstOf(Sorted(S), limit)
      BY DEF p
    <2> QED BY <2>1, FirstRows
  <1>2. walk.seen \in Seq(Keys)
    BY DEF WalkType
  <1>3. /\ walk.seen \o p \in Seq(Keys) /\ Ascending(walk.seen \o p)
        /\ Range(walk.seen \o p) = Range(walk.seen) \cup Range(p)
        /\ p # <<>> => walk.seen \o p # <<>> /\ Last(walk.seen \o p) = Last(p)
    <2> HIDE DEF p, more
    <2> QED BY <1>1, <1>2, ConcatAscending
  <1>4. W = [walk EXCEPT !.pc = IF more THEN "more" ELSE "done", !.seen = @ \o p,
                         !.after = IF p = <<>> THEN <<0, 0>> ELSE Last(p)]
    BY DEF ReadAfter, Answer
  <1> HIDE DEF p, more
  <1>5. /\ W.pc = (IF more THEN "more" ELSE "done") /\ W.seen = walk.seen \o p
        /\ W.after = (IF p = <<>> THEN <<0, 0>> ELSE Last(p))
        /\ W.high = walk.high /\ W.digest = walk.digest /\ W.offset = walk.offset
    BY <1>4 DEF WalkType
  <1>6. W.after \in Nat \X Nat /\ (p # <<>> => W.after \in Keys)
    BY <1>1, <1>5 DEF Keys
  <1>7. W \in WalkType
    BY <1>3, <1>4, <1>5, <1>6 DEF WalkType
  <1> QED BY <1>1, <1>3, <1>5, <1>6, <1>7

\* Continuing after the cursor of a walk, in a part of the collection.
LEMMA FollowStep ==
  ASSUME walk \in WalkType, walk.pc \in {"idle", "more"}, WalkShape,
         NEW Q \in SUBSET Keys, NEW limit \in Nat \ {0},
         NEW W, W = ReadAfter(Following(Q), limit)
  PROVE  /\ W \in WalkType /\ W.pc \in {"more", "done"}
         /\ W.high = walk.high /\ W.digest = walk.digest /\ W.offset = walk.offset
         /\ Ascending(W.seen) /\ Range(W.seen) \subseteq Range(walk.seen) \cup Q
         /\ W.pc = "more" => W.seen # <<>> /\ W.after = Last(W.seen)
         /\ \A T \in SUBSET Q : (walk.pc = "more" => Ahead(T)) =>
              /\ W.pc = "done" => T \subseteq Range(W.seen)
              /\ W.pc = "more" => \A r \in T : r \in Range(W.seen) \/ Beyond(W.after, r)
         /\ walk.pc = "idle" => Range(walk.seen) = {}
  <1> DEFINE S == Following(Q)
  <1>1. S \in SUBSET Keys /\ S \subseteq Q
    BY DEF Following
  <1>2. walk.seen \in Seq(Keys)
    BY DEF WalkType
  <1>3. walk.pc = "idle" => walk.seen = <<>> /\ Range(walk.seen) = {} /\ S = Q
    BY DEF WalkShape, NoWalk, Range, Following
  <1>4. ASSUME walk.pc = "more"
        PROVE  /\ walk.seen # <<>> /\ walk.after = Last(walk.seen) /\ walk.after \in Keys
               /\ Ascending(walk.seen)
               /\ \A r \in Keys : Beyond(walk.after, r) <=> Precedes(walk.after, r)
               /\ \A r \in Q : r \in S <=> Beyond(walk.after, r)
    <2>1. walk.seen # <<>> /\ walk.after = Last(walk.seen) /\ Ascending(walk.seen)
      BY <1>4 DEF WalkShape, MoreShape
    <2>2. walk.after \in Keys
      BY <1>2, <2>1 DEF Last
    <2>3. walk.pc # "idle"
      BY <1>4
    <2> QED BY <2>1, <2>2, <2>3, PrecedesOrder DEF Following
  <1>5. Ascending(walk.seen)
    BY <1>3, <1>4 DEF Ascending
  <1>6. walk.seen # <<>> => \A r \in S : Precedes(Last(walk.seen), r)
    <2>1. walk.seen # <<>> => walk.pc = "more"
      BY <1>3
    <2> QED BY <1>1, <1>4, <2>1
  <1>7. W = ReadAfter(S, limit)
    OBVIOUS
  <1> HIDE DEF S
  <1>8. /\ W \in WalkType /\ W.pc \in {"more", "done"}
        /\ W.high = walk.high /\ W.digest = walk.digest /\ W.offset = walk.offset
        /\ Ascending(W.seen) /\ Range(walk.seen) \subseteq Range(W.seen)
        /\ Range(W.seen) \subseteq Range(walk.seen) \cup S
        /\ W.pc = "done" => S \subseteq Range(W.seen)
        /\ W.pc = "more" => /\ W.seen # <<>> /\ W.after = Last(W.seen) /\ W.after \in Keys
                            /\ \A r \in S : r \in Range(W.seen) \/ Precedes(W.after, r)
    BY <1>1, <1>5, <1>6, <1>7, PageStep
  <1>9. ASSUME NEW T \in SUBSET Q, walk.pc = "more" => Ahead(T), NEW r \in T
        PROVE  r \in S \/ r \in Range(W.seen)
    BY <1>3, <1>4, <1>8, <1>9 DEF Ahead
  <1>10. W.pc = "more" => \A r \in Keys : Beyond(W.after, r) <=> Precedes(W.after, r)
    BY <1>8, PrecedesOrder
  <1>11. ASSUME NEW T \in SUBSET Q, walk.pc = "more" => Ahead(T)
         PROVE  /\ W.pc = "done" => T \subseteq Range(W.seen)
                /\ W.pc = "more" => \A r \in T : r \in Range(W.seen) \/ Beyond(W.after, r)
    <2>1. \A r \in T : r \in S \/ r \in Range(W.seen)
      BY <1>9, <1>11
    <2> QED BY <1>8, <1>10, <2>1
  <1> QED BY <1>1, <1>3, <1>8, <1>11

\* What a page leaves alone.
LEMMA ReadingKeeps ==
  ASSUME RowShape, Untouched
  PROVE  /\ kind' = kind /\ rows' = rows /\ Shown' = Shown /\ Shown \in SUBSET Keys
         /\ kind \notin {"triggers", "executions"} => Shown = rows
         /\ kind = "triggers" => Shown = Projections
         /\ RowShape'
  BY DEF Untouched, Shown, Projections, RowShape

LEMMA ListStep ==
  ASSUME RowShape, walk \in WalkType, WalkShape, NEW limit \in 1 .. MaxLimit,
         \/ ListWorkflowPage(limit) \/ ListExecutionPage(limit)
         \/ InspectExecution(limit) \/ ListTriggerPage(limit)
  PROVE  walk' \in WalkType /\ WalkShape'
  <1>1. /\ kind \in {"workflows", "executions", "nodes", "triggers"}
        /\ walk.pc \in {"idle", "more"} /\ Began /\ Untouched
    BY DEF ListWorkflowPage, ListExecutionPage, InspectExecution, ListTriggerPage, Reading
  <1>2. /\ kind' = kind /\ Shown' = Shown /\ Shown \in SUBSET Keys
        /\ kind \notin {"triggers", "executions"} => Shown = rows
        /\ kind = "triggers" => Shown = Projections
    BY <1>1, ReadingKeeps
  <1>3. walk' = ReadAfter(Following(Shown), limit)
    BY <1>2 DEF ListWorkflowPage, ListExecutionPage, InspectExecution, ListTriggerPage, Reading
  <1>4. limit \in Nat \ {0}
    BY PageBounds
  <1>5. steady' = IF walk.pc = "idle" THEN Shown ELSE steady
    BY <1>1 DEF Began
  <1>6. walk.pc = "more" => steady \subseteq Shown /\ Ahead(steady)
    BY <1>1 DEF WalkShape, MoreShape
  <1>7. steady' \in SUBSET Shown /\ (walk.pc = "more" => Ahead(steady) /\ steady' = steady)
    BY <1>1, <1>5, <1>6
  <1>8. /\ walk' \in WalkType /\ walk'.pc \in {"more", "done"} /\ Ascending(walk'.seen)
        /\ walk'.pc = "more" => walk'.seen # <<>> /\ walk'.after = Last(walk'.seen)
        /\ walk'.pc = "done" => steady' \subseteq Range(walk'.seen)
        /\ walk'.pc = "more" => \A r \in steady' : r \in Range(walk'.seen) \/ Beyond(walk'.after, r)
    <2> DEFINE W == ReadAfter(Following(Shown), limit)
               T == steady'
    <2>1. T \in SUBSET Shown
      BY <1>7
    <2>2. walk.pc = "more" => Ahead(T)
      BY <1>7 DEF Ahead
    <2> HIDE DEF W, T
    <2>3. /\ W \in WalkType /\ W.pc \in {"more", "done"}
          /\ W.high = walk.high /\ W.digest = walk.digest /\ W.offset = walk.offset
          /\ Ascending(W.seen) /\ Range(W.seen) \subseteq Range(walk.seen) \cup Shown
          /\ W.pc = "more" => W.seen # <<>> /\ W.after = Last(W.seen)
          /\ \A U \in SUBSET Shown : (walk.pc = "more" => Ahead(U)) =>
              /\ W.pc = "done" => U \subseteq Range(W.seen)
              /\ W.pc = "more" => \A r \in U : r \in Range(W.seen) \/ Beyond(W.after, r)
          /\ walk.pc = "idle" => Range(walk.seen) = {}
      <3>1. walk.pc \in {"idle", "more"} /\ Shown \in SUBSET Keys
        BY <1>1, <1>2
      <3>2. W = ReadAfter(Following(Shown), limit)
        BY DEF W
      <3> QED BY <1>4, <3>1, <3>2, FollowStep
    <2>4. /\ W.pc = "done" => T \subseteq Range(W.seen)
          /\ W.pc = "more" => \A r \in T : r \in Range(W.seen) \/ Beyond(W.after, r)
      BY <2>1, <2>2, <2>3
    <2> QED BY <1>3, <2>3, <2>4 DEF W, T
  <1>9. Ascending(walk.seen)' /\ kind' \notin Digested /\ kind' # "events"
    BY <1>1, <1>2, <1>8 DEF Ascending, Precedes, Digested
  <1>10. WalkFaithful'
    BY <1>8, <1>9 DEF WalkFaithful, Ascending
  <1>11. walk'.pc = "more" => MoreShape'
    <2> SUFFICES ASSUME walk'.pc = "more" PROVE MoreShape'
      OBVIOUS
    <2>1. Ahead(steady)'
      BY <1>2, <1>8 DEF Ahead, Beyond
    <2> QED BY <1>1, <1>2, <1>7, <1>8, <1>9, <2>1 DEF MoreShape, Digested
  <1> QED BY <1>8, <1>10, <1>11 DEF WalkShape

LEMMA RefusedStep ==
  ASSUME walk \in WalkType, Refuse
  PROVE  walk' \in WalkType /\ WalkShape'
  <1>1. NoWalk \in WalkType /\ walk.seen \in Seq(Keys)
    <2>1. <<>> \in Seq(Keys) /\ <<0, 0>> \in Nat \X Nat /\ {} \in SUBSET Keys
      OBVIOUS
    <2> QED BY <2>1 DEF NoWalk, WalkType
  <1>2. walk' \in WalkType /\ walk'.pc = "refused"
    BY <1>1 DEF Refuse, WalkType
  <1> QED BY <1>2 DEF WalkShape, WalkFaithful

\* A page of metadata comes from the collection of the first page or is refused.
LEMMA MetadataStep ==
  ASSUME RowShape, walk \in WalkType, WalkShape, NEW limit \in 1 .. MaxLimit,
         PaginateIntegrationItems(limit)
  PROVE  walk' \in WalkType /\ WalkShape'
  <1>1. kind = "metadata" /\ walk.pc \in {"idle", "more"} /\ Untouched
    BY DEF PaginateIntegrationItems, Reading
  <1>2. /\ kind' = kind /\ rows' = rows /\ Shown' = rows /\ Shown = rows /\ rows \in SUBSET Keys
    BY <1>1, ReadingKeeps
  <1>3. CASE walk.pc = "more" /\ walk.digest # rows
    BY <1>3, RefusedStep DEF PaginateIntegrationItems
  <1>4. CASE ~(walk.pc = "more" /\ walk.digest # rows)
    <2> DEFINE W == ReadAfter(Following(rows), limit)
               T == steady'
    <2>1. walk' = [W EXCEPT !.digest = rows] /\ Began
      BY <1>4 DEF PaginateIntegrationItems
    <2>2. limit \in Nat \ {0}
      BY PageBounds
    <2>3. walk.pc = "more" => /\ walk.digest = rows /\ steady \subseteq rows /\ Ahead(steady)
                              /\ Range(walk.seen) \subseteq rows /\ Ahead(rows)
      BY <1>1, <1>2, <1>4 DEF WalkShape, MoreShape
    <2>4. T \in SUBSET rows /\ (walk.pc = "more" => Ahead(T) /\ Ahead(rows))
      <3>1. walk.pc = "idle" => T = rows
        BY <1>2, <2>1 DEF Began
      <3>2. walk.pc = "more" => T = steady
        BY <1>1, <2>1 DEF Began
      <3> QED BY <1>1, <2>3, <3>1, <3>2 DEF Ahead
    <2> HIDE DEF W, T
    <2>5. /\ W \in WalkType /\ W.pc \in {"more", "done"} /\ Ascending(W.seen)
          /\ W.pc = "more" => W.seen # <<>> /\ W.after = Last(W.seen)
          /\ Range(W.seen) \subseteq Range(walk.seen) \cup rows
          /\ \A U \in SUBSET rows : (walk.pc = "more" => Ahead(U)) =>
              /\ W.pc = "done" => U \subseteq Range(W.seen)
              /\ W.pc = "more" => \A r \in U : r \in Range(W.seen) \/ Beyond(W.after, r)
          /\ walk.pc = "idle" => Range(walk.seen) = {}
      <3>1. W = ReadAfter(Following(rows), limit)
        BY DEF W
      <3>2. walk.pc \in {"idle", "more"} /\ rows \in SUBSET Keys
        BY <1>1, <1>2
      <3> QED BY <2>2, <3>1, <3>2, FollowStep
    <2>6. Range(W.seen) \subseteq rows
      BY <1>1, <2>3, <2>5
    <2>7. /\ W.pc = "done" => T \subseteq Range(W.seen) /\ rows \subseteq Range(W.seen)
          /\ W.pc = "more" => \A r \in T \cup rows : r \in Range(W.seen) \/ Beyond(W.after, r)
      <3>1. rows \in SUBSET rows
        OBVIOUS
      <3> QED BY <2>4, <2>5, <3>1
    <2>8. /\ walk' \in WalkType /\ walk'.pc = W.pc /\ walk'.seen = W.seen
          /\ walk'.after = W.after /\ walk'.digest = rows
      BY <1>2, <2>1, <2>5 DEF WalkType
    <2>9. W.seen \in Seq(Keys) /\ (W.pc = "done" => W.seen = Sorted(rows))
      <3>1. W.seen \in Seq(Keys)
        BY <2>5 DEF WalkType
      <3>2. W.seen = Sorted(Range(W.seen))
        BY <2>5, <3>1, SortedUnique
      <3>3. W.pc = "done" => Range(W.seen) = rows
        BY <2>6, <2>7
      <3> QED BY <3>1, <3>2, <3>3
    <2>10. Ascending(walk.seen)' /\ Sorted(rows)' = Sorted(rows)
      <3>1. Ascending(walk.seen)'
        BY <1>2, <2>5, <2>8 DEF Ascending, Precedes
      <3>2. \A S, r : Before(S, r)' = Before(S, r)
        BY <1>2 DEF Before, Precedes
      <3> QED BY <1>2, <3>1, <3>2 DEF Sorted
    <2>11. WalkFaithful'
      <3>1. walk'.pc = "done" => walk'.seen = Sorted(walk.digest)'
        BY <1>2, <2>8, <2>9, <2>10
      <3> QED BY <1>1, <1>2, <2>7, <2>8, <2>10, <3>1 DEF WalkFaithful, Ascending, T
    <2>12. walk'.pc = "more" => MoreShape'
      <3> SUFFICES ASSUME walk'.pc = "more" PROVE MoreShape'
        OBVIOUS
      <3>1. Ahead(steady)' /\ Ahead(walk.digest)'
        BY <1>2, <2>7, <2>8 DEF Ahead, Beyond, T
      <3>2. Range(walk.seen)' \subseteq walk'.digest /\ steady' \subseteq Shown'
            /\ steady' \subseteq walk'.digest
        BY <1>2, <2>4, <2>6, <2>8 DEF T
      <3> QED BY <1>1, <1>2, <2>5, <2>8, <2>10, <3>1, <3>2 DEF MoreShape
    <2> QED BY <2>5, <2>8, <2>11, <2>12 DEF WalkShape
  <1> QED BY <1>3, <1>4

LEMMA LeastNatural ==
  ASSUME NEW S \in SUBSET Nat, S # {}
  PROVE  \E n \in S : \A m \in S : n <= m
  <1> DEFINE R == OpToRel(<, Nat)
  <1>1. IsWellFoundedOn(R, Nat)
    BY NatLessThanWellFounded
  <1>2. \A a, b \in Nat : <<a, b>> \in R <=> a < b
    BY DEF OpToRel
  <1> HIDE DEF R
  <1>3. PICK n \in S : \A m \in S : ~(<<m, n>> \in R)
    BY <1>1, WFMin
  <1>4. \A m \in S : ~(m < n)
    BY <1>2, <1>3
  <1> QED BY <1>4

\* The highest event there is, or none.
LEMMA HighWaterBounds ==
  ASSUME rows \in SUBSET Keys
  PROVE  HighWater \in Nat /\ \A r \in rows : r[1] <= HighWater
  <1> DEFINE X == {0} \cup {r[1] : r \in rows}
             U == {n \in Nat : \A x \in X : x <= n}
  <1>1. X \subseteq Nat /\ \A x \in X : x <= MaxKey
    <2>1. \A r \in rows : r[1] \in 1 .. MaxKey
      BY DEF Keys
    <2> QED BY <2>1, PageBounds
  <1>2. MaxKey \in U
    BY <1>1, PageBounds
  <1>4. PICK n \in U : \A m \in U : n <= m
    <2>1. U \in SUBSET Nat /\ U # {}
      BY <1>2
    <2> HIDE DEF U
    <2> QED BY <2>1, LeastNatural
  <1>5. n \in Nat /\ (\A x \in X : x <= n) /\ 0 \in X
    BY <1>4
  <1>6. n \in X
    <2> SUFFICES ASSUME n \notin X PROVE FALSE
      OBVIOUS
    <2>1. n # 0
      BY <1>5
    <2>2. n - 1 \in Nat /\ \A x \in X : x <= n - 1
      <3>1. \A x \in X : x \in Nat /\ x <= n /\ x # n
        BY <1>1, <1>5
      <3>2. n \in Nat
        BY <1>5
      <3> HIDE DEF X
      <3> QED BY <2>1, <3>1, <3>2
    <2>3. n - 1 \in U /\ n - 1 < n
      BY <1>5, <2>2
    <2> QED BY <1>4, <1>5, <2>2, <2>3
  <1>7. \E x \in X : \A y \in X : x >= y
    BY <1>1, <1>5, <1>6
  <1>8. Max(X) \in X /\ \A y \in X : Max(X) >= y
    <2> HIDE DEF X
    <2> QED BY <1>7 DEF Max
  <1>9. \A r \in rows : r[1] \in X
    OBVIOUS
  <1>10. HighWater = Max(X)
    BY DEF HighWater
  <1> HIDE DEF X
  <1> QED BY <1>1, <1>8, <1>9, <1>10

\* A page of the history: the events up to the highest of the first page.
LEMMA EventStep ==
  ASSUME RowShape, walk \in WalkType, WalkShape, NEW limit \in 1 .. MaxLimit,
         ExecutionEventPage(limit)
  PROVE  walk' \in WalkType /\ WalkShape'
  <1>1. kind = "events" /\ walk.pc \in {"idle", "more"} /\ Untouched
    BY DEF ExecutionEventPage, Reading
  <1>2. /\ kind' = kind /\ Shown' = rows /\ Shown = rows /\ rows \in SUBSET Keys
        /\ \A r \in rows : r[2] = 1
    <2>1. \A r \in rows : r[2] = 1
      BY <1>1 DEF RowShape, Numbered
    <2> QED BY <1>1, <2>1, ReadingKeeps
  <1>3. HighWater \in Nat /\ \A r \in rows : r[1] <= HighWater
    BY <1>2, HighWaterBounds
  <1>4. limit \in Nat \ {0}
    BY PageBounds
  <1>5. CASE walk.pc = "more" /\ walk.high > HighWater
    BY <1>5, RefusedStep DEF ExecutionEventPage
  <1>6. CASE ~(walk.pc = "more" /\ walk.high > HighWater)
    <2> DEFINE high == IF walk.pc = "idle" THEN HighWater ELSE walk.high
               Q == {r \in rows : r[1] <= high}
               W == ReadAfter(Following(Q), limit)
               T == steady'
    <2>1. high \in Nat
      BY <1>3 DEF WalkType
    <2>2. ASSUME walk.pc = "more"
          PROVE  /\ steady \subseteq Q /\ Ahead(steady) /\ high = walk.high
                 /\ \A r \in Range(walk.seen) : r[2] = 1 /\ r[1] <= high
                 /\ walk.after[2] = 1 /\ walk.after \in Nat \X Nat
      <3>1. /\ steady \subseteq rows /\ Ahead(steady) /\ high = walk.high
            /\ \A r \in steady : r[1] <= walk.high
            /\ \A r \in Range(walk.seen) : r[2] = 1 /\ r[1] <= walk.high
            /\ walk.seen # <<>> /\ walk.after = Last(walk.seen)
        BY <1>1, <1>2, <2>2 DEF WalkShape, MoreShape
      <3>2. walk.after \in Range(walk.seen) /\ walk.after \in Nat \X Nat
        <4>1. walk.seen \in Seq(Keys) /\ walk.after \in Nat \X Nat
          BY DEF WalkType
        <4>2. Len(walk.seen) \in DOMAIN walk.seen
          BY <3>1, <4>1
        <4> QED BY <3>1, <4>1, <4>2 DEF Last, Range
      <3> QED BY <3>1, <3>2
    <2>3. walk.pc = "idle" => ExecutionEvents(0, HighWater) = Following(Q) /\ Q = rows
      <3>1. \A r \in rows : r[1] > 0
        BY <1>2 DEF Keys
      <3> QED BY <1>3, <3>1 DEF ExecutionEvents, Following
    <2>4. walk.pc = "more" => ExecutionEvents(walk.after[1], walk.high) = Following(Q)
      <3> SUFFICES ASSUME walk.pc = "more"
                   PROVE  ExecutionEvents(walk.after[1], walk.high) = Following(Q)
        OBVIOUS
      <3>1. walk.after[2] = 1 /\ walk.after[1] \in Nat /\ high = walk.high /\ walk.pc # "idle"
        BY <2>2
      <3>2. \A r \in rows : Beyond(walk.after, r) <=> r[1] > walk.after[1]
        BY <1>1, <1>2, <3>1 DEF Beyond, Keys
      <3> QED BY <3>1, <3>2 DEF ExecutionEvents, Following
    <2>5. /\ walk' = [W EXCEPT !.high = high] \/ (walk' = W /\ high = walk.high)
          /\ Began
      <3>1. CASE walk.pc = "idle"
        BY <2>3, <3>1 DEF ExecutionEventPage
      <3>2. CASE walk.pc = "more"
        BY <1>6, <2>2, <2>4, <3>2 DEF ExecutionEventPage
      <3> QED BY <1>1, <3>1, <3>2
    <2>6. T \in SUBSET Q /\ (walk.pc = "more" => Ahead(T))
      <3>1. walk.pc = "idle" => T = rows
        BY <1>2, <2>5 DEF Began
      <3>2. walk.pc = "more" => T = steady
        BY <1>1, <2>5 DEF Began
      <3> HIDE DEF Q
      <3> QED BY <1>1, <2>2, <2>3, <3>1, <3>2 DEF Ahead
    <2>7. Q \in SUBSET Keys /\ \A r \in Q : r \in rows /\ r[2] = 1 /\ r[1] <= high
      BY <1>2
    <2> HIDE DEF W, T, Q, high
    <2>8. /\ W \in WalkType /\ W.pc \in {"more", "done"} /\ Ascending(W.seen)
          /\ W.high = walk.high
          /\ W.pc = "more" => W.seen # <<>> /\ W.after = Last(W.seen)
          /\ Range(W.seen) \subseteq Range(walk.seen) \cup Q
          /\ \A U \in SUBSET Q : (walk.pc = "more" => Ahead(U)) =>
              /\ W.pc = "done" => U \subseteq Range(W.seen)
              /\ W.pc = "more" => \A r \in U : r \in Range(W.seen) \/ Beyond(W.after, r)
          /\ walk.pc = "idle" => Range(walk.seen) = {}
      <3>1. W = ReadAfter(Following(Q), limit)
        BY DEF W
      <3>2. walk.pc \in {"idle", "more"} /\ Q \in SUBSET Keys
        BY <1>1, <2>7
      <3> QED BY <1>4, <3>1, <3>2, FollowStep
    <2>9. \A r \in Range(W.seen) : r[2] = 1 /\ r[1] <= high
      BY <1>1, <2>2, <2>7, <2>8
    <2>10. /\ W.pc = "done" => T \subseteq Range(W.seen)
           /\ W.pc = "more" => \A r \in T : r \in Range(W.seen) \/ Beyond(W.after, r)
      BY <2>6, <2>8
    <2>11. /\ walk' \in WalkType /\ walk'.pc = W.pc /\ walk'.seen = W.seen
           /\ walk'.after = W.after /\ walk'.high = high
      BY <2>1, <2>5, <2>8 DEF WalkType
    <2>12. Ascending(walk.seen)'
      BY <1>2, <2>8, <2>11 DEF Ascending, Precedes
    <2>13. WalkFaithful'
      BY <1>1, <1>2, <2>9, <2>10, <2>11, <2>12 DEF WalkFaithful, Ascending, T, Digested
    <2>14. walk'.pc = "more" => MoreShape'
      <3> SUFFICES ASSUME walk'.pc = "more" PROVE MoreShape'
        OBVIOUS
      <3>1. Ahead(steady)'
        BY <1>2, <2>10, <2>11 DEF Ahead, Beyond, T
      <3>2. steady' \subseteq Shown' /\ \A r \in steady' : r[1] <= walk'.high
        BY <1>2, <2>6, <2>7, <2>11 DEF T
      <3>3. kind' = "events" /\ kind' \notin Digested
        BY <1>1, <1>2 DEF Digested
      <3> QED BY <2>8, <2>9, <2>11, <2>12, <3>1, <3>2, <3>3 DEF MoreShape, Digested
    <2> QED BY <2>8, <2>11, <2>13, <2>14 DEF WalkShape
  <1> QED BY <1>5, <1>6

\* A page of tools: the next part of the collection of the first page.
LEMMA ToolStep ==
  ASSUME RowShape, walk \in WalkType, WalkShape, NEW limit \in 1 .. MaxLimit,
         ManagementMcpListTools(limit)
  PROVE  walk' \in WalkType /\ WalkShape'
  <1>1. kind = "tools" /\ walk.pc \in {"idle", "more"} /\ Untouched
    BY DEF ManagementMcpListTools, Reading
  <1>2. /\ kind' = kind /\ Shown' = rows /\ Shown = rows /\ rows \in SUBSET Keys
    BY <1>1, ReadingKeeps
  <1>3. CASE walk.pc = "more" /\ walk.digest # rows
    BY <1>3, RefusedStep DEF ManagementMcpListTools
  <1>4. CASE ~(walk.pc = "more" /\ walk.digest # rows)
    <2> DEFINE offset == IF walk.pc = "more" THEN walk.offset ELSE 0
               all == Sorted(rows)
               n == Len(all)
               end == IF offset + limit < n THEN offset + limit ELSE n
               p == SubSeq(all, offset + 1, end)
               W == Answer(p, end < n)
    <2>1. walk' = [W EXCEPT !.digest = rows, !.offset = end] /\ Began
      BY <1>4 DEF ManagementMcpListTools
    <2>2. /\ all \in Seq(Keys) /\ n \in Nat /\ n = Cardinality(rows)
          /\ Ascending(all) /\ Range(all) = rows
      <3>1. all \in Seq(rows) /\ n = Cardinality(rows) /\ Ascending(all) /\ Range(all) = rows
        BY <1>2, SortedFacts
      <3> HIDE DEF all
      <3> QED BY <1>2, <3>1
    <2>3. /\ offset \in 0 .. n /\ walk.seen = SubSeq(all, 1, offset)
          /\ walk.pc = "more" => steady \subseteq rows
      <3>1. CASE walk.pc = "more"
        <4>1. /\ walk.digest = rows /\ walk.offset <= Cardinality(rows)
              /\ walk.seen = SubSeq(all, 1, walk.offset) /\ steady \subseteq rows
          BY <1>1, <1>2, <1>4, <3>1 DEF WalkShape, MoreShape
        <4>2. walk.offset \in Nat
          BY DEF WalkType
        <4> HIDE DEF all, n
        <4> QED BY <2>2, <3>1, <4>1, <4>2
      <3>2. CASE walk.pc = "idle"
        <4>1. walk.seen = <<>> /\ offset = 0
          BY <3>2 DEF WalkShape, NoWalk
        <4>2. SubSeq(all, 1, 0) = <<>>
          BY SubSeqEmpty
        <4> HIDE DEF all, n
        <4> QED BY <2>2, <3>2, <4>1, <4>2
      <3> QED BY <1>1, <3>1, <3>2
    <2> HIDE DEF all, n, offset
    <2>4. /\ limit \in Nat /\ limit > 0 /\ end \in offset .. n /\ end \in 0 .. n
          /\ end < n => end = offset + limit /\ end > 0
          /\ ~(end < n) => end = n
      BY <2>2, <2>3, PageBounds
    <2> HIDE DEF end, p
    <2>5. walk.seen \o p = SubSeq(all, 1, end)
      <3>1. /\ 1 \in 1 .. Len(all) + 1 /\ offset \in 1 - 1 .. Len(all)
            /\ end \in offset .. Len(all)
        BY <2>2, <2>3, <2>4 DEF n
      <3>2. SubSeq(all, 1, offset) \o SubSeq(all, offset + 1, end) = SubSeq(all, 1, end)
        BY <2>2, <3>1, ConcatAdjacentSubSeq
      <3> QED BY <2>3, <3>2 DEF p
    <2> DEFINE q == SubSeq(all, 1, end)
    <2>6. q \in Seq(Keys) /\ Len(q) = end /\ \A i \in 1 .. end : q[i] = all[i]
      <3>1. \A i \in 1 .. end : all[i] \in Keys
        BY <2>2, <2>4 DEF n
      <3>2. 1 \in Int /\ end \in Int
        BY <2>4
      <3>3. q \in Seq(Keys) /\ Len(q) = end
        BY <2>4, <3>1, <3>2, SubSeqProperties
      <3>4. \A i \in 1 .. end : q[i] = all[i]
        BY <2>4, <3>1, <3>2, SubSeqProperties
      <3> QED BY <3>3, <3>4
    <2>7. p \in Seq(Keys) /\ (end < n => p # <<>>) /\ (p # <<>> => Last(p) = Last(q) /\ q # <<>>)
      <3>1. /\ \A i \in offset + 1 .. end : all[i] \in Keys
            /\ offset + 1 \in Int /\ end \in Int
        BY <2>2, <2>3, <2>4 DEF n
      <3>2. p \in Seq(Keys) /\ Len(p) = end - offset
        <4>1. p \in Seq(Keys) /\ Len(p) = IF offset + 1 <= end THEN end - (offset + 1) + 1 ELSE 0
          BY <3>1, SubSeqProperties DEF p
        <4> QED BY <2>3, <2>4, <4>1
      <3>3. \A i \in 1 .. end - (offset + 1) + 1 : p[i] = all[offset + 1 + i - 1]
        BY <3>1, SubSeqProperties DEF p
      <3>4. ASSUME p # <<>> PROVE Last(p) = Last(q) /\ q # <<>>
        <4>1. end - offset # 0
          BY <3>2, <3>4
        <4>2. /\ end - offset \in 1 .. end - (offset + 1) + 1 /\ end \in 1 .. end
              /\ offset + 1 + (end - offset) - 1 = end /\ end # 0
          BY <2>3, <2>4, <4>1
        <4>3. p[end - offset] = all[end]
          BY <3>3, <4>2
        <4>4. q[end] = all[end]
          BY <2>6, <4>2
        <4> QED BY <2>6, <3>2, <4>2, <4>3, <4>4 DEF Last
      <3>5. end < n => end - offset # 0
        BY <2>3, <2>4
      <3> QED BY <3>2, <3>4, <3>5
    <2> HIDE DEF q, W
    <2>8. /\ W.pc = (IF end < n THEN "more" ELSE "done") /\ W.seen = q
          /\ W.after = (IF p = <<>> THEN <<0, 0>> ELSE Last(p))
      BY <2>5 DEF W, Answer, WalkType, q
    <2>9. W.after \in Nat \X Nat
      <3>1. p # <<>> => Last(p) \in Keys
        BY <2>7 DEF Last
      <3> QED BY <2>8, <3>1 DEF Keys
    <2>10. W \in WalkType
      BY <2>6, <2>8, <2>9 DEF W, Answer, WalkType
    <2>11. /\ walk' \in WalkType /\ walk'.pc = W.pc /\ walk'.seen = q
           /\ walk'.after = W.after /\ walk'.digest = rows /\ walk'.offset = end
      <3>1. end \in Nat
        BY <2>4
      <3> QED BY <1>2, <2>1, <2>8, <2>10, <3>1 DEF WalkType
    <2>12. Ascending(q)
      BY <2>2, <2>4, <2>6 DEF Ascending, n
    <2>13. Ascending(walk.seen)' /\ Sorted(walk.digest)' = all
      <3>1. Ascending(walk.seen)'
        BY <1>2, <2>11, <2>12 DEF Ascending, Precedes
      <3>2. \A S, r : Before(S, r)' = Before(S, r)
        BY <1>2 DEF Before, Precedes
      <3> QED BY <2>11, <3>1, <3>2 DEF Sorted, all
    <2>14. steady' \subseteq rows
      BY <1>1, <1>2, <2>1, <2>3 DEF Began
    <2>15. W.pc = "done" => q = all
      <3>1. W.pc = "done" => end = Len(all)
        BY <2>4, <2>8 DEF n
      <3> QED BY <2>2, <3>1, SubSeqFull DEF q
    <2>16. WalkFaithful'
      BY <1>1, <1>2, <2>2, <2>11, <2>13, <2>14, <2>15 DEF WalkFaithful, Ascending
    <2>17. walk'.pc = "more" => MoreShape'
      <3> SUFFICES ASSUME walk'.pc = "more" PROVE MoreShape'
        OBVIOUS
      <3>1. end < n /\ walk'.seen # <<>> /\ walk'.after = Last(walk'.seen)
        BY <2>7, <2>8, <2>11
      <3>2. walk'.offset <= Cardinality(walk.digest)' /\ walk'.seen = SubSeq(Sorted(walk.digest)', 1, walk'.offset)
        <4>1. end <= Cardinality(rows)
          BY <2>2, <2>4
        <4> QED BY <2>11, <2>13, <4>1 DEF q
      <3> QED BY <1>1, <1>2, <2>11, <2>13, <2>14, <3>1, <3>2 DEF MoreShape
    <2>18. walk'.pc # "idle"
      BY <2>8, <2>11
    <2> QED BY <2>11, <2>16, <2>17, <2>18 DEF WalkShape
  <1> QED BY <1>3, <1>4

PageShape ==
  /\ RowShape /\ walk \in WalkType /\ WalkShape /\ stream \in StreamType
  /\ kind = "stream" => StreamShape
  /\ kind # "stream" => stream.pc = "off" /\ stream.received = <<>>

\* A change of the collection: what stays steady is still shown, and an event
\* that comes has a number not given before.
LEMMA RowEffect ==
  ASSUME RowShape,
         \/ \E r \in Keys : AddRow(r) \/ RemoveRow(r) \/ Schedule(r) \/ ChangeStatus(r)
         \/ \E r \in Keys, v \in 1 .. MaxKey : UpdateRow(r, v)
         \/ \E mine \in BOOLEAN : AppendEvent(mine)
         \/ \E upto \in 1 .. MaxKey : ApplyRetention(upto)
  PROVE  /\ RowShape' /\ UNCHANGED <<kind, walk, stream>> /\ steady' \subseteq steady
         /\ steady \subseteq Shown => steady' \subseteq Shown'
         /\ counter' >= counter
         /\ kind = "stream" => \A r \in rows' : r \in rows \/ r[1] > counter
  <1> USE DEF Numbered, Digested
  <1>0. counter \in Nat /\ MaxKey \in Nat
    BY PageBounds DEF RowShape
  <1>1. ASSUME NEW new \in SUBSET Keys, NEW hid, Changed(new, hid),
               kind # "executions" => hid = {}
        PROVE  /\ rows' = new /\ hidden' = hid /\ UNCHANGED <<kind, walk, stream, scheduled>>
               /\ steady' \subseteq steady /\ steady' \subseteq Shown'
    BY <1>1 DEF Changed, RowShape, Shown, Projections
  <1>2. ASSUME NEW r \in Keys, AddRow(r) PROVE RowShape' /\ kind \notin Numbered
               /\ UNCHANGED <<kind, walk, stream, counter>> /\ steady' \subseteq steady /\ steady' \subseteq Shown'
    <2>1. rows \cup {r} \in SUBSET Keys /\ (kind # "executions" => hidden = {})
      BY DEF RowShape
    <2>2. Changed(rows \cup {r}, hidden) /\ kind \notin Numbered /\ counter' = counter
      BY <1>2 DEF AddRow
    <2>3. /\ rows' = rows \cup {r} /\ hidden' = hidden /\ UNCHANGED <<kind, walk, stream, scheduled>>
          /\ steady' \subseteq steady /\ steady' \subseteq Shown'
      BY <1>1, <2>1, <2>2
    <2> QED BY <2>1, <2>2, <2>3 DEF RowShape
  <1>3. ASSUME NEW r \in Keys, RemoveRow(r) PROVE RowShape' /\ kind # "stream"
               /\ UNCHANGED <<kind, walk, stream, counter>> /\ steady' \subseteq steady /\ steady' \subseteq Shown'
    <2>1. rows \ {r} \in SUBSET Keys /\ (kind # "executions" => hidden \ {r} = {})
      BY DEF RowShape
    <2>2. Changed(rows \ {r}, hidden \ {r}) /\ kind \in {"triggers"} \cup Digested /\ counter' = counter
      BY <1>3 DEF RemoveRow
    <2>3. /\ rows' = rows \ {r} /\ hidden' = hidden \ {r}
          /\ UNCHANGED <<kind, walk, stream, scheduled>>
          /\ steady' \subseteq steady /\ steady' \subseteq Shown'
      BY <1>1, <2>1, <2>2
    <2> QED BY <2>1, <2>2, <2>3 DEF RowShape
  <1>4. ASSUME NEW r \in Keys, Schedule(r) PROVE RowShape' /\ kind # "stream"
               /\ UNCHANGED <<kind, walk, stream, counter, steady>> /\ Shown \subseteq Shown'
    BY <1>4 DEF Schedule, RowShape, Shown, Projections
  <1>5. ASSUME NEW r \in Keys, ChangeStatus(r) PROVE RowShape' /\ kind # "stream"
               /\ UNCHANGED <<kind, walk, stream, counter>> /\ steady' \subseteq steady /\ steady' \subseteq Shown'
    <2> DEFINE hid == IF r \in hidden THEN hidden \ {r} ELSE hidden \cup {r}
    <2>1. rows \in SUBSET Keys
      BY DEF RowShape
    <2>2. Changed(rows, hid) /\ kind = "executions" /\ counter' = counter
      BY <1>5 DEF ChangeStatus
    <2> HIDE DEF hid
    <2>3. /\ rows' = rows /\ UNCHANGED <<kind, walk, stream, scheduled>>
          /\ steady' \subseteq steady /\ steady' \subseteq Shown'
      BY <1>1, <2>1, <2>2
    <2> QED BY <2>2, <2>3 DEF RowShape
  <1>6. ASSUME NEW r \in Keys, NEW v \in 1 .. MaxKey, UpdateRow(r, v)
        PROVE  RowShape' /\ kind # "stream"
               /\ UNCHANGED <<kind, walk, stream, counter>> /\ steady' \subseteq steady /\ steady' \subseteq Shown'
    <2> DEFINE new == (rows \ {r}) \cup {<<r[1], v>>}
    <2>1. new \in SUBSET Keys /\ (kind # "executions" => hidden = {})
      BY DEF RowShape, Keys
    <2>2. Changed(new, hidden) /\ kind = "metadata" /\ counter' = counter
      BY <1>6 DEF UpdateRow
    <2> HIDE DEF new
    <2>3. /\ rows' = new /\ hidden' = hidden /\ UNCHANGED <<kind, walk, stream, scheduled>>
          /\ steady' \subseteq steady /\ steady' \subseteq Shown'
      BY <1>1, <2>1, <2>2
    <2> QED BY <2>1, <2>2, <2>3 DEF RowShape
  <1>7. ASSUME NEW mine \in BOOLEAN, AppendEvent(mine)
        PROVE  RowShape' /\ UNCHANGED <<kind, walk, stream>> /\ steady' \subseteq steady
               /\ steady' \subseteq Shown' /\ counter' = counter + 1
               /\ \A r \in rows' : r \in rows \/ r[1] > counter
    <2> DEFINE new == IF mine THEN rows \cup {<<counter + 1, 1>>} ELSE rows
    <2>1. counter' = counter + 1 /\ counter < MaxKey /\ Changed(new, hidden)
      BY <1>7 DEF AppendEvent
    <2>2. new \in SUBSET Keys /\ (kind # "executions" => hidden = {})
      <3>1. counter + 1 \in 1 .. MaxKey /\ 1 \in 1 .. MaxKey
        BY <1>0, <2>1
      <3> QED BY <3>1 DEF RowShape, Keys
    <2>3. \A r \in new : r \in rows \/ r = <<counter + 1, 1>>
      OBVIOUS
    <2> HIDE DEF new
    <2>4. /\ rows' = new /\ hidden' = hidden /\ UNCHANGED <<kind, walk, stream, scheduled>>
          /\ steady' \subseteq steady /\ steady' \subseteq Shown'
      BY <1>1, <2>1, <2>2
    <2>5. kind \in Numbered => \A r \in new : r[2] = 1 /\ r[1] <= counter + 1
      <3> SUFFICES ASSUME kind \in Numbered, NEW r \in new PROVE r[2] = 1 /\ r[1] <= counter + 1
        OBVIOUS
      <3>1. r \in rows => r[2] = 1 /\ r[1] <= counter /\ r[1] \in Int
        BY <2>2 DEF RowShape, Keys
      <3>2. r = <<counter + 1, 1>> => r[2] = 1 /\ r[1] = counter + 1
        OBVIOUS
      <3> QED BY <1>0, <2>3, <3>1, <3>2
    <2>6. RowShape'
      BY <1>0, <2>1, <2>2, <2>4, <2>5 DEF RowShape
    <2>7. \A r \in new : r \in rows \/ r[1] > counter
      BY <1>0, <2>3
    <2> QED BY <2>1, <2>4, <2>6, <2>7
  <1>8. ASSUME NEW upto \in 1 .. MaxKey, ApplyRetention(upto)
        PROVE  RowShape' /\ rows' \subseteq rows /\ UNCHANGED <<kind, walk, stream, counter>>
               /\ steady' \subseteq steady /\ steady' \subseteq Shown'
    <2> DEFINE gone == {r \in rows : IF kind = "executions" THEN r[2] = upto ELSE r[1] <= upto}
    <2>1. Changed(rows \ gone, hidden \ gone) /\ counter' = counter
      BY <1>8 DEF ApplyRetention
    <2> HIDE DEF gone
    <2>2. rows \ gone \in SUBSET Keys /\ (kind # "executions" => hidden \ gone = {})
      BY DEF RowShape
    <2>3. /\ rows' = rows \ gone /\ hidden' = hidden \ gone
          /\ UNCHANGED <<kind, walk, stream, scheduled>>
          /\ steady' \subseteq steady /\ steady' \subseteq Shown'
      BY <1>1, <2>1, <2>2
    <2> QED BY <2>1, <2>2, <2>3 DEF RowShape
  <1>9. counter >= counter /\ counter + 1 >= counter
    BY <1>0
  <1>10. CASE \E r \in Keys : AddRow(r) \/ RemoveRow(r) \/ Schedule(r) \/ ChangeStatus(r)
    BY <1>2, <1>3, <1>4, <1>5, <1>9, <1>10
  <1>11. CASE \E r \in Keys, v \in 1 .. MaxKey : UpdateRow(r, v)
    BY <1>6, <1>9, <1>11
  <1>12. CASE \E mine \in BOOLEAN : AppendEvent(mine)
    BY <1>7, <1>9, <1>12
  <1>13. CASE \E upto \in 1 .. MaxKey : ApplyRetention(upto)
    BY <1>8, <1>9, <1>13
  <1> QED BY <1>10, <1>11, <1>12, <1>13

\* A walk between two pages stands a change of the collection.
LEMMA RowsWalk ==
  ASSUME walk \in WalkType, WalkShape, UNCHANGED <<kind, walk>>, steady' \subseteq steady,
         steady \subseteq Shown => steady' \subseteq Shown'
  PROVE  walk' \in WalkType /\ WalkShape'
  <1>1. /\ Ascending(walk.seen)' <=> Ascending(walk.seen)
        /\ Sorted(walk.digest)' = Sorted(walk.digest)
    <2>1. \A S, r : Before(S, r)' = Before(S, r)
      BY DEF Before, Precedes
    <2> QED BY <2>1 DEF Ascending, Precedes, Sorted
  <1>2. walk.pc = "more" => MoreShape'
    <2> SUFFICES ASSUME walk.pc = "more" PROVE MoreShape'
      OBVIOUS
    <2>1. MoreShape
      BY DEF WalkShape
    <2>2. (Ahead(steady) => Ahead(steady)') /\ (Ahead(walk.digest) => Ahead(walk.digest)')
      BY DEF Ahead, Beyond
    <2> QED BY <1>1, <2>1, <2>2 DEF MoreShape, Digested
  <1>3. WalkFaithful'
    <2>1. WalkFaithful
      BY DEF WalkShape
    <2> QED BY <1>1, <2>1 DEF WalkFaithful, Ascending, Digested
  <1> QED BY <1>2, <1>3 DEF WalkShape, NoWalk, WalkType, Keys

\* The last event of a rising sequence has the highest number.
LEMMA RisingLast ==
  ASSUME NEW s \in Seq(Nat \X {1}), Rising(s), s # <<>>
  PROVE  /\ Last(s) \in Range(s) /\ Head(s) \in Range(s)
         /\ Last(s) \in Nat \X {1} /\ Head(s) \in Nat \X {1}
         /\ \A r \in Range(s) : r[1] \in Nat /\ r[1] <= Last(s)[1]
         /\ \A r \in Range(s) : r = Head(s) \/ Head(s)[1] < r[1]
  <1> DEFINE n == Len(s)
  <1>1. n \in Nat /\ n # 0 /\ DOMAIN s = 1 .. n /\ \A i \in 1 .. n : s[i] \in Nat \X {1}
    OBVIOUS
  <1> HIDE DEF n
  <1>2. n \in 1 .. n /\ 1 \in 1 .. n /\ \A i \in 1 .. n : (i = n \/ i < n) /\ (i = 1 \/ 1 < i)
    BY <1>1
  <1>3. Last(s) = s[n] /\ Head(s) = s[1] /\ Range(s) = {s[i] : i \in 1 .. n}
    BY <1>1 DEF Last, Range, n
  <1>4. \A i, j \in 1 .. n : i < j => s[i][1] < s[j][1]
    BY DEF Rising, n
  <1>5. ASSUME NEW i \in 1 .. n
        PROVE  s[i][1] \in Nat /\ s[i][1] <= s[n][1] /\ (i = 1 \/ s[1][1] < s[i][1])
    <2>1. s[i][1] \in Nat /\ s[n][1] \in Nat
      BY <1>1, <1>2
    <2>2. i = n \/ s[i][1] < s[n][1]
      BY <1>2, <1>4
    <2> QED BY <1>2, <1>4, <2>1, <2>2
  <1> QED BY <1>1, <1>2, <1>3, <1>5

\* What the store gives after a number: the next events, without a gap.
LEMMA BatchFacts ==
  ASSUME RowShape, kind = "stream", NEW c \in Nat, NEW p, p = Batch(c)
  PROVE  /\ p \in Seq(Nat \X {1}) /\ Rising(p) /\ Range(p) \subseteq rows
         /\ \A r \in Range(p) : r[1] > c
         /\ p # <<>> => \A r \in rows : r[1] <= c \/ r \in Range(p) \/ r[1] > Last(p)[1]
  <1> DEFINE S == EventsAfter(c)
  <1>1. \A r \in rows : r \in Keys /\ r[1] \in Nat /\ r[2] = 1 /\ r \in Nat \X {1}
    BY DEF RowShape, Keys, Numbered
  <1>2. S \in SUBSET Keys /\ S \subseteq rows /\ \A r \in rows : r \in S <=> r[1] > c
    BY <1>1 DEF EventsAfter
  <1>3. p = FirstOf(Sorted(S), MaxLimit) /\ MaxLimit \in Nat \ {0}
    BY PageBounds DEF Batch
  <1> HIDE DEF S
  <1>4. /\ p \in Seq(Keys) /\ Ascending(p) /\ Range(p) \subseteq S
        /\ p # <<>> => Last(p) \in S /\ \A r \in S : r \in Range(p) \/ Precedes(Last(p), r)
    BY <1>2, <1>3, FirstRows
  <1>5. \A r, t \in rows : Precedes(r, t) => r[1] < t[1]
    BY <1>1 DEF Precedes
  <1>6. \A i \in 1 .. Len(p) : p[i] \in rows /\ p[i] \in Nat \X {1}
    BY <1>1, <1>2, <1>4 DEF Range
  <1>7. p \in Seq(Nat \X {1})
    <2>1. Len(p) \in Nat /\ p = [i \in 1 .. Len(p) |-> p[i]]
      BY <1>4
    <2> QED BY <1>6, <2>1, IsASeq
  <1>8. Rising(p)
    BY <1>4, <1>5, <1>6 DEF Rising, Ascending
  <1>9. ASSUME p # <<>>, NEW r \in rows
        PROVE  r[1] <= c \/ r \in Range(p) \/ r[1] > Last(p)[1]
    <2>1. Last(p) \in rows /\ (r \in S => r \in Range(p) \/ Precedes(Last(p), r))
      BY <1>2, <1>4, <1>9
    <2>2. r[1] \in Nat /\ Last(p)[1] \in Nat
      BY <1>1, <2>1
    <2> QED BY <1>2, <1>5, <2>1, <2>2
  <1> QED BY <1>2, <1>4, <1>7, <1>8, <1>9

\* A connection, again too, and a poll go on where the client is.
LEMMA StreamBatch ==
  ASSUME RowShape, kind = "stream", stream \in StreamType, StreamShape,
         UNCHANGED <<kind, rows, counter>>,
         stream' = [stream EXCEPT !.pc = "on", !.pending = Batch(LastReceived),
                                  !.cursor = LastReceived]
  PROVE  stream' \in StreamType /\ StreamShape'
  <1> DEFINE p == Batch(LastReceived)
  <1>1. /\ stream.received \in Seq(Nat \X {1})
        /\ LastReceived \in Nat
    <2>1. stream.received \in Seq(Nat \X {1})
      BY DEF StreamType
    <2>2. stream.received # <<>> => Last(stream.received) \in Nat \X {1}
      BY <2>1, RisingLast DEF StreamShape
    <2> QED BY <2>1, <2>2 DEF LastReceived
  <1> HIDE DEF p
  <1>2. /\ p \in Seq(Nat \X {1}) /\ Rising(p) /\ Range(p) \subseteq rows
        /\ \A r \in Range(p) : r[1] > LastReceived
        /\ p # <<>> => \A r \in rows : \/ r[1] <= LastReceived \/ r \in Range(p)
                                       \/ r[1] > Last(p)[1]
    <2>1. p = Batch(LastReceived)
      BY DEF p
    <2> QED BY <1>1, <2>1, BatchFacts
  <1>3. /\ stream'.pc = "on" /\ stream'.pending = p /\ stream'.cursor = LastReceived
        /\ stream'.received = stream.received /\ stream' \in StreamType
    <2>1. stream' = [stream EXCEPT !.pc = "on", !.pending = p, !.cursor = LastReceived]
      BY DEF p
    <2> QED BY <1>1, <1>2, <2>1 DEF StreamType
  <1>4. LastReceived' = LastReceived
    BY <1>3 DEF LastReceived
  <1>5. \A r \in rows : r[1] <= counter
    BY DEF RowShape, Numbered
  <1>6. StreamShape'
    <2>1. Rising(stream.received)' /\ Rising(stream.pending)'
      BY <1>2, <1>3 DEF StreamShape, Rising
    <2>2. \A r \in Range(stream'.received) \cup Range(stream'.pending) : r[1] <= counter'
      BY <1>2, <1>3, <1>5 DEF StreamShape
    <2>3. \A r \in rows' : r[1] <= LastReceived' => r \in Range(stream'.received)
      BY <1>3, <1>4 DEF StreamShape
    <2> QED BY <1>2, <1>3, <1>4, <2>1, <2>2, <2>3 DEF StreamShape
  <1> QED BY <1>3, <1>6

\* An event arrives: the client has it and everything before it.
LEMMA StreamArrives ==
  ASSUME RowShape, kind = "stream", stream \in StreamType, StreamShape, Send(TRUE)
  PROVE  stream' \in StreamType /\ StreamShape'
  <1> DEFINE g == stream.received
             p == stream.pending
             h == Head(p)
  <1>1. /\ g \in Seq(Nat \X {1}) /\ p \in Seq(Nat \X {1}) /\ p # <<>>
        /\ Rising(g) /\ Rising(p) /\ stream.pc = "on" /\ stream.cursor = LastReceived
        /\ \A r \in Range(g) \cup Range(p) : r[1] <= counter
        /\ \A r \in rows : r[1] <= LastReceived => r \in Range(g)
        /\ \A r \in Range(p) : r[1] > LastReceived
        /\ \A r \in rows : r[1] <= LastReceived \/ r \in Range(p) \/ r[1] > Last(p)[1]
    BY DEF Send, StreamShape, StreamType
  <1>2. /\ stream' = [pc |-> "on", pending |-> Tail(p), cursor |-> h[1], received |-> g \o <<h>>]
        /\ rows' = rows /\ counter' = counter
    BY DEF Send
  <1> HIDE DEF g, p, h
  <1>3. /\ h \in Range(p) /\ h \in Nat \X {1} /\ h[1] \in Nat /\ h[1] > LastReceived
        /\ \A r \in Range(p) : r[1] \in Nat /\ r[1] <= Last(p)[1]
        /\ \A r \in Range(p) : r = h \/ h[1] < r[1]
        /\ Last(p)[1] \in Nat
    BY <1>1, RisingLast DEF h
  <1>4. LastReceived \in Nat /\ \A r \in Range(g) : r[1] \in Nat /\ r[1] <= LastReceived
    <2>1. CASE g = <<>>
      BY <2>1 DEF LastReceived, g, Range
    <2>2. CASE g # <<>>
      BY <1>1, <2>2, RisingLast DEF LastReceived, g
    <2> QED BY <2>1, <2>2
  <1>5. /\ Tail(p) \in Seq(Nat \X {1}) /\ Rising(Tail(p)) /\ Range(p) = {h} \cup Range(Tail(p))
        /\ \A r \in Range(Tail(p)) : h[1] < r[1]
        /\ Tail(p) # <<>> => Last(Tail(p)) = Last(p)
    <2> DEFINE n == Len(p)
    <2>1. /\ Tail(p) \in Seq(Nat \X {1}) /\ n \in Nat /\ n # 0 /\ Len(Tail(p)) = n - 1
          /\ \A i \in 1 .. (n - 1) : Tail(p)[i] = p[i + 1]
          /\ DOMAIN p = 1 .. n /\ DOMAIN Tail(p) = 1 .. (n - 1) /\ h = p[1]
      BY <1>1, HeadTailProperties DEF h
    <2> HIDE DEF n
    <2>2. /\ \A i \in 1 .. (n - 1) : i + 1 \in 1 .. n /\ 1 < i + 1 /\ 1 \in 1 .. n
          /\ \A i \in 1 .. n : i = 1 \/ (i - 1 \in 1 .. (n - 1) /\ (i - 1) + 1 = i)
          /\ 1 \in 1 .. n
      BY <2>1
    <2>3. \A i, j \in 1 .. n : i < j => p[i][1] < p[j][1]
      BY <1>1 DEF Rising, n
    <2>4. Rising(Tail(p))
      <3> SUFFICES ASSUME NEW i \in 1 .. (n - 1), NEW j \in 1 .. (n - 1), i < j
                   PROVE  Tail(p)[i][1] < Tail(p)[j][1]
        BY <2>1 DEF Rising
      <3>1. i + 1 \in 1 .. n /\ j + 1 \in 1 .. n /\ i + 1 < j + 1
        BY <2>1
      <3> QED BY <2>1, <2>3, <3>1
    <2>5. Range(p) = {p[i] : i \in 1 .. n} /\ Range(Tail(p)) = {p[i + 1] : i \in 1 .. (n - 1)}
      BY <2>1 DEF Range
    <2>6. Range(p) = {h} \cup Range(Tail(p))
      <3>1. ASSUME NEW i \in 1 .. n PROVE p[i] \in {h} \cup Range(Tail(p))
        <4>1. i = 1 \/ (i - 1 \in 1 .. (n - 1) /\ (i - 1) + 1 = i)
          BY <2>2
        <4>2. i # 1 => p[(i - 1) + 1] \in Range(Tail(p))
          BY <2>5, <4>1
        <4> QED BY <2>1, <4>1, <4>2
      <3>2. ASSUME NEW i \in 1 .. (n - 1) PROVE p[i + 1] \in Range(p)
        BY <2>2, <2>5
      <3> QED BY <1>3, <2>5, <3>1, <3>2
    <2>7. \A r \in Range(Tail(p)) : h[1] < r[1]
      BY <2>1, <2>2, <2>3, <2>5
    <2>8. Tail(p) # <<>> => Last(Tail(p)) = Last(p)
      <3> SUFFICES ASSUME Tail(p) # <<>> PROVE Last(Tail(p)) = Last(p)
        OBVIOUS
      <3>1. n - 1 # 0
        BY <2>1
      <3>2. n - 1 \in 1 .. (n - 1) /\ (n - 1) + 1 = n
        BY <2>1, <3>1
      <3> QED BY <2>1, <3>2 DEF Last, n
    <2> QED BY <2>1, <2>4, <2>6, <2>7, <2>8
  <1> DEFINE c == g \o <<h>>
             m == Len(g)
  <1>6. /\ c \in Seq(Nat \X {1}) /\ Rising(c) /\ Range(c) = Range(g) \cup {h}
        /\ c # <<>> /\ Last(c) = h
    <2>0. <<h>> \in Seq(Nat \X {1}) /\ Len(<<h>>) = 1 /\ <<h>>[1] = h
      BY <1>3
    <2>1. /\ c \in Seq(Nat \X {1}) /\ m \in Nat /\ Len(c) = m + 1 /\ DOMAIN g = 1 .. m
          /\ \A i \in 1 .. m + 1 : c[i] = IF i <= m THEN g[i] ELSE <<h>>[i - m]
      BY <1>1, <2>0, ConcatProperties
    <2> HIDE DEF c, m
    <2>2. \A i \in 1 .. m : i \in 1 .. m + 1 /\ i <= m
      BY <2>1
    <2>3. \A i \in 1 .. m : c[i] = g[i]
      BY <2>1, <2>2
    <2>4. m + 1 \in 1 .. m + 1 /\ ~(m + 1 <= m) /\ (m + 1) - m = 1
      BY <2>1
    <2>5. c[m + 1] = h
      BY <2>0, <2>1, <2>4
    <2>6. \A i \in 1 .. m + 1 : i \in 1 .. m \/ i = m + 1
      BY <2>1
    <2>7. DOMAIN c = 1 .. m + 1
      BY <2>1
    <2>8. Range(c) = Range(g) \cup {h}
      <3>1. Range(c) = {c[i] : i \in 1 .. m + 1} /\ Range(g) = {g[i] : i \in 1 .. m}
        BY <2>1, <2>7 DEF Range
      <3> QED BY <2>2, <2>3, <2>4, <2>5, <2>6, <3>1
    <2>9. Rising(c)
      <3> SUFFICES ASSUME NEW i \in 1 .. m + 1, NEW j \in 1 .. m + 1, i < j
                   PROVE  c[i][1] < c[j][1]
        BY <2>1 DEF Rising
      <3>1. CASE j \in 1 .. m
        <4>1. i \in 1 .. m
          BY <2>1, <3>1
        <4> QED BY <1>1, <2>3, <3>1, <4>1 DEF Rising, m
      <3>2. CASE j = m + 1
        <4>1. i \in 1 .. m
          BY <2>1, <3>2
        <4>2. c[i] \in Range(g)
          BY <2>1, <2>3, <4>1 DEF Range
        <4> QED BY <1>3, <1>4, <2>5, <3>2, <4>2
      <3> QED BY <2>6, <3>1, <3>2
    <2>10. c # <<>> /\ Last(c) = h
      BY <2>1, <2>5, <2>4 DEF Last
    <2> QED BY <2>1, <2>8, <2>9, <2>10
  <1>7. /\ stream'.pc = "on" /\ stream'.pending = Tail(p) /\ stream'.cursor = h[1]
        /\ stream'.received = c /\ stream' \in StreamType
    BY <1>2, <1>3, <1>5, <1>6 DEF StreamType
  <1> HIDE DEF c
  <1>8. LastReceived' = h[1]
    BY <1>6, <1>7 DEF LastReceived
  <1>9. ASSUME NEW r \in rows
        PROVE  /\ r[1] <= h[1] => r \in Range(c)
               /\ r[1] <= h[1] \/ r \in Range(Tail(p)) \/ r[1] > Last(p)[1]
    <2>0. r[1] \in Nat
      BY DEF RowShape, Keys
    <2>1. CASE r[1] <= LastReceived
      BY <1>1, <1>3, <1>4, <1>6, <2>0, <2>1
    <2>2. CASE r \in Range(p)
      BY <1>3, <1>5, <1>6, <2>0, <2>2
    <2>3. CASE r[1] > Last(p)[1]
      <3>1. h[1] <= Last(p)[1]
        BY <1>3
      <3> QED BY <1>3, <2>0, <2>3, <3>1
    <2> QED BY <1>1, <2>1, <2>2, <2>3
  <1>10. StreamShape'
    <2>1. Rising(stream.received)' /\ Rising(stream.pending)'
      BY <1>5, <1>6, <1>7 DEF Rising
    <2>2. \A r \in Range(stream'.received) \cup Range(stream'.pending) : r[1] <= counter'
      BY <1>1, <1>2, <1>3, <1>5, <1>6, <1>7
    <2>3. \A r \in rows' : r[1] <= LastReceived' => r \in Range(stream'.received)
      BY <1>2, <1>7, <1>8, <1>9
    <2>4. /\ stream'.cursor = LastReceived'
          /\ \A r \in Range(stream'.pending) : r[1] > stream'.cursor
      <3>1. \A r \in Range(Tail(p)) : r[1] \in Nat /\ h[1] < r[1]
        BY <1>3, <1>5
      <3> QED BY <1>3, <1>7, <1>8, <3>1
    <2>5. stream'.pending # <<>> =>
            \A r \in rows' : \/ r[1] <= stream'.cursor \/ r \in Range(stream'.pending)
                             \/ r[1] > Last(stream'.pending)[1]
      BY <1>2, <1>5, <1>7, <1>9
    <2> QED BY <2>1, <2>2, <2>3, <2>4, <2>5 DEF StreamShape
  <1> QED BY <1>7, <1>10

\* A change of the collection takes nothing from a stream: what comes has a
\* higher number than everything sent.
LEMMA RowsStream ==
  ASSUME RowShape, kind = "stream", stream \in StreamType, StreamShape,
         UNCHANGED stream, counter' \in Nat, counter' >= counter,
         \A r \in rows' : r \in rows \/ r[1] > counter, rows' \in SUBSET Keys
  PROVE  StreamShape'
  <1>1. LastReceived' = LastReceived
    BY DEF LastReceived
  <1>2. /\ stream.received \in Seq(Nat \X {1}) /\ stream.pending \in Seq(Nat \X {1})
        /\ counter \in Nat /\ \A r \in rows' : r[1] \in Nat
    BY DEF StreamType, RowShape, Keys
  <1>3. /\ Rising(stream.received) /\ Rising(stream.pending)
        /\ \A r \in Range(stream.received) \cup Range(stream.pending) : r[1] <= counter
    BY DEF StreamShape
  <1>4. LastReceived \in Nat /\ LastReceived <= counter
    <2>1. CASE stream.received = <<>>
      BY <1>2, <2>1 DEF LastReceived
    <2>2. CASE stream.received # <<>>
      <3>1. Last(stream.received) \in Range(stream.received)
            /\ Last(stream.received) \in Nat \X {1}
        BY <1>2, <1>3, <2>2, RisingLast
      <3> QED BY <1>3, <2>2, <3>1 DEF LastReceived
    <2> QED BY <2>1, <2>2
  <1>5. stream.pending # <<>> => Last(stream.pending)[1] \in Nat
                                 /\ Last(stream.pending)[1] <= counter
    <2> SUFFICES ASSUME stream.pending # <<>>
                 PROVE  Last(stream.pending)[1] \in Nat /\ Last(stream.pending)[1] <= counter
      OBVIOUS
    <2>1. Last(stream.pending) \in Range(stream.pending)
          /\ Last(stream.pending) \in Nat \X {1}
      BY <1>2, <1>3, RisingLast
    <2> QED BY <1>3, <2>1
  <1>6. /\ Rising(stream.received)' /\ Rising(stream.pending)'
        /\ \A r \in Range(stream'.received) \cup Range(stream'.pending) : r[1] <= counter'
    <2>1. \A r \in Range(stream.received) \cup Range(stream.pending) : r[1] \in Nat
      BY <1>2 DEF Range
    <2> QED BY <1>2, <1>3, <2>1 DEF Rising
  <1>7. \A r \in rows' : r[1] <= LastReceived' => r \in Range(stream'.received)
    <2> SUFFICES ASSUME NEW r \in rows', r[1] <= LastReceived PROVE r \in Range(stream.received)
      BY <1>1
    <2>1. r \in rows
      BY <1>2, <1>4
    <2> QED BY <2>1 DEF StreamShape
  <1>8. ASSUME stream.pc = "on", stream.pending # <<>>, NEW r \in rows'
        PROVE  \/ r[1] <= stream.cursor \/ r \in Range(stream.pending)
               \/ r[1] > Last(stream.pending)[1]
    <2>1. r \in rows => \/ r[1] <= stream.cursor \/ r \in Range(stream.pending)
                        \/ r[1] > Last(stream.pending)[1]
      BY <1>8 DEF StreamShape
    <2>2. r \notin rows => r[1] > Last(stream.pending)[1]
      BY <1>2, <1>5, <1>8
    <2> QED BY <2>1, <2>2
  <1>9. stream'.pc = "on" => stream'.cursor = LastReceived'
                             /\ \A r \in Range(stream'.pending) : r[1] > stream'.cursor
    BY <1>1 DEF StreamShape
  <1> QED BY <1>6, <1>7, <1>8, <1>9 DEF StreamShape

LEMMA PageShapeInit ==
  PageInit => PageShape
  <1> SUFFICES ASSUME PageInit PROVE PageShape
    OBVIOUS
  <1>1. <<>> \in Seq(Keys) /\ <<0, 0>> \in Nat \X Nat /\ <<>> \in Seq(Nat \X {1})
        /\ Range(<<>>) = {} /\ Len(<<>>) = 0
    BY DEF Range
  <1>2. RowShape
    BY DEF PageInit, RowShape
  <1>3. walk \in WalkType /\ walk.pc = "idle" /\ walk = NoWalk
    BY <1>1 DEF PageInit, NoWalk, WalkType
  <1>4. WalkShape
    BY <1>3 DEF WalkShape, WalkFaithful
  <1>5. /\ stream \in StreamType /\ stream.pc = "off"
        /\ stream.received = <<>> /\ stream.pending = <<>> /\ rows = {}
    BY <1>1 DEF PageInit, StreamType
  <1>6. Rising(<<>>)
    BY <1>1 DEF Rising
  <1>7. StreamShape
    BY <1>1, <1>5, <1>6 DEF StreamShape
  <1> QED BY <1>2, <1>3, <1>4, <1>5, <1>7 DEF PageShape

LEMMA PageShapeNext ==
  PageShape /\ [PageNext]_pageVars => PageShape'
  <1> SUFFICES ASSUME PageShape, [PageNext]_pageVars PROVE PageShape'
    OBVIOUS
  <1>1. /\ RowShape /\ walk \in WalkType /\ WalkShape /\ stream \in StreamType
        /\ kind = "stream" => StreamShape
        /\ kind # "stream" => stream.pc = "off" /\ stream.received = <<>>
    BY DEF PageShape
  <1>2. CASE UNCHANGED pageVars
    <2>1. UNCHANGED <<kind, rows, hidden, scheduled, changes, counter, walk, steady, stream>>
      BY <1>2 DEF pageVars
    <2>2. RowShape'
      BY <1>1, <2>1 DEF RowShape
    <2>3. steady \subseteq Shown => steady' \subseteq Shown'
      BY <2>1 DEF Shown, Projections
    <2>4. walk' \in WalkType /\ WalkShape'
      BY <1>1, <2>1, <2>3, RowsWalk
    <2>5. counter' \in Nat /\ counter' >= counter /\ rows' \in SUBSET Keys
      BY <1>1, <2>1 DEF RowShape
    <2>6. kind = "stream" => StreamShape'
      BY <1>1, <2>1, <2>5, RowsStream
    <2> QED BY <1>1, <2>1, <2>2, <2>4, <2>6 DEF PageShape
  <1>3. CASE \/ \E r \in Keys : AddRow(r) \/ RemoveRow(r) \/ Schedule(r) \/ ChangeStatus(r)
             \/ \E r \in Keys, v \in 1 .. MaxKey : UpdateRow(r, v)
             \/ \E mine \in BOOLEAN : AppendEvent(mine)
             \/ \E upto \in 1 .. MaxKey : ApplyRetention(upto)
    <2>1. /\ RowShape' /\ UNCHANGED <<kind, walk, stream>> /\ steady' \subseteq steady
          /\ steady \subseteq Shown => steady' \subseteq Shown'
          /\ counter' >= counter
          /\ kind = "stream" => \A r \in rows' : r \in rows \/ r[1] > counter
      BY <1>1, <1>3, RowEffect
    <2>2. walk' \in WalkType /\ WalkShape'
      BY <1>1, <2>1, RowsWalk
    <2>3. counter' \in Nat /\ rows' \in SUBSET Keys
      BY <2>1 DEF RowShape
    <2>4. kind = "stream" => StreamShape'
      BY <1>1, <2>1, <2>3, RowsStream
    <2> QED BY <1>1, <2>1, <2>2, <2>4 DEF PageShape
  <1>4. ASSUME NEW n \in 1 .. MaxLimit,
               \/ ListWorkflowPage(n) \/ ListExecutionPage(n) \/ InspectExecution(n)
               \/ ListTriggerPage(n) \/ ExecutionEventPage(n)
               \/ PaginateIntegrationItems(n) \/ ManagementMcpListTools(n)
        PROVE  PageShape'
    <2>1. walk' \in WalkType /\ WalkShape'
      BY <1>1, <1>4, ListStep, EventStep, MetadataStep, ToolStep
    <2>2. Untouched /\ kind # "stream"
      BY <1>4 DEF ListWorkflowPage, ListExecutionPage, InspectExecution, ListTriggerPage,
                  ExecutionEventPage, PaginateIntegrationItems, ManagementMcpListTools, Reading
    <2>3. kind' = kind /\ stream' = stream /\ RowShape'
      BY <1>1, <2>2, ReadingKeeps DEF Untouched
    <2> QED BY <1>1, <2>1, <2>2, <2>3 DEF PageShape
  <1>5. ASSUME Events \/ Poll \/ \E arrives \in BOOLEAN : Send(arrives)
        PROVE  PageShape'
    <2>1. /\ kind = "stream" /\ StreamShape
          /\ UNCHANGED <<kind, rows, hidden, scheduled, counter, walk, steady>>
      BY <1>1, <1>5 DEF Events, Poll, Send
    <2>2. RowShape'
      BY <1>1, <2>1 DEF RowShape
    <2>3. steady \subseteq Shown => steady' \subseteq Shown'
      BY <2>1 DEF Shown, Projections
    <2>4. walk' \in WalkType /\ WalkShape'
      BY <1>1, <2>1, <2>3, RowsWalk
    <2>5. stream' \in StreamType /\ StreamShape'
      <3>1. CASE Events
        <4>1. stream' = [stream EXCEPT !.pc = "on", !.pending = Batch(LastReceived),
                                       !.cursor = LastReceived]
          BY <3>1 DEF Events, LastReceived
        <4> QED BY <1>1, <2>1, <4>1, StreamBatch
      <3>2. CASE Poll
        <4>1. stream.pc = "on" /\ stream.cursor = LastReceived
              /\ stream' = [stream EXCEPT !.pending = Batch(stream.cursor)]
          BY <2>1, <3>2 DEF Poll, StreamShape
        <4>2. stream' = [stream EXCEPT !.pc = "on", !.pending = Batch(LastReceived),
                                       !.cursor = LastReceived]
          BY <1>1, <4>1 DEF StreamType
        <4> QED BY <1>1, <2>1, <4>2, StreamBatch
      <3>3. CASE Send(TRUE)
        BY <1>1, <2>1, <3>3, StreamArrives
      <3>4. CASE Send(FALSE)
        <4>0. /\ stream.pending \in Seq(Nat \X {1}) /\ stream.pending # <<>>
              /\ stream.received \in Seq(Nat \X {1})
          BY <1>1, <3>4 DEF Send, StreamType
        <4>1. Head(stream.pending)[1] \in Nat /\ <<>> \in Seq(Nat \X {1})
          BY <4>0
        <4>2. stream' = [pc |-> "off", pending |-> <<>>, cursor |-> Head(stream.pending)[1],
                         received |-> stream.received]
          BY <3>4 DEF Send
        <4>3. /\ stream' \in StreamType /\ stream'.pc = "off" /\ stream'.pending = <<>>
              /\ stream'.received = stream.received
          BY <4>0, <4>1, <4>2 DEF StreamType
        <4>4. LastReceived' = LastReceived /\ Range(<<>>) = {} /\ Len(<<>>) = 0
          BY <4>3 DEF LastReceived, Range
        <4>5. Rising(stream.received)' /\ Rising(stream.pending)'
          BY <2>1, <4>3, <4>4 DEF StreamShape, Rising
        <4>6. /\ \A r \in Range(stream'.received) \cup Range(stream'.pending) : r[1] <= counter'
              /\ \A r \in rows' : r[1] <= LastReceived' => r \in Range(stream'.received)
          BY <2>1, <4>3, <4>4 DEF StreamShape
        <4> QED BY <4>3, <4>5, <4>6 DEF StreamShape
      <3> QED BY <1>5, <3>1, <3>2, <3>3, <3>4
    <2> QED BY <2>1, <2>2, <2>4, <2>5 DEF PageShape
  <1> QED BY <1>2, <1>3, <1>4, <1>5 DEF PageNext

LEMMA PageShapeSound ==
  PageShape => PagesSound
  <1> SUFFICES ASSUME PageShape PROVE PagesSound
    OBVIOUS
  <1>1. WalkFaithful
    BY DEF PageShape, WalkShape
  <1>2. CASE kind = "stream"
    <2>1. StreamShape /\ stream.received \in Seq(Nat \X {1}) /\ rows \in SUBSET Keys
      BY <1>2 DEF PageShape, StreamType, RowShape
    <2>2. ASSUME stream.received # <<>>, NEW r \in rows, r[1] < Last(stream.received)[1]
          PROVE  r \in Range(stream.received)
      <3>1. Last(stream.received) \in Nat \X {1}
        BY <2>1, <2>2, RisingLast DEF StreamShape
      <3>2. r[1] \in Nat
        BY <2>1 DEF Keys
      <3>3. r[1] <= LastReceived
        BY <2>2, <3>1, <3>2 DEF LastReceived
      <3> QED BY <2>1, <3>3 DEF StreamShape
    <2>3. StreamGapless
      BY <2>1, <2>2 DEF StreamGapless, StreamShape, Rising
    <2> QED BY <1>1, <2>3 DEF PagesSound
  <1>3. CASE kind # "stream"
    <2>1. stream.received = <<>> /\ Len(<<>>) = 0
      BY <1>3 DEF PageShape
    <2>2. StreamGapless
      BY <2>1 DEF StreamGapless
    <2> QED BY <1>1, <2>2 DEF PagesSound
  <1> QED BY <1>2, <1>3

\* A client that pages through a collection of Core, or follows its events,
\* while rows come, go and change, misses none that stays and sees none twice,
\* whatever the size of the pages and of the collection.
THEOREM PagesAreSound == PageSpec => []PagesSound
  <1>1. PageSpec => []PageShape
    BY PageShapeInit, PageShapeNext, PTL DEF PageSpec
  <1> QED BY <1>1, PageShapeSound, PTL
=============================================================================
