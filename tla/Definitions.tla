----------------------------- MODULE Definitions -----------------------------
(***************************************************************************)
(* Workflow registrations and provider profiles as clients change them.    *)
(*                                                                         *)
(* Every request is one or two short transactions: an import looks at the  *)
(* list of workflows and decides before it writes; the diagnosis of a      *)
(* provider reads the profile, talks to the provider and writes what it    *)
(* found.  In between other clients create, replace, enable and disable.   *)
(* A revision is new with every source and unchanged by a change of the    *)
(* status.                                                                 *)
(***************************************************************************)
EXTENDS Integers, FiniteSets

CONSTANTS
  Ids, Names, Clients,
  Settings,       \* of a provider profile
  MaxSources,     \* bound: sources, and with them revisions, ever stored
  Nothing

ASSUME DefinitionBounds == MaxSources \in Nat /\ Nothing \notin Settings

VARIABLES
  workflows,  \* id -> name, source, status, revision
  stored,     \* sources stored so far; the n-th has revision n
  client,     \* what each client has read and is about to do
  profile,    \* the row of provider_profiles: settings and diagnosis
  based       \* per source, the revision its author had seen

definitionVars == <<workflows, stored, client, profile, based>>

Registered(i) == workflows[i] # Nothing
Named(n) == {i \in Ids : Registered(i) /\ workflows[i].name = n}
Resting == [op |-> "none", id |-> Nothing, name |-> Nothing, revision |-> 0,
            replace |-> FALSE, settings |-> Nothing]

DefinitionInit ==
  /\ workflows = [i \in Ids |-> Nothing] /\ stored = 0
  /\ client = [c \in Clients |-> Resting]
  /\ profile = Nothing /\ based = [r \in 1 .. MaxSources |-> 0]

\* A new source of workflow i, written by a client that had seen revision r.
Store(i, name, status, r) ==
  /\ stored < MaxSources /\ stored' = stored + 1
  /\ workflows' = [workflows EXCEPT ![i] = [name |-> name, status |-> status,
                                            revision |-> stored + 1]]
  /\ based' = [based EXCEPT ![stored + 1] = r]

\* resolve_workflow: a selector without prefix is an id or a name; one that
\* stands for two workflows is refused.
Selected(selector) ==
  {i \in Ids : Registered(i) /\ (i = selector \/ workflows[i].name = selector)}
Observe(c, selector) ==
  /\ client[c].op = "none" /\ Cardinality(Selected(selector)) = 1
  /\ \E i \in Selected(selector) :
       client' = [client EXCEPT ![c] = [Resting EXCEPT !.op = "seen", !.id = i,
                                         !.revision = workflows[i].revision]]
  /\ UNCHANGED <<workflows, stored, profile, based>>

-----------------------------------------------------------------------------
(* Creation and import.                                                    *)

\* INSERT OR IGNORE: id and name are keys.
Insertable(i, name) == ~Registered(i) /\ Named(name) = {}

\* POST /api/v1/workflows registers a workflow enabled.
CreateWorkflow(c, i, name) ==
  /\ client[c].op = "none"
  /\ Insertable(i, name) /\ Store(i, name, "enabled", 0)
  /\ UNCHANGED <<client, profile>>

\* The list is read and the import refused or made a creation or a
\* replacement; revision 0 is no expectedRevision.
DecideImport(c, i, name, replace) ==
  LET r == IF client[c].op = "seen" /\ client[c].id = i THEN client[c].revision
           ELSE 0 IN
  /\ client[c].op \in {"none", "seen"}
  /\ IF Registered(i) THEN replace /\ r # 0 /\ Named(name) \subseteq {i}
                      ELSE Named(name) = {} /\ r = 0
  /\ client' = [client EXCEPT ![c] =
                  [Resting EXCEPT !.op = IF Registered(i) THEN "replace" ELSE "create",
                                  !.id = i, !.name = name, !.revision = r]]
  /\ UNCHANGED <<workflows, stored, profile, based>>

ImportNew(c) ==
  LET i == client[c].id IN
  /\ client[c].op = "create"
  /\ IF Insertable(i, client[c].name)
     THEN Store(i, client[c].name, "disabled", 0)
     ELSE UNCHANGED <<workflows, stored, based>>
  /\ client' = [client EXCEPT ![c] = Resting]
  /\ UNCHANGED profile

\* Mutant of Unchanged: the revision is not compared.
MutUnchanged(i, r) == Registered(i)
Unchanged(i, r) == Registered(i) /\ workflows[i].revision = r

\* update_workflow_if_revision: the status stays, a name that is taken
\* fails the transaction.
Replace(i, name, r) ==
  IF Unchanged(i, r) /\ Named(name) \subseteq {i}
  THEN Store(i, name, workflows[i].status, r)
  ELSE UNCHANGED <<workflows, stored, based>>

ImportReplacement(c) ==
  /\ client[c].op = "replace"
  /\ Replace(client[c].id, client[c].name, client[c].revision)
  /\ client' = [client EXCEPT ![c] = Resting]
  /\ UNCHANGED profile

\* PUT .../source with If-Match: the same without a look at the list.
UpdateSource(c, name) ==
  /\ client[c].op = "seen"
  /\ Replace(client[c].id, name, client[c].revision)
  /\ client' = [client EXCEPT ![c] = Resting]
  /\ UNCHANGED profile

-----------------------------------------------------------------------------
(* Eligibility.                                                            *)

SetStatus(i, status) ==
  /\ Registered(i)
  /\ workflows' = [workflows EXCEPT ![i].status = status]
  /\ UNCHANGED <<stored, client, profile, based>>

SetStatusIfRevision(c, status) ==
  LET i == client[c].id IN
  /\ client[c].op = "seen"
  /\ workflows' = IF Unchanged(i, client[c].revision)
                  THEN [workflows EXCEPT ![i].status = status] ELSE workflows
  /\ client' = [client EXCEPT ![c] = Resting]
  /\ UNCHANGED <<stored, profile, based>>

-----------------------------------------------------------------------------
(* Provider profiles.                                                      *)

\* create_provider_profile and upsert_provider_profile: no diagnosis.
CreateProfile(s) ==
  /\ profile = Nothing
  /\ profile' = [settings |-> s, diagnosis |-> Nothing]
  /\ UNCHANGED <<workflows, stored, client, based>>
UpsertProfile(s) ==
  /\ profile' = [settings |-> s, diagnosis |-> Nothing]
  /\ UNCHANGED <<workflows, stored, client, based>>
DeleteProfile ==
  /\ profile # Nothing /\ profile' = Nothing
  /\ UNCHANGED <<workflows, stored, client, based>>

\* test_provider reads the profile and its secret and probes the provider,
BeginDiagnosis(c) ==
  /\ client[c].op = "none" /\ profile # Nothing
  /\ client' = [client EXCEPT ![c] = [Resting EXCEPT !.op = "probe",
                                       !.settings = profile.settings]]
  /\ UNCHANGED <<workflows, stored, profile, based>>
\* then diagnose_provider_profile writes what it found, if there is a row.
Diagnose(c) ==
  /\ client[c].op = "probe"
  /\ profile' = IF profile = Nothing THEN Nothing
                ELSE [profile EXCEPT !.diagnosis = client[c].settings]
  /\ client' = [client EXCEPT ![c] = Resting]
  /\ UNCHANGED <<workflows, stored, based>>

DefinitionNext ==
  \/ \E c \in Clients :
       \/ \E s \in Ids \cup Names : Observe(c, s)
       \/ \E i \in Ids, n \in Names :
            CreateWorkflow(c, i, n) \/ \E b \in BOOLEAN : DecideImport(c, i, n, b)
       \/ ImportNew(c) \/ ImportReplacement(c)
       \/ \E n \in Names : UpdateSource(c, n)
       \/ \E s \in {"enabled", "disabled"} : SetStatusIfRevision(c, s)
       \/ BeginDiagnosis(c) \/ Diagnose(c)
  \/ \E i \in Ids, s \in {"enabled", "disabled"} : SetStatus(i, s)
  \/ \E s \in Settings : CreateProfile(s) \/ UpsertProfile(s)
  \/ DeleteProfile

DefinitionSpec == DefinitionInit /\ [][DefinitionNext]_definitionVars

-----------------------------------------------------------------------------
(* Properties.                                                             *)

\* The types of the variables; a revision belongs to one workflow.
DefinitionTypeOK ==
  /\ \A i \in Ids : Registered(i) =>
       /\ workflows[i].name \in Names /\ workflows[i].revision \in 1 .. stored
       /\ workflows[i].status \in {"enabled", "disabled"}
  /\ \A i, j \in Ids : Registered(i) /\ Registered(j) /\ i # j =>
       workflows[i].revision # workflows[j].revision
  /\ stored \in 0 .. MaxSources /\ based \in [1 .. MaxSources -> 0 .. MaxSources]

\* import_workflow looks for the name before it writes, in another
\* transaction than the one that writes: selectors by name stay unique.
NamesUnique == \A n \in Names : Cardinality(Named(n)) <= 1

\* update_workflow_if_revision: no author overwrites a source he has not
\* seen, whatever requests of others come between his reading and his write.
NoLostUpdate ==
  \A i \in Ids :
    (/\ Registered(i) /\ workflows'[i] # Nothing
     /\ workflows'[i].revision # workflows[i].revision) =>
      based'[workflows'[i].revision] = workflows[i].revision

\* import_workflow registers disabled and keeps the status of what it
\* replaces: a source is new and enabled in one step only for
\* POST /api/v1/workflows.
ImportKeepsStatus ==
  \A c \in Clients, i \in Ids :
    (/\ client[c].op \in {"create", "replace"} /\ client'[c] = Resting
     /\ client[c].id = i /\ workflows'[i] # workflows[i]) =>
      workflows'[i].status = IF Registered(i) THEN workflows[i].status ELSE "disabled"

\* With authors and imports at work on the same workflows no change is lost,
\* nothing is enabled unasked, and a name still selects one workflow.
DefinitionsSound ==
  [][NoLostUpdate /\ ImportKeepsStatus /\ NamesUnique' /\ DefinitionTypeOK']_definitionVars
=============================================================================
