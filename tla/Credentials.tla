----------------------------- MODULE Credentials -----------------------------
(***************************************************************************)
(* One named secret of a Core and the named MCP connection bound to it.    *)
(*                                                                         *)
(* A secret is a row of the store and, unless the vault alone is used, a   *)
(* credential of the platform's store, which no transaction covers.  A new *)
(* value is staged under a version of its own, read back, and becomes the  *)
(* secret when the row names that version; the version before is deleted   *)
(* afterwards.  Callers run concurrently, the platform's store may fail at *)
(* any call, and Core may die between any two of them.  The requests of    *)
(* old clients (set_secret, delete_secret) use a credential named after    *)
(* the secret, version 0 here, and neither the lock nor the version.       *)
(***************************************************************************)
EXTENDS Integers, FiniteSets

CONSTANTS
  Callers, Values,
  Backends,     \* values of KAKUNE_SECRET_STORE a Core is started with
  MaxVersions, MaxRevisions, MaxRestarts,   \* bounds
  None

BackendNames == {"vault", "native", "both"}
UsesNative(b) == b \in {"native", "both"}
UsesVault(b) == b \in {"vault", "both"}

ASSUME BackendsAssumption == Backends \subseteq BackendNames /\ Backends # {}
ASSUME CredentialBounds ==
  /\ {MaxVersions, MaxRestarts} \subseteq Nat /\ MaxRevisions \in Nat \ {0}
  /\ None \notin Values \cup Callers

VARIABLES
  backend,    \* secret_backend of the running Core
  row,        \* the row of secrets: backend, credential_version, ciphertext
  native,     \* the platform's credential store, per version
  minted,     \* versions made so far
  holder,     \* who holds the lock of the name
  call,       \* what each caller does
  connection, \* the named MCP connection: revision and bearer reference
  restarts,
  excused,    \* versions a warning or a death of Core left behind
  seen,       \* what the secret was in the course of each read
  legacy      \* an old client has written

secretVars == <<backend, row, native, minted, holder, call, connection,
                restarts, excused, seen, legacy>>

Versions == 0 .. MaxVersions
Idle == [op |-> "none", pc |-> "idle", value |-> None, version |-> 0,
         previous |-> None]
Rows == [backend : BackendNames, version : Versions, copy : Values \cup {None}]
ASSUME RowsAssumption == {None} \cap Rows = {}
Stored(v) == native[v] # None
Copy(v) == IF UsesVault(backend) THEN v ELSE None

\* What a reader of the row r is given, the platform's store answering or not.
Resolved(r, answers) ==
  IF r.backend = "vault" THEN r.copy
  ELSE IF answers /\ Stored(r.version) THEN native[r.version]
  ELSE r.copy
Current == IF row = None THEN None ELSE Resolved(row, TRUE)

Go(c, rec) == call' = [call EXCEPT ![c] = rec]
At(c, op, pc) == call[c].op = op /\ call[c].pc = pc

SecretInit ==
  /\ backend \in Backends
  /\ row = None /\ native = [v \in Versions |-> None] /\ minted = 0
  /\ holder = None /\ call = [c \in Callers |-> Idle]
  /\ connection = None /\ restarts = 0 /\ excused = {} /\ legacy = FALSE
  /\ seen = [c \in Callers |-> {}]

-----------------------------------------------------------------------------
(* The lock of the name.                                                   *)

Begin(c, op, v) ==
  /\ call[c].pc = "idle"
  /\ Go(c, [Idle EXCEPT !.op = op, !.pc = "lock", !.value = v])
  /\ UNCHANGED <<backend, row, native, minted, holder, connection, restarts,
                 excused, legacy>>

\* The management API, and commit_provider_auth once the profile fits.
BeginSet(c, v) == Begin(c, "set", v)
BeginRemove(c) == Begin(c, "remove", None)
\* The API has found the connection.
BeginBind(c) == connection # None /\ Begin(c, "bind", None)

\* Under the lock set, remove and bind read the row first.
Acquire(c) ==
  /\ call[c].pc = "lock" /\ holder = None
  /\ holder' = c
  /\ Go(c, [call[c] EXCEPT !.pc = "locked", !.previous = row])
  /\ UNCHANGED <<backend, row, native, minted, connection, restarts, excused,
                 legacy>>

Busy(c) ==
  /\ call[c].pc = "lock" /\ holder # None
  /\ Go(c, Idle)
  /\ UNCHANGED <<backend, row, native, minted, holder, connection, restarts,
                 excused, legacy>>

Finish(c) == holder' = (IF holder = c THEN None ELSE holder) /\ Go(c, Idle)

-----------------------------------------------------------------------------
(* set_secret_versioned.                                                   *)

\* Mutant of FreshVersion: the new value is staged over the published one.
MutFreshVersion(c) ==
  IF call[c].previous # None THEN call[c].previous.version ELSE minted + 1
FreshVersion(c) == minted + 1

\* The value is encrypted and staged.  Writing may fail with or without
\* having written; then what was staged is deleted, or is not if that fails.
Stage(c) ==
  LET v == FreshVersion(c) IN
  /\ At(c, "set", "locked") /\ minted < MaxVersions
  /\ minted' = minted + 1
  /\ native' = IF UsesNative(backend)
               THEN [native EXCEPT ![v] = call[c].value] ELSE native
  /\ holder' = holder
  /\ Go(c, [call[c] EXCEPT !.pc = "staged", !.version = v])
  /\ UNCHANGED <<backend, row, connection, restarts, excused, legacy>>

EncryptFails(c) ==
  /\ At(c, "set", "locked") /\ UsesVault(backend)
  /\ Finish(c)
  /\ UNCHANGED <<backend, row, native, minted, connection, restarts, excused,
                 legacy>>

\* Writing, reading back or the transaction failed: the staged version goes,
\* unless the platform's store fails once more.
StagingFails(c) ==
  /\ At(c, "set", "staged")
  /\ \/ native' = [native EXCEPT ![call[c].version] = None] /\ excused' = excused
     \/ native' = native /\ excused' = excused \cup {call[c].version}
  /\ Finish(c)
  /\ UNCHANGED <<backend, row, minted, connection, restarts, legacy>>

\* What was staged has been read back; the row now names it.
Publish(c) ==
  /\ At(c, "set", "staged")
  /\ UsesNative(backend) => native[call[c].version] = call[c].value
  /\ row' = [backend |-> backend, version |-> call[c].version,
             copy |-> Copy(call[c].value)]
  /\ Go(c, [call[c] EXCEPT !.pc = "cleanup"])
  /\ UNCHANGED <<backend, native, minted, holder, connection, restarts,
                 excused, legacy>>

\* The version that the row named before is deleted; when that fails the
\* answer carries a warning.
Cleanup(c) ==
  LET p == call[c].previous IN
  /\ call[c].pc = "cleanup"
  /\ IF p = None \/ ~UsesNative(p.backend)
     THEN UNCHANGED <<native, excused>>
     ELSE \/ native' = [native EXCEPT ![p.version] = None] /\ excused' = excused
          \/ native' = native /\ excused' = excused \cup {p.version}
  /\ Finish(c)
  /\ UNCHANGED <<backend, row, minted, connection, restarts, legacy>>

(* remove_secret_versioned: the row first.                                 *)
Unpublish(c) ==
  /\ At(c, "remove", "locked")
  /\ IF call[c].previous = None
     THEN Finish(c) /\ UNCHANGED row
     ELSE /\ row' = None /\ holder' = holder
          /\ Go(c, [call[c] EXCEPT !.pc = "cleanup"])
  /\ UNCHANGED <<backend, native, minted, connection, restarts, excused, legacy>>

-----------------------------------------------------------------------------
(* resolve_secret: the row, then the credential it names.                  *)

BeginResolve(c) ==
  /\ call[c].pc = "idle"
  /\ Go(c, [Idle EXCEPT !.op = "resolve", !.pc = "read"])
  /\ UNCHANGED <<backend, row, native, minted, holder, connection, restarts,
                 excused, legacy>>

ReadRow(c) ==
  /\ At(c, "resolve", "read")
  /\ Go(c, IF row = None THEN Idle
           ELSE [call[c] EXCEPT !.pc = "fetch", !.previous = row])
  /\ UNCHANGED <<backend, row, native, minted, holder, connection, restarts,
                 excused, legacy>>

\* None is the error: the credential is gone or the store does not answer,
\* and there is no copy in the vault.
Fetch(c) ==
  /\ At(c, "resolve", "fetch")
  /\ \E answers \in BOOLEAN :
       Go(c, [call[c] EXCEPT !.pc = "done",
                             !.value = Resolved(call[c].previous, answers)])
  /\ UNCHANGED <<backend, row, native, minted, holder, connection, restarts,
                 excused, legacy>>

Answered(c) ==
  /\ call[c].pc = "done"
  /\ Go(c, Idle)
  /\ UNCHANGED <<backend, row, native, minted, holder, connection, restarts,
                 excused, legacy>>

-----------------------------------------------------------------------------
(* Named MCP connections.                                                  *)

CreateConnection ==
  /\ connection = None
  /\ connection' = [revision |-> 1, bearer |-> FALSE]
  /\ UNCHANGED <<backend, row, native, minted, holder, call, restarts, excused,
                 legacy>>

\* Under the lock of the secret's name: the revision the client names is the
\* current one and the reference resolves.
CheckBinding(c) ==
  /\ At(c, "bind", "locked") /\ connection # None
  /\ \E revision \in 1 .. MaxRevisions, answers \in BOOLEAN :
       IF /\ connection.revision = revision
          /\ row # None
          /\ Resolved(row, answers) # None
       THEN /\ holder' = holder
            /\ Go(c, [call[c] EXCEPT !.pc = "bind", !.version = revision])
       ELSE Finish(c)
  /\ UNCHANGED <<backend, row, native, minted, connection, restarts, excused,
                 legacy>>

\* update_named_mcp_bearer_reference, guarded by the revision once more.
Bind(c) ==
  /\ At(c, "bind", "bind")
  /\ connection.revision < MaxRevisions
  /\ connection' = IF connection.revision = call[c].version
                   THEN [revision |-> connection.revision + 1, bearer |-> TRUE]
                   ELSE connection
  /\ Finish(c)
  /\ UNCHANGED <<backend, row, native, minted, restarts, excused, legacy>>

-----------------------------------------------------------------------------
(* The requests of old clients and the refresh of OAuth tokens.            *)

\* The credential of the name is written, then the row, whose version stays.
LegacyWrite(c, v) ==
  /\ call[c].pc = "idle"
  /\ native' = IF UsesNative(backend) THEN [native EXCEPT ![0] = v] ELSE native
  /\ legacy' = TRUE
  /\ Go(c, [Idle EXCEPT !.op = "legacy", !.pc = "row", !.value = v])
  /\ UNCHANGED <<backend, row, minted, holder, connection, restarts, excused>>
LegacyRow(c) ==
  /\ At(c, "legacy", "row")
  /\ row' = [backend |-> backend, copy |-> Copy(call[c].value),
             version |-> IF row = None THEN 0 ELSE row.version]
  /\ Go(c, Idle)
  /\ UNCHANGED <<backend, native, minted, holder, connection, restarts, excused,
                 legacy>>

\* A secret that has a version has no credential of the name: not deleted.
LegacyDelete(c) ==
  /\ call[c].pc = "idle" /\ row # None
  /\ UsesNative(row.backend) => Stored(0)
  /\ native' = IF UsesNative(row.backend) THEN [native EXCEPT ![0] = None]
               ELSE native
  /\ row' = None /\ legacy' = TRUE
  /\ UNCHANGED <<backend, minted, holder, call, connection, restarts, excused>>

-----------------------------------------------------------------------------
(* Core dies or is restarted, perhaps with another backend.  Versions that *)
(* nothing names then stay for good.                                       *)
Restart ==
  /\ restarts < MaxRestarts
  /\ restarts' = restarts + 1
  /\ backend' \in Backends
  /\ holder' = None /\ call' = [c \in Callers |-> Idle]
  /\ excused' = excused \cup
       {v \in Versions : Stored(v) /\ (row = None \/ row.version # v)}
  /\ UNCHANGED <<row, native, minted, connection, legacy>>

SecretStep(c) ==
  \/ \E v \in Values : BeginSet(c, v) \/ LegacyWrite(c, v)
  \/ BeginRemove(c) \/ BeginBind(c)
  \/ Acquire(c) \/ Busy(c)
  \/ Stage(c) \/ EncryptFails(c) \/ StagingFails(c) \/ Publish(c) \/ Cleanup(c)
  \/ Unpublish(c)
  \/ BeginResolve(c) \/ ReadRow(c) \/ Fetch(c) \/ Answered(c)
  \/ CheckBinding(c) \/ Bind(c)
  \/ LegacyRow(c) \/ LegacyDelete(c)

SecretNext ==
  /\ (\E c \in Callers : SecretStep(c)) \/ CreateConnection \/ Restart
  /\ seen' = [c \in Callers |->
                IF call'[c].op = "resolve" THEN seen[c] \cup {Current, Current'}
                ELSE {}]

SecretSpec == SecretInit /\ [][SecretNext]_secretVars

-----------------------------------------------------------------------------
(* Properties.                                                             *)

\* The types of the variables; who works on the secret holds its lock.
SecretTypeOK ==
  /\ backend \in Backends /\ row \in Rows \cup {None}
  /\ native \in [Versions -> Values \cup {None}] /\ minted \in Versions
  /\ holder \in Callers \cup {None}
  /\ connection \in [revision : 1 .. MaxRevisions, bearer : BOOLEAN] \cup {None}
  /\ restarts \in 0 .. MaxRestarts /\ excused \subseteq Versions
  /\ legacy \in BOOLEAN
  /\ \A c \in Callers :
       /\ call[c].value \in Values \cup {None} /\ call[c].version \in Nat
       /\ call[c].previous \in Rows \cup {None}
       /\ seen[c] \subseteq Values \cup {None}
       /\ call[c].pc \in {"locked", "staged", "cleanup", "bind"} => holder = c

\* publish_secret_version, "Existing access remains valid until the metadata
\* reference is committed": a secret that is listed can be read, whatever
\* writer failed half way, as long as all of them use versions.
SecretReadable == row # None /\ ~legacy => Current # None

\* Staged and replaced credentials are deleted: one that no row names belongs
\* to a writer at work, or the answer warned of it, or Core died.
NoOrphans ==
  ~legacy => \A v \in Versions :
     Stored(v) => \/ row # None /\ row.version = v
                  \/ v \in excused
                  \/ \E c \in Callers :
                       /\ holder = c
                       /\ \/ call[c].pc = "staged" /\ call[c].version = v
                          \/ /\ call[c].pc = "cleanup"
                             /\ call[c].previous.version = v

\* resolve_secret reads the row and the credential in two steps: what it
\* returns was the secret at some moment of the call, or it is an error.
ReadsRegular ==
  \A c \in Callers :
    At(c, "resolve", "done") /\ ~legacy =>
      call[c].value = None \/ call[c].value \in seen[c]

\* A secret can be read whenever it is listed, reads are of values it had, and
\* nothing of it is left behind, with writers, readers and deaths of Core at
\* any step of each other.
SecretsSound == SecretTypeOK /\ SecretReadable /\ NoOrphans /\ ReadsRegular
=============================================================================
