-------------------------------- MODULE Setup --------------------------------
(***************************************************************************)
(* Initialization of an installation, the opening of its store with the    *)
(* backup and the migrations, and the file of connection contexts.         *)
(*                                                                         *)
(* Any number of `kakune init`, of starting Cores and of `kakune context`  *)
(* commands run as processes of their own; each may fail or be killed      *)
(* between any two of its steps, and the command is then given again.      *)
(* Initialization holds the setup locks, which stand for one lock here     *)
(* (the processes name the same files; the locks are taken in the order of *)
(* the paths and none is waited for).  The context commands hold the lock  *)
(* of the collection.                                                      *)
(***************************************************************************)
EXTENDS Integers, FiniteSets

CONSTANTS
  Inits, Cores, Commands,    \* processes
  Contexts,                  \* ids of contexts of the user
  Latest,                    \* LATEST_SCHEMA_VERSION
  MaxKills, MaxWrites,       \* bounds
  Local, Free

Processes == Inits \cup Cores \cup Commands
ASSUME SetupAssumption ==
  /\ Latest \in Nat \ {0} /\ {MaxKills, MaxWrites} \subseteq Nat /\ Local \notin Contexts
  /\ Inits \cap Cores = {} /\ (Inits \cup Cores) \cap Commands = {} /\ Free \notin Processes

VARIABLES
  config,      \* the configuration file exists
  db,          \* database: file, schema version, whether tokens were issued
  keychain,    \* credential saved for the local context: 0 is none
  contexts,    \* the file of contexts: ids, active, revision; revision 0 none
  setupLock, collectionLock,
  backups,     \* versions of which a verified backup was made
  proc,        \* per process: pc, whether it made the database, versions, copy
  kills

setupVars == <<config, db, keychain, contexts, setupLock, collectionLock,
               backups, proc, kills>>

\* A file has a revision from 1 on; it counts the commands' writes.
Max2(m, n) == IF m > n THEN m ELSE n
NoFile == [ids |-> {}, active |-> Free, revision |-> 0]
Quiet == [pc |-> "idle", fresh |-> FALSE, opened |-> 0, at |-> 0, copy |-> NoFile,
          next |-> NoFile]
SetupInit ==
  /\ config = FALSE /\ keychain = 0 /\ backups = {} /\ kills = 0
  /\ db \in {[file |-> "none", version |-> 0, issued |-> 0]} \cup
            [file : {"schema"}, version : {1}, issued : {0}]
  /\ contexts = NoFile
  /\ setupLock = Free /\ collectionLock = Free
  /\ proc = [p \in Processes |-> Quiet]

Goto(p, pc) == proc' = [proc EXCEPT ![p].pc = pc]
Leave(p) ==
  /\ proc' = [proc EXCEPT ![p] = Quiet]
  /\ setupLock' = IF setupLock = p THEN Free ELSE setupLock
  /\ collectionLock' = IF collectionLock = p THEN Free ELSE collectionLock

-----------------------------------------------------------------------------
(* initialize, up to the store.                                            *)

AcquireSetup(p) ==
  /\ proc[p].pc = "idle" /\ setupLock = Free
  /\ setupLock' = p /\ Goto(p, "config")
  /\ UNCHANGED <<config, db, keychain, contexts, collectionLock, backups, kills>>

LoadOrCreateConfig(p) ==
  /\ proc[p].pc = "config"
  /\ config' = TRUE /\ Goto(p, "create")
  /\ UNCHANGED <<db, keychain, contexts, setupLock, collectionLock, backups, kills>>

\* create_new: a database file is this process's own, or is looked at.
CreateDatabase(p) ==
  /\ proc[p].pc = "create"
  /\ IF db.file = "none"
     THEN /\ db' = [db EXCEPT !.file = "empty"]
          /\ proc' = [proc EXCEPT ![p].pc = "inspect", ![p].fresh = TRUE]
          /\ UNCHANGED <<setupLock, collectionLock>>
     ELSE IF db.file = "schema" /\ db.version > 0
     THEN Goto(p, "inspect") /\ UNCHANGED <<db, setupLock, collectionLock>>
     ELSE Leave(p) /\ UNCHANGED db
  /\ UNCHANGED <<config, keychain, contexts, backups, kills>>

-----------------------------------------------------------------------------
(* Store::open, of an initialization or of a Core.                         *)

OpenStore(p) ==
  /\ proc[p].pc = "idle"
  /\ Goto(p, "inspect")
  /\ UNCHANGED <<config, db, keychain, contexts, setupLock, collectionLock,
                 backups, kills>>

\* An empty database needs no backup, one of the latest version neither.
Inspect(p) ==
  /\ proc[p].pc = "inspect"
  /\ proc' = [proc EXCEPT ![p].opened = db.version,
                          ![p].pc = IF db.version \in 1 .. Latest - 1
                                    THEN "backup" ELSE "migrate"]
  /\ UNCHANGED <<config, db, keychain, contexts, setupLock, collectionLock,
                 backups, kills>>

\* Copied, checked and flushed, or removed and the opening fails.
Backup(p) ==
  /\ proc[p].pc = "backup"
  /\ \/ backups' = backups \cup {db.version} /\ Goto(p, "migrate")
        /\ UNCHANGED <<setupLock, collectionLock>>
     \/ Leave(p) /\ UNCHANGED backups
  /\ UNCHANGED <<config, db, keychain, contexts, kills>>

ReadVersion(p) ==
  /\ proc[p].pc = "migrate"
  /\ proc' = [proc EXCEPT ![p].pc = "step", ![p].at = db.version]
  /\ UNCHANGED <<config, db, keychain, contexts, setupLock, collectionLock,
                 backups, kills>>

\* One version in one transaction; one that another process has applied
\* meanwhile violates the key of schema_migrations and fails the opening.
MigrateStep(p) ==
  /\ proc[p].pc = "step" /\ proc[p].at < Latest
  /\ IF db.version = proc[p].at
     THEN /\ db' = [db EXCEPT !.file = "schema", !.version = @ + 1]
          /\ proc' = [proc EXCEPT ![p].at = @ + 1]
          /\ UNCHANGED <<setupLock, collectionLock>>
     ELSE Leave(p) /\ UNCHANGED db
  /\ UNCHANGED <<config, keychain, contexts, backups, kills>>

Opened(p) ==
  /\ proc[p].pc = "step" /\ proc[p].at >= Latest
  /\ IF p \in Inits THEN Goto(p, "issue") /\ UNCHANGED <<setupLock, collectionLock>>
                    ELSE Leave(p)
  /\ UNCHANGED <<config, db, keychain, contexts, backups, kills>>

-----------------------------------------------------------------------------
(* initialize, the access of the local client.                             *)

\* issue_initial_admin_credential, for a database this process has made.
MayIssue(p) == proc[p].fresh /\ db.issued = 0

Issue(p) ==
  /\ proc[p].pc = "issue"
  /\ IF MayIssue(p)
     THEN /\ db' = [db EXCEPT !.issued = @ + 1]
          /\ Goto(p, "save") /\ UNCHANGED <<setupLock, collectionLock>>
     ELSE /\ IF proc[p].fresh THEN Leave(p)
             ELSE Goto(p, "verify") /\ UNCHANGED <<setupLock, collectionLock>>
          /\ UNCHANGED db
  /\ UNCHANGED <<config, keychain, contexts, backups, kills>>

\* Mutant of SaveCredential: a write that fails is not noticed.
MutSaveCredential(p) ==
  /\ proc[p].pc = "save"
  /\ Goto(p, "contexts")
  /\ UNCHANGED <<config, db, keychain, contexts, setupLock, collectionLock,
                 backups, kills>>
SaveCredential(p) ==
  /\ proc[p].pc = "save"
  /\ \/ keychain' = db.issued /\ Goto(p, "verify")
        /\ UNCHANGED <<setupLock, collectionLock>>
     \/ Leave(p) /\ UNCHANGED keychain
  /\ UNCHANGED <<config, db, contexts, backups, kills>>

\* What the credential manager returns is authorized as administrator.
Verify(p) ==
  /\ proc[p].pc = "verify"
  /\ IF keychain \in 1 .. db.issued
     THEN Goto(p, "contexts") /\ UNCHANGED <<setupLock, collectionLock>>
     ELSE Leave(p)
  /\ UNCHANGED <<config, db, keychain, contexts, backups, kills>>

(* ensure_local_context reads the file ...                                 *)
ReadContexts(p) ==
  /\ proc[p].pc = "contexts"
  /\ proc' = [proc EXCEPT ![p].copy = contexts,
                          ![p].pc = IF Local \in contexts.ids THEN "complete"
                                    ELSE "publish"]
  /\ UNCHANGED <<config, db, keychain, contexts, setupLock, collectionLock,
                 backups, kills>>

\* ... and replaces it by what it read and the local context, or makes it
\* if there was none; then a file made meanwhile fails the initialization.
PublishLocal(p) ==
  LET copy == proc[p].copy IN
  /\ proc[p].pc = "publish"
  /\ IF copy.revision = 0 /\ contexts.revision # 0
     THEN Leave(p) /\ UNCHANGED contexts
     ELSE /\ contexts' = [ids |-> copy.ids \cup {Local},
                          active |-> IF copy.active = Free THEN Local ELSE copy.active,
                          revision |-> Max2(copy.revision, 1)]
          /\ Goto(p, "complete") /\ UNCHANGED <<setupLock, collectionLock>>
  /\ UNCHANGED <<config, db, keychain, backups, kills>>

Report(p) ==
  /\ proc[p].pc = "complete"
  /\ Leave(p)
  /\ UNCHANGED <<config, db, keychain, contexts, backups, kills>>

-----------------------------------------------------------------------------
(* The commands on contexts, ContextRepository::transact.                  *)

LockCollection(p) ==
  /\ proc[p].pc = "idle" /\ collectionLock = Free
  /\ collectionLock' = p /\ Goto(p, "read")
  /\ UNCHANGED <<config, db, keychain, contexts, setupLock, backups, kills>>

Added(file, x) == [file EXCEPT !.ids = @ \cup {x}]
Used(file, x) == [file EXCEPT !.active = x]
Removed(file, x) == [file EXCEPT !.ids = @ \ {x},
                                 !.active = IF @ = x THEN Free ELSE @]

\* The latest collection is read and changed in memory.
ReadCollection(p) ==
  /\ proc[p].pc = "read"
  /\ \/ \E x \in Contexts \cup {Local}, op \in {"add", "use", "remove"} :
          /\ (x \in contexts.ids) = (op # "add")
          /\ contexts.revision < MaxWrites
          /\ proc' = [proc EXCEPT ![p].pc = "compare", ![p].copy = contexts,
               ![p].next = [(IF op = "add" THEN Added(contexts, x)
                             ELSE IF op = "use" THEN Used(contexts, x)
                             ELSE Removed(contexts, x))
                            EXCEPT !.revision = @ + 1]]
          /\ UNCHANGED <<setupLock, collectionLock>>
     \/ Leave(p)
  /\ UNCHANGED <<config, db, keychain, contexts, backups, kills>>

\* The bytes are compared once more before they are replaced.
Compare(p) ==
  /\ proc[p].pc = "compare"
  /\ IF contexts = proc[p].copy
     THEN Goto(p, "write") /\ UNCHANGED <<setupLock, collectionLock>>
     ELSE Leave(p)
  /\ UNCHANGED <<config, db, keychain, contexts, backups, kills>>

\* atomic_write: renamed over the file that was read, or linked if there
\* was none, which fails when there is one now.
AtomicWrite(p) ==
  /\ proc[p].pc = "write"
  /\ IF proc[p].copy.revision = 0 /\ contexts.revision # 0
     THEN UNCHANGED contexts
     ELSE contexts' = proc[p].next
  /\ Leave(p)
  /\ UNCHANGED <<config, db, keychain, backups, kills>>

-----------------------------------------------------------------------------
Kill(p) ==
  /\ proc[p].pc # "idle" /\ kills < MaxKills
  /\ kills' = kills + 1 /\ Leave(p)
  /\ UNCHANGED <<config, db, keychain, contexts, backups>>

SetupNext ==
  \/ \E p \in Inits :
       \/ AcquireSetup(p) \/ LoadOrCreateConfig(p) \/ CreateDatabase(p)
       \/ Issue(p) \/ SaveCredential(p) \/ Verify(p)
       \/ ReadContexts(p) \/ PublishLocal(p) \/ Report(p)
  \/ \E p \in Cores : OpenStore(p)
  \/ \E p \in Inits \cup Cores :
       Inspect(p) \/ Backup(p) \/ ReadVersion(p) \/ MigrateStep(p) \/ Opened(p)
  \/ \E p \in Commands :
       LockCollection(p) \/ ReadCollection(p) \/ Compare(p) \/ AtomicWrite(p)
  \/ \E p \in Processes : Kill(p)

SetupSpec == SetupInit /\ [][SetupNext]_setupVars

-----------------------------------------------------------------------------
(* Properties.                                                             *)

\* The types of the variables; one initialization works at a time.
SetupTypeOK ==
  /\ config \in BOOLEAN /\ keychain \in 0 .. db.issued
  /\ db.file \in {"none", "empty", "schema"} /\ db.version \in 0 .. Latest
  /\ db.issued \in 0 .. 1
  /\ contexts.active \in contexts.ids \cup {Free}
  /\ \A p \in Inits : proc[p].pc # "idle" => setupLock = p

\* backup_before_migration: a database that has contents is migrated only
\* when a verified backup of the version it had, or of one before, exists.
BackupFirst ==
  \A p \in Inits \cup Cores :
    proc[p].opened > 0 /\ proc'[p].at = proc[p].at + 1 /\ proc[p].pc = "step" =>
      \E v \in backups : v <= db.version

\* migrate_through_version reads the version outside of the transactions:
\* with several processes at it each version is still applied once, in order.
MigratedInOrder ==
  db'.version # db.version => db'.version = db.version + 1

\* README, "It creates only missing valid resources and preserves existing
\* ... credential history": when initialize reports success, now or later,
\* configuration, store and access are in place and the credential is the
\* one that the first initialization saved.
CompleteMeans ==
  /\ \A p \in Inits : proc'[p].pc = "complete" /\ proc[p].pc # "complete" =>
       config /\ db.version = Latest /\ keychain # 0 /\ Local \in contexts'.ids
  /\ keychain # 0 => keychain' = keychain

\* transact: a command on contexts loses no context another command added,
\* unless an initialization has put the local context there meanwhile.
CommandsKeepContexts ==
  \A p \in Commands :
    (/\ proc[p].pc = "write" /\ proc'[p].pc # "write"
     /\ contexts' # contexts /\ Local \notin contexts.ids)
    => contexts.ids \cap Contexts \subseteq
         contexts'.ids \cup (proc[p].copy.ids \ proc[p].next.ids)

\* The store reaches the latest version through a verified backup and every
\* version between, whoever else opens it meanwhile; an initialization that
\* reports success has set up what it says, and takes nothing from other
\* commands or from earlier ones.
SetupSound ==
  [][/\ SetupTypeOK'
     /\ BackupFirst /\ MigratedInOrder
     /\ CompleteMeans /\ CommandsKeepContexts]_setupVars

\* ContextRepository, "Every writer takes a cross-process lock, rereads the
\* latest collection, and compares its source bytes again": no context is
\* lost but by the command that removes it.
ContextsKept ==
  [][\A x \in contexts.ids \ contexts'.ids :
       \E p \in Commands : proc[p].pc = "write" /\ proc'[p].pc # "write"
                           /\ x \in proc[p].copy.ids \ proc[p].next.ids]_setupVars
=============================================================================
