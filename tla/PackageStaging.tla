---------------------------- MODULE PackageStaging ----------------------------
(***************************************************************************)
(* From the source of a plugin to its installation:                        *)
(* src/src/plugin_install.rs.                                              *)
(*                                                                         *)
(* A preparation takes one of a few slots, resolves the source, stages the *)
(* package in a directory of its own, inspects it and stores a review.  A  *)
(* commit that names the reviewed digest moves the directory to its place  *)
(* and writes the record; a discard deletes directory and review.  Every   *)
(* step is a store call or a file operation of a request, and nothing      *)
(* keeps requests apart.                                                   *)
(*                                                                         *)
(* About says what the program tells apart of a package: the source that   *)
(* has it, the plugin, its node types, whether the manifest is valid, and  *)
(* the entries of its tree, each with a path, a kind and a size.  A digest *)
(* determines the package, so the package stands for it.  Removals are in  *)
(* PluginRemoval.                                                          *)
(***************************************************************************)
EXTENDS Integers, FiniteSets, FiniteSetsExt, Sequences, SequencesExt

CONSTANTS
  Handlers,      \* concurrent requests
  Origins,       \* sources of packages
  OriginKind,    \* "local", "npm" or "git"
  Packages,      \* what the sources may serve
  About,         \* origin, plugin, types, valid and tree of a package
  Slots,         \* preparations at a time
  MaxFiles, MaxBytes, MaxDepth,
  Builtin,       \* node types of Core
  MaxReviews,    \* bound: preparations that get a slot
  MaxMishaps,    \* bound: crashes, lost clients, store and file errors
  Missing

ASSUME StagingAssumption ==
  /\ {Slots, MaxFiles, MaxBytes, MaxDepth, MaxReviews, MaxMishaps} \subseteq Nat
  /\ OriginKind \in [Origins -> {"local", "npm", "git"}]

VARIABLES
  serves,      \* what each source serves now
  handler,     \* the requests
  staging,     \* plugin-staging/<id>
  reviews,     \* prepared_plugin_installs
  issued,      \* ids given so far
  placed,      \* plugins/<id>/<version>-<digest>, by package
  records,     \* installed_plugins and the source of plugin_lifecycle
  pinned,      \* plugins with rows in plugin_execution_pins
  approvals,   \* history: packages whose digest was approved
  abandoned,   \* history: ids whose request was cut short
  contended,   \* history: what requests had that worked on one package at once
  mishaps

stagingVars == <<serves, handler, staging, reviews, issued, placed, records, pinned,
                 approvals, abandoned, contended, mishaps>>

Partial == "partial"
ReviewIds == 1..MaxReviews

\* The rows of the two tables.
ReviewRows == [package : Packages, origin : Origins, resolved : Packages \cup {Missing},
               shown : BOOLEAN]
RecordRows == [package : Packages, origin : Origins, enabled : BOOLEAN]

\* Nothing is no package, source or row, and neither is half a directory.
ASSUME RowsDistinct ==
  /\ Missing \notin Packages \cup Origins \cup ReviewRows \cup RecordRows
  /\ Partial \notin Packages \cup {Missing}
  /\ \A p \in Packages : About[p].origin \in Origins

----------------------------------------------------------------------------
(* Trees and their limits.                                                 *)

Bytes(tree) == MapThenSumSet(LAMBDA e : e.size, tree)

\* A directory is entered with the number of names in its path as depth.
Shallow(tree) == \A e \in tree : e.kind = "dir" => Len(e.at) <= MaxDepth

Within(tree) == Cardinality(tree) <= MaxFiles /\ Bytes(tree) <= MaxBytes /\ Shallow(tree)

\* copy_tree leaves out whatever is called .git.
Copied(tree) == {e \in tree : ".git" \notin Range(e.at)}
CopyFits(tree) ==
  /\ \A e \in Copied(tree) : e.kind \in {"file", "dir"}
  /\ Within(Copied(tree))

\* Entries of an archive are below package/; its directories are not
\* extracted, the parents of files are created.
ArchiveFiles(tree) == {e \in tree : e.kind # "dir"}
Extracted(tree) ==
  LET files == {[e EXCEPT !.at = Tail(e.at)] : e \in ArchiveFiles(tree)}
      deep == {d \in files \X (1..(MaxDepth + 1)) : d[2] < Len(d[1].at)}
  IN  files \cup {[at |-> SubSeq(d[1].at, 1, d[2]), kind |-> "dir", size |-> 0] : d \in deep}
ExtractFits(tree) ==
  /\ Cardinality(tree) <= MaxFiles
  /\ \A e \in ArchiveFiles(tree) :
       /\ e.kind = "file"
       /\ Len(e.at) > 1 /\ Head(e.at) = "package" /\ ".." \notin Range(e.at)
  /\ Bytes(ArchiveFiles(tree)) <= MaxBytes

\* What staging makes of what a source sent, and whether it accepts it.
FromNpm(p) == OriginKind[About[p].origin] = "npm"
StagedTree(p) == IF FromNpm(p) THEN Extracted(About[p].tree) ELSE Copied(About[p].tree)
StageFits(p) == IF FromNpm(p) THEN ExtractFits(About[p].tree) ELSE CopyFits(About[p].tree)

\* collect_files looks at everything that is there.
DigestFits(tree) == (\A e \in tree : e.kind \in {"file", "dir"}) /\ Within(tree)

\* Manifest, node definitions and digest of a staged package.
Inspected(p) ==
  /\ About[p].valid
  /\ About[p].types # {} /\ About[p].types \cap Builtin = {}
  /\ DigestFits(StagedTree(p))

Offers(o) == {p \in Packages : About[p].origin = o}
PluginOf(p) == About[p].plugin
Plugins == {PluginOf(p) : p \in Packages}

----------------------------------------------------------------------------
NoTask == [pc |-> "idle", origin |-> Missing, plugin |-> Missing,
           id |-> 0, resolved |-> Missing, package |-> Missing, reused |-> FALSE]

\* At most one plugin was installed before, from the source it is served by,
\* and nothing is left of earlier preparations.
StagingInit ==
  /\ serves \in [Origins -> Packages \cup {Missing}]
  /\ \A o \in Origins : serves[o] \in Offers(o) \cup {Missing}
  /\ handler = [h \in Handlers |-> NoTask]
  /\ staging = [i \in ReviewIds |-> Missing]
  /\ reviews = [i \in ReviewIds |-> Missing]
  /\ issued \in 0..MaxReviews
  /\ approvals \in {{}} \cup {{p} : p \in {q \in Packages : StageFits(q) /\ Inspected(q)}}
  /\ placed = [p \in Packages |-> IF p \in approvals THEN p ELSE Missing]
  /\ records = [x \in Plugins |->
       IF \E p \in approvals : PluginOf(p) = x
       THEN LET p == CHOOSE p \in approvals : TRUE
            IN  [package |-> p, origin |-> About[p].origin, enabled |-> TRUE]
       ELSE Missing]
  /\ pinned = {} /\ abandoned = {} /\ contended = {} /\ mishaps = 0

\* The sources that can be asked.
Reachable == {o \in Origins : serves[o] # Missing}

Is(h, pc) == handler[h].pc = pc
GoOn(h, pc) == handler' = [handler EXCEPT ![h].pc = pc]
Reply(h) == handler' = [handler EXCEPT ![h] = NoTask]
Mishap == mishaps < MaxMishaps /\ mishaps' = mishaps + 1
Dir(h, content) == staging' = [staging EXCEPT ![handler[h].id] = content]

diskVars == <<staging, placed>>
storeRows == <<reviews, records, pinned>>
historyVars == <<approvals, abandoned, mishaps>>

----------------------------------------------------------------------------
(* Preparing.                                                              *)

StartPrepare(h, o) ==
  /\ Is(h, "idle")
  /\ handler' = [handler EXCEPT ![h] = [NoTask EXCEPT !.pc = "slot", !.origin = o]]
  /\ UNCHANGED <<serves, issued, diskVars, storeRows, historyVars>>

\* prepare_update: from the given source, or from the one of the record.
StartUpdate(h, x, given) ==
  /\ Is(h, "idle")
  /\ records[x] # Missing /\ x \notin pinned
  /\ handler' = [handler EXCEPT ![h] =
       [NoTask EXCEPT !.pc = "slot", !.plugin = x,
                       !.origin = IF given = Missing THEN records[x].origin ELSE given]]
  /\ UNCHANGED <<serves, issued, diskVars, storeRows, historyVars>>

Preparing == {h \in Handlers : handler[h].pc \in {"resolve", "fetch", "inspect"}}

\* acquire_preparation_slot, and the directory of the preparation.
AcquireSlot(h) ==
  /\ Is(h, "slot")
  /\ Cardinality(Preparing) < Slots /\ issued < MaxReviews
  /\ issued' = issued + 1
  /\ staging' = [staging EXCEPT ![issued + 1] = Partial]
  /\ handler' = [handler EXCEPT ![h].id = issued + 1,
       ![h].pc = IF OriginKind[handler[h].origin] = "local" THEN "fetch" ELSE "resolve"]
  /\ UNCHANGED <<serves, placed, storeRows, historyVars>>

SlotTimeout(h) ==
  /\ Is(h, "slot") /\ Cardinality(Preparing) = Slots
  /\ Reply(h)
  /\ UNCHANGED <<serves, issued, diskVars, storeRows, historyVars>>

\* Version and integrity from the registry, or the commit of a reference.
Resolve(h) ==
  /\ Is(h, "resolve") /\ handler[h].origin \in Reachable
  /\ handler' = [handler EXCEPT ![h].resolved = serves[handler[h].origin], ![h].pc = "fetch"]
  /\ UNCHANGED <<serves, issued, diskVars, storeRows, historyVars>>

\* Bytes of a registry or repository that may have changed since.
Received(h) ==
  LET now == serves[handler[h].origin]
  IN  {handler[h].resolved, now} \ {Missing}

\* A tarball is compared with the integrity, a checkout is of the commit.
Verified(h, p) == handler[h].resolved \in {Missing, p}

StagePackage(h) ==
  /\ Is(h, "fetch")
  /\ \E p \in Received(h) :
       /\ Verified(h, p) /\ StageFits(p)
       /\ Dir(h, p)
       /\ handler' = [handler EXCEPT ![h].pc = "inspect", ![h].package = p]
  /\ UNCHANGED <<serves, issued, placed, storeRows, historyVars>>

\* A download, a command or a copy that fails or exceeds a limit.
StageFails(h) ==
  /\ handler[h].pc \in {"resolve", "fetch"}
  /\ Dir(h, Missing) /\ Reply(h)
  /\ UNCHANGED <<serves, issued, placed, storeRows, historyVars>>

Reject(h) ==
  /\ Is(h, "inspect") /\ ~Inspected(handler[h].package)
  /\ Dir(h, Missing) /\ Reply(h)
  /\ UNCHANGED <<serves, issued, placed, storeRows, historyVars>>

\* The review of an update that is of another plugin is discarded at once.
SameIdentity(h) == handler[h].plugin \in {Missing, PluginOf(handler[h].package)}

Save(h) ==
  /\ Is(h, "inspect") /\ Inspected(handler[h].package)
  /\ reviews' = [reviews EXCEPT ![handler[h].id] =
       [package |-> handler[h].package, origin |-> handler[h].origin,
        resolved |-> handler[h].resolved, shown |-> SameIdentity(h)]]
  /\ IF SameIdentity(h) THEN Reply(h) ELSE GoOn(h, "discard")
  /\ UNCHANGED <<serves, issued, diskVars, records, pinned, historyVars>>

\* The error is returned as it is: the directory stays.
SaveFails(h) ==
  /\ Is(h, "inspect") /\ Inspected(handler[h].package)
  /\ Mishap /\ abandoned' = abandoned \cup {handler[h].id}
  /\ Reply(h)
  /\ UNCHANGED <<serves, issued, diskVars, storeRows, approvals>>

----------------------------------------------------------------------------
(* Committing.                                                             *)

Reviewed(i) == reviews[i] # Missing /\ reviews[i].shown

\* The request names the digest of the review.
CommitReview(h, i) ==
  /\ Is(h, "idle") /\ Reviewed(i)
  /\ handler' = [handler EXCEPT ![h] =
       [NoTask EXCEPT !.pc = "verify", !.id = i,
                       !.package = reviews[i].package, !.origin = reviews[i].origin]]
  /\ approvals' = approvals \cup {reviews[i].package}
  /\ UNCHANGED <<serves, issued, diskVars, storeRows, abandoned, mishaps>>

\* Mutant: the staged directory is not read again.
MutVerifyStaged(h) ==
  /\ Is(h, "verify")
  /\ IF staging[handler[h].id] # Missing THEN GoOn(h, "destination") ELSE Reply(h)
  /\ UNCHANGED <<serves, issued, diskVars, storeRows, historyVars>>

VerifyStaged(h) ==
  /\ Is(h, "verify")
  /\ IF staging[handler[h].id] = handler[h].package THEN GoOn(h, "destination") ELSE Reply(h)
  /\ UNCHANGED <<serves, issued, diskVars, storeRows, historyVars>>

\* A destination that exists must have the content its name says.
Destination(h) ==
  /\ Is(h, "destination")
  /\ IF placed[handler[h].package] \in {Missing, handler[h].package}
     THEN handler' = [handler EXCEPT ![h].pc = "place",
                       ![h].reused = placed[handler[h].package] # Missing]
     ELSE Reply(h)
  /\ UNCHANGED <<serves, issued, diskVars, storeRows, historyVars>>

Enabled(x) == records[x] # Missing /\ records[x].enabled

\* validate_prospective_catalog: the enabled plugins and the candidate.
CatalogAccepts(p) ==
  \A x \in Plugins \ {PluginOf(p)} : Enabled(x) =>
    /\ placed[records[x].package] = records[x].package
    /\ About[records[x].package].types \cap About[p].types = {}

\* The rename fails without a staged directory or onto another one.
MoveIntoPlace(h) ==
  /\ Is(h, "place")
  /\ LET p == handler[h].package  dir == staging[handler[h].id] IN
       \/ /\ CatalogAccepts(p) /\ handler[h].reused
          /\ GoOn(h, "upsert") /\ UNCHANGED diskVars
       \/ /\ CatalogAccepts(p) /\ ~handler[h].reused /\ dir # Missing /\ placed[p] = Missing
          /\ placed' = [placed EXCEPT ![p] = dir]
          /\ Dir(h, Missing) /\ GoOn(h, "upsert")
       \/ /\ \/ ~CatalogAccepts(p)
             \/ ~handler[h].reused /\ (dir = Missing \/ placed[p] # Missing)
          /\ Reply(h) /\ UNCHANGED diskVars
  /\ UNCHANGED <<serves, issued, storeRows, historyVars>>

Replaces(x) == x \notin pinned

\* Another request has moved the directory away, or deleted its manifest.
Gone(h) ==
  /\ Is(h, "upsert") /\ placed[handler[h].package] \in {Missing, Partial}
  /\ Reply(h)
  /\ UNCHANGED <<serves, issued, diskVars, storeRows, historyVars>>

WriteRecord(h) ==
  /\ Is(h, "upsert") /\ placed[handler[h].package] # Missing
  /\ Replaces(PluginOf(handler[h].package))
  /\ records' = [records EXCEPT ![PluginOf(handler[h].package)] =
       [package |-> handler[h].package, origin |-> handler[h].origin, enabled |-> TRUE]]
  /\ GoOn(h, "forget")
  /\ UNCHANGED <<serves, issued, diskVars, reviews, pinned, historyVars>>

\* Refused, or a store error: a directory this request moved is moved back.
RecordRefused(h) ==
  /\ Is(h, "upsert") /\ placed[handler[h].package] # Missing
  /\ \/ ~Replaces(PluginOf(handler[h].package)) /\ UNCHANGED mishaps
     \/ Mishap
  /\ LET p == handler[h].package IN
       IF ~handler[h].reused /\ staging[handler[h].id] = Missing
       THEN Dir(h, placed[p]) /\ placed' = [placed EXCEPT ![p] = Missing]
       ELSE UNCHANGED diskVars
  /\ Reply(h)
  /\ UNCHANGED <<serves, issued, storeRows, approvals, abandoned>>

\* The review goes, and the copy in staging when the destination was there.
Forget(h) ==
  /\ Is(h, "forget")
  /\ reviews' = [reviews EXCEPT ![handler[h].id] = Missing]
  /\ IF handler[h].reused THEN GoOn(h, "sweep") ELSE Reply(h)
  /\ UNCHANGED <<serves, issued, diskVars, records, pinned, historyVars>>

Sweep(h) ==
  /\ Is(h, "sweep")
  /\ Dir(h, Missing) /\ Reply(h)
  /\ UNCHANGED <<serves, issued, placed, storeRows, historyVars>>

----------------------------------------------------------------------------
(* Discarding, enabling, use.                                              *)

StartDiscard(h, i) ==
  /\ Is(h, "idle") /\ Reviewed(i)
  /\ handler' = [handler EXCEPT ![h] =
       [NoTask EXCEPT !.pc = "discard", !.id = i, !.package = reviews[i].package]]
  /\ UNCHANGED <<serves, issued, diskVars, storeRows, historyVars>>

\* remove_dir_all takes the files one after another.
Discard(h) ==
  /\ Is(h, "discard")
  /\ IF staging[handler[h].id] = Missing THEN UNCHANGED staging ELSE Dir(h, Partial)
  /\ GoOn(h, "emptying")
  /\ UNCHANGED <<serves, issued, placed, storeRows, historyVars>>

Emptied(h) ==
  /\ Is(h, "emptying")
  /\ Dir(h, Missing) /\ GoOn(h, "drop")
  /\ UNCHANGED <<serves, issued, placed, storeRows, historyVars>>

DiscardFails(h) ==
  /\ Is(h, "emptying")
  /\ Mishap /\ abandoned' = abandoned \cup {handler[h].id}
  /\ Reply(h)
  /\ UNCHANGED <<serves, issued, diskVars, storeRows, approvals>>

DropReview(h) ==
  /\ Is(h, "drop")
  /\ reviews' = [reviews EXCEPT ![handler[h].id] = Missing]
  /\ Reply(h)
  /\ UNCHANGED <<serves, issued, diskVars, records, pinned, historyVars>>

\* The record is changed first; the catalog is built from it after.
SetEnabled(x, on) ==
  /\ records[x] # Missing /\ records[x].enabled # on
  /\ records' = [records EXCEPT ![x].enabled = on]
  /\ UNCHANGED <<serves, handler, issued, diskVars, reviews, pinned, historyVars>>

\* The first execution with the plugin is admitted, or the last one ends.
Pin(x) ==
  /\ IF x \in pinned THEN pinned' = pinned \ {x}
     ELSE Enabled(x) /\ pinned' = pinned \cup {x}
  /\ UNCHANGED <<serves, handler, issued, diskVars, reviews, records, historyVars>>

----------------------------------------------------------------------------
(* The world outside.                                                      *)

Republish(o, p) ==
  /\ \E h \in Handlers : Is(h, "fetch") /\ handler[h].origin = o
  /\ p \in Offers(o) \ {serves[o]}
  /\ serves' = [serves EXCEPT ![o] = p]
  /\ UNCHANGED <<handler, issued, diskVars, storeRows, historyVars>>

\* A client goes away while its request waits: the request is dropped.
LoseClient(h) ==
  /\ \/ handler[h].pc \in {"slot", "resolve"}
     \/ Is(h, "fetch") /\ OriginKind[handler[h].origin] # "local"
  /\ Mishap /\ abandoned' = abandoned \cup ({handler[h].id} \ {0})
  /\ Reply(h)
  /\ UNCHANGED <<serves, issued, diskVars, storeRows, approvals>>

StagingCrash ==
  /\ Mishap
  /\ abandoned' = abandoned \cup ({handler[h].id : h \in Handlers} \ {0})
  /\ handler' = [h \in Handlers |-> NoTask]
  /\ UNCHANGED <<serves, issued, diskVars, storeRows, approvals>>

Ask(h) ==
  \/ \E o \in Reachable : StartPrepare(h, o)
  \/ \E x \in Plugins, o \in Reachable \cup {Missing} : StartUpdate(h, x, o)
  \/ \E i \in ReviewIds : CommitReview(h, i)
  \/ \E i \in ReviewIds : StartDiscard(h, i)

Handle(h) ==
  \/ AcquireSlot(h)
  \/ SlotTimeout(h)
  \/ Resolve(h)
  \/ StagePackage(h)
  \/ StageFails(h)
  \/ Reject(h)
  \/ Save(h)
  \/ SaveFails(h)
  \/ VerifyStaged(h)
  \/ Destination(h)
  \/ MoveIntoPlace(h)
  \/ Gone(h)
  \/ WriteRecord(h)
  \/ RecordRefused(h)
  \/ Forget(h)
  \/ Sweep(h)
  \/ Discard(h)
  \/ Emptied(h)
  \/ DiscardFails(h)
  \/ DropReview(h)
  \/ LoseClient(h)

\* Requests that commit or discard one package at the same time.
Settling(h) == handler[h].package # Missing /\ ~Is(h, "inspect")
Contending ==
  {<<handler[h].id, handler[h].package>> : h \in
     {g \in Handlers : Settling(g) /\ \E k \in Handlers \ {g} :
                          Settling(k) /\ handler[k].package = handler[g].package}}

StagingNext ==
  /\ \/ \E h \in Handlers : Ask(h)
     \/ \E h \in Handlers : Handle(h)
     \/ \E x \in Plugins, on \in BOOLEAN : SetEnabled(x, on)
     \/ \E x \in Plugins : Pin(x)
     \/ \E o \in Origins, p \in Packages : Republish(o, p)
     \/ StagingCrash
  /\ contended' = contended \cup Contending'

StagingSpec == StagingInit /\ [][StagingNext]_stagingVars

----------------------------------------------------------------------------
(* Properties.                                                             *)

AtWork(i) == \E h \in Handlers : handler[h].id = i
Spoilt(i) == i \in abandoned \/ \E c \in contended : c[1] = i

\* An installed package is one whose digest was approved, under its own
\* identity, and its directory holds what was reviewed.
InstalledAsApproved ==
  \A x \in Plugins : records[x] # Missing =>
    LET p == records[x].package IN
      /\ p \in approvals /\ PluginOf(p) = x
      /\ placed[p] = p \/ \E c \in contended : c[2] = p

\* A review is of a package within the limits that came from what its source
\* was resolved to; its directory stays as it was until a request takes it,
\* a refused commit included, and ends with it.
ReviewsIntact ==
  \A i \in ReviewIds :
    /\ reviews[i] # Missing =>
         /\ Inspected(reviews[i].package)
         /\ reviews[i].resolved # Missing =>
              reviews[i].package = reviews[i].resolved
         /\ \/ staging[i] = reviews[i].package
            \/ AtWork(i) \/ Spoilt(i)
    /\ reviews[i] = Missing /\ staging[i] # Missing =>
         AtWork(i) \/ Spoilt(i)

\* What is installed is what was reviewed and approved, and a review keeps
\* its package until it is committed or discarded, whatever crosses it.
StagingSound == InstalledAsApproved /\ ReviewsIntact

\* "Built-in node types cannot be replaced and duplicate external types are
\* rejected" (README.md): no node type is declared by two enabled plugins.
TypesUnique ==
  \A x, y \in Plugins : x # y /\ Enabled(x) /\ Enabled(y) =>
    About[records[x].package].types \cap About[records[y].package].types = {}
=============================================================================
