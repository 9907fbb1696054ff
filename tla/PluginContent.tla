---------------------------- MODULE PluginContent ----------------------------
(***************************************************************************)
(* PluginRemoval with a history of the installations that crossed another  *)
(* request: what the files of packages depend on.                          *)
(*                                                                         *)
(* `commit' of src/src/plugin_install.rs and `reconcile_one' of            *)
(* src/src/plugin_services.rs both look at the store first and at the      *)
(* package directory after, and nothing excludes one during the other.     *)
(***************************************************************************)
EXTENDS PluginRemoval

VARIABLE crossed   \* an installation has crossed another or a reconciliation

contentVars == <<vars, crossed>>

(* Between the look at the directory of the package and the record of it.  *)
Installs(p) == pc[p] \in {"place", "upsertPlaced", "upsertReused"}

(* Between the look at the state of the removal and the deletion.          *)
Reconciles(p) == pc[p] \in {"pins", "recheck", "lookup", "delete"}

Crossing ==
    \E p, q \in Procs : p # q /\ Installs(p) /\ (Installs(q) \/ Reconciles(q))

ContentInit == Init /\ crossed = FALSE
ContentNext == Next /\ crossed' = (crossed \/ Crossing')
ContentSpec == ContentInit /\ [][ContentNext]_contentVars

(* Packages stay where records and executions need them (the files of a    *)
(* pinned build, the files of an enabled record), over removals that fail, *)
(* are resumed or overtake each other, replacements and crashes, as long   *)
(* as no installation crosses another one or a reconciliation: those two   *)
(* are the only ways to lose them (reconcile_one, commit).                 *)
ContentKeptInUse == ~crossed => ContentKept
=============================================================================
