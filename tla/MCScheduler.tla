----------------------------- MODULE MCScheduler -----------------------------
(***************************************************************************)
(* One trigger of each kind and misfire policy, each alone in its store.   *)
(* A watch knows no calendar: it starts when two instants are left.        *)
(***************************************************************************)
EXTENDS Scheduler

CONSTANTS up, skip, single, all, cron, lost, files, again

MCKind == [t \in Triggers |->
  CASE t = up -> "startup" [] t \in {single, lost, again} -> "datetime"
    [] t = files -> "filesystem" [] t = cron -> "cron" [] OTHER -> "interval"]
MCMisfire == [t \in Triggers |->
  CASE t \in {skip, again} -> "skip" [] t \in {all, single} -> "catchUp" [] OTHER -> "runOnce"]
MCInstants == [t \in Triggers |-> IF t = lost THEN {} ELSE {2, 3}]

MCInit ==
  /\ Init
  /\ {t \in Triggers : workflow[t].exists}
       \in {{t} : t \in Triggers}
  /\ workflow[files].exists => now = MaxTime - 1
MCSpec == MCInit /\ [][Next]_vars /\ Fairness
=============================================================================
