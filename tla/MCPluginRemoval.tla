--------------------------- MODULE MCPluginRemoval ---------------------------
(***************************************************************************)
(* Removals by two administrators over a crash: with one execution while   *)
(* builds are being installed, or with two executions of the one build     *)
(* there is.                                                               *)
(***************************************************************************)
EXTENDS PluginContent, TLC

CONSTANTS e1, e2, w1, b1

OneWorkflow == [e \in Executions |-> w1]
OneAtATime == [e \in Executions |-> 1]

Touched == {e \in Executions : status[e] # "absent" \/ using[e] # NoBuild}

(* No build but b1 has been committed, and none is about to be.            *)
OnlyOne ==
    /\ ~crossed /\ \A a \in Admins : ~Installs(a)
    /\ \A b \in Builds \ {b1} : installed # b /\ files[b] = "absent"

(* With an installation there is one execution; of the restarts those are  *)
(* looked at that no crossing came before or after, and that, with two     *)
(* executions, are followed by one administrator at a time.                *)
MCNext ==
    /\ ContentNext
    /\ Cardinality(Touched') <= 1 \/ OnlyOne'
    /\ crashes' > 0 =>
          /\ ~crossed'
          /\ Cardinality(Touched') <= 1 \/ \E a \in Admins : pc'[a] = "idle"

MCSpec == ContentInit /\ [][MCNext]_contentVars

(* Executions differ in nothing, and neither do administrators.            *)
Interchangeable == Permutations(Executions) \cup Permutations(Admins)
=============================================================================
