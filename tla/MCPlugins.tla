------------------------------- MODULE MCPlugins -------------------------------
(***************************************************************************)
(* Packages on their way in and on their way out.  A behaviour looks at    *)
(* one of two things: reviews and installations of packages ("staging"),   *)
(* or a removal that executions hold up ("settling").                      *)
(***************************************************************************)
EXTENDS PluginRemoval, PackageStaging

CONSTANTS e1, e2, w1, b1, Parts

VARIABLE part

OneWorkflow == [e \in Executions |-> w1]
OneAtATime == [e \in Executions |-> 1]

----------------------------------------------------------------------------
(* The packages of "staging": two builds of plugin A and one of B that     *)
(* declares a type of the second; a tree with a link; an archive with more *)
(* entries, once it is extracted, than are allowed.                        *)
File(at, n) == [at |-> at, kind |-> "file", size |-> n]
Link(at) == [at |-> at, kind |-> "link", size |-> 0]
Package(o, x, types, tree) ==
  [origin |-> o, plugin |-> x, types |-> types, valid |-> TRUE, tree |-> tree]
MCOriginKind == [o \in Origins |-> o]
Archive == {File(<<"package", "m">>, 1), File(<<"package", "d", "x">>, 1)}
MCAbout == [p \in Packages |->
  CASE p = "a1" -> Package("local", "A", {"t"}, {File(<<"m">>, 1), File(<<".git">>, 9)})
    [] p = "linked" -> Package("local", "A", {"t"}, {File(<<"m">>, 1), Link(<<"x">>)})
    [] p = "a2" -> Package("npm", "A", {"t", "u"}, Archive)
    [] p = "large" -> Package("npm", "A", {"t", "u"}, Archive \cup {File(<<"package", "d", "y">>, 0)})
    [] p = "b1" -> Package("git", "B", {"u"}, {File(<<"m">>, 2)})]

\* What is served, what is installed, and how many preparations are to come.
Scene == <<{serves[o] : o \in Reachable}, approvals, MaxReviews - issued>>
MCScenes ==
  {<<{"a1"}, {}, 2>>, <<{"linked"}, {}, 1>>, <<{"a2"}, {"b1"}, 1>>, <<{"large"}, {"a1"}, 1>>,
   <<{"a1", "a2"}, {"a1"}, 1>>, <<{"b1"}, {"a2"}, 1>>, <<{"b1"}, {"a1"}, 1>>}

----------------------------------------------------------------------------
MCInit ==
    /\ part \in Parts
    /\ Init /\ StagingInit
    /\ IF part = "staging" THEN Scene \in MCScenes ELSE Scene = <<{}, {}, MaxReviews>>

MCNext ==
    /\ UNCHANGED part
    /\ \/ part = "settling" /\ Next /\ UNCHANGED stagingVars
       \/ part = "staging" /\ StagingNext /\ UNCHANGED vars

MCSpec == MCInit /\ [][MCNext]_<<part, vars, stagingVars>> /\ Fairness
=============================================================================
