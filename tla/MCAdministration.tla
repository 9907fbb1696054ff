--------------------------- MODULE MCAdministration ---------------------------
(***************************************************************************)
(* The parts of an installation around its executions, which share no      *)
(* state: a behaviour takes steps of one of them.  Setup is looked at with *)
(* several initializations and Cores on one store ("setup") and with one   *)
(* initialization among commands on contexts ("contexts").                 *)
(***************************************************************************)
EXTENDS Credentials, Access, Definitions, Setup, Pages, Validation, Providers, TLC

CONSTANT Parts       \* the parts a run looks at
VARIABLE part

mcVars == <<part, secretVars, accessVars, definitionVars, setupVars, pageVars,
            validationVars, providerVars>>

----------------------------------------------------------------------------
(* The documents of "validation": edges between three nodes of the         *)
(* workflow and two of a body, the types of the nodes, what they refer to. *)
MCLinks == {<<"a", "success", "b">>, <<"a", "success", "c">>, <<"b", "success", "a">>,
            <<"b", "success", "c">>, <<"c", "success", "b">>,
            <<"a", "other", "b">>, <<"a", "other", "c">>}
MCBodyLinks == {<<"x", "success", "x">>, <<"x", "success", "y">>, <<"y", "success", "x">>}
MCShapes ==
  {[a |-> "if", b |-> "set", c |-> "join", x |-> "pass", y |-> "pass"],
   [a |-> "text", b |-> "if", c |-> "pass", x |-> "pass", y |-> "pass"],
   [a |-> "set", b |-> "foreach", c |-> "text", x |-> "set", y |-> "pass"],
   [a |-> "pass", b |-> "join", c |-> "unknown", x |-> "pass", y |-> "pass"]}
MCSources == {"a", "b", "x", "missing", "$input", "$v", "$item"}

(* The nodes of "providers", and what a provider answers.                  *)
AiNode(n, k, p, t) == [id |-> n, kind |-> k, profile |-> p, tokens |-> t]
MCWork ==
  {{AiNode("n1", "agent", "codex", 1), AiNode("n2", "extract", "codex", 2)},
   {AiNode("n1", "agent", "minimax", 1), AiNode("n2", "messages", "minimax", 2)},
   {AiNode("n1", "generate", "minimax", 2), AiNode("n2", "exec", "codex", 2)}}
MCReplies == {<<"prose">>, <<"value">>, <<"submit">>, <<"echo", "remote">>,
              <<"foreign">>, <<"submit", "echo">>, <<"nameless">>}

----------------------------------------------------------------------------
(* Parts other than the one looked at start in one state.                  *)
MCInit ==
  /\ part \in Parts
  /\ DefinitionInit
  /\ SecretInit /\ (part # "credentials" => backend = "vault")
  /\ AccessInit /\ (part # "access" => eligible)
  /\ SetupInit /\ (part # "setup" => db.file = "none")
  /\ PageInit /\ (part # "pages" => kind = "workflows")
  /\ ProviderInit /\ (part # "providers" => job = CHOOSE w \in Work : TRUE)
  /\ ValidationInit
  /\ part # "validation" =>
       doc = Drawn(CHOOSE types \in Shapes : TRUE, FALSE, {}, "a")

\* The processes of the two looks at Setup.
Actors == IF part = "setup" THEN Inits \cup Cores
          ELSE {CHOOSE p \in Inits : TRUE} \cup Commands

MCNext ==
  /\ UNCHANGED part
  /\ \/ /\ part = "credentials" /\ SecretNext
        /\ UNCHANGED <<accessVars, definitionVars, setupVars, pageVars, validationVars, providerVars>>
     \/ /\ part = "access" /\ AccessNext
        /\ UNCHANGED <<secretVars, definitionVars, setupVars, pageVars, validationVars, providerVars>>
     \/ /\ part = "definitions" /\ DefinitionNext
        /\ UNCHANGED <<secretVars, accessVars, setupVars, pageVars, validationVars, providerVars>>
     \/ /\ part \in {"setup", "contexts"} /\ SetupNext
        /\ \A p \in Processes \ Actors : proc'[p] = proc[p]
        /\ UNCHANGED <<secretVars, accessVars, definitionVars, pageVars, validationVars, providerVars>>
     \/ /\ part = "pages" /\ PageNext
        /\ UNCHANGED <<secretVars, accessVars, definitionVars, setupVars, validationVars, providerVars>>
     \/ /\ part = "validation" /\ ValidationNext
        /\ UNCHANGED <<secretVars, accessVars, definitionVars, setupVars, pageVars, providerVars>>
     \/ /\ part = "providers" /\ ProviderNext
        /\ UNCHANGED <<secretVars, accessVars, definitionVars, setupVars, pageVars, validationVars>>

MCSpec == MCInit /\ [][MCNext]_mcVars

\* What old clients write is followed for one version and one Core.
LegacyBound == legacy => minted <= 1 /\ restarts = 0

MCSymmetry == Permutations(Callers) \cup Permutations(Values)
=============================================================================
