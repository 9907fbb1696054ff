------------------------- MODULE MCServiceOperations -------------------------
(***************************************************************************)
(* Two commands on one service, and each pair of operations once: which of *)
(* the two commands has which of them makes no difference.                 *)
(***************************************************************************)
EXTENDS ServiceOperations

CONSTANTS c1, c2

MCInit ==
  /\ Init
  /\ <<op[c1], op[c2]>> \in
       {<<o, o>> : o \in Ops}
       \cup {<<"install", "start">>, <<"install", "stop">>, <<"install", "uninstall">>,
             <<"start", "stop">>, <<"start", "uninstall">>, <<"stop", "uninstall">>}
MCSpec == MCInit /\ [][Next]_vars /\ Fairness
=============================================================================
