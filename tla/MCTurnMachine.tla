--------------------------- MODULE MCTurnMachine ---------------------------
(***************************************************************************)
(* Small values for the constants of TurnMachine.                          *)
(***************************************************************************)
EXTENDS TurnMachine

ToolPlans == {<<"Local", "Local">>, <<"Human", "Child">>}
TeamPlans == {<<"Child", "Child">>, <<"Local", "Child">>, <<"BadPeer", "Local">>,
              <<"Peer", "Peer">>, <<"BadPeer">>}
=============================================================================
