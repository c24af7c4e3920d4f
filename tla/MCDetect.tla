------------------------------ MODULE MCDetect ------------------------------
(* A small disk for Detect: one search root and the install folder, a game "valheim",
   a folder of another game with many save files, a noisy one, and an empty one. *)
EXTENDS Detect

MCUnits == {
  [dir |-> <<"local", "valheim">>, sav |-> FALSE, n |-> 1],
  [dir |-> <<"local", "valheim", "saves">>, sav |-> TRUE, n |-> 2],
  [dir |-> <<"local", "ori", "saves">>, sav |-> TRUE, n |-> 100],
  [dir |-> <<"local", "temp", "valheim2", "valheim">>, sav |-> FALSE, n |-> 1],
  [dir |-> <<"local", "temp">>, sav |-> TRUE, n |-> 1],
  [dir |-> <<"valheim", "saves">>, sav |-> FALSE, n |-> 0]}
MCRoots == <<"local", "valheim">>
MCNameOrder == <<"bak", "local", "ori", "saves", "temp", "valheim", "valheim2">>
MCInstalled == {
  [store |-> "steam", dir |-> <<"lib", "valheim">>],
  [store |-> "steam", dir |-> <<"lib", "valheim2">>],
  [store |-> "epic", dir |-> <<"epic", "ori">>]}
MCProcesses == {
  <<"lib", "VALHEIM", "exe">>, <<"lib", "valheim2", "exe">>, <<"epic", "ori", "exe">>,
  <<"lib", "exe">>, <<"lib">>}
MCLower(name) == IF name = "VALHEIM" THEN "valheim" ELSE name
MCById == << <<"local", "valheim", "worlds">>, <<"valheim", "saves">> >>
=============================================================================
