------------------------------ MODULE NameMap ------------------------------
(***************************************************************************)
(* What a symbol table promises to the symbol-table constructor and to the *)
(* semantic analyzer: a map from names to entries.  An insertion gives the *)
(* name its new value, and a search finds the value given last.            *)
(***************************************************************************)
CONSTANTS Names, Values, NULL

VARIABLES
  map,    \* the value of every name, NULL if it has none
  found   \* what the last search returned, NULL after another call

MapInit == map = [n \in Names |-> NULL] /\ found = NULL

Put == \E n \in Names, v \in Values :
         map' = [map EXCEPT ![n] = v] /\ UNCHANGED found

Get == \E n \in Names :
         found' = [name |-> n, found |-> map[n]] /\ UNCHANGED map

(* A call begins.                                                          *)
Call == found' = NULL /\ UNCHANGED map

MapSpec == MapInit /\ [][Put \/ Get \/ Call]_<<map, found>>
=============================================================================
