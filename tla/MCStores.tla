------------------------------ MODULE MCStores ------------------------------
(* The stores on small instances: a value and a collection in the          *)
(* application's scope, a map in a child scope, a chain of deriveds across *)
(* both with a gate, and a derived that reads a source twice, before and   *)
(* after another one.                                                      *)
EXTENDS Stores

MCScopeOrder == <<"app", "child">>
MCParent == [s \in {"child"} |-> "app"]
MCSources == [d \in {"d1", "d2", "d3", "d4"} |->
                CASE d = "d1" -> <<"v">>
                  [] d = "d2" -> <<"c", "d1">>
                  [] d = "d3" -> <<"m", "d2">>
                  [] OTHER -> <<"d2", "d1", "d2">>]
MCOwner == [n \in {"v", "m", "c", "d1", "d2", "d3", "d4"} |->
              IF n \in {"m", "d3"} THEN "child" ELSE "app"]

Only(store, ops) == [store : {store}, op : ops]
Set == Only("v", [kind : {"set"}, arg : {NoID}])
Put == Only("m", [kind : {"put"}, arg : MapKeys])
Insert == Only("c", [kind : {"insert"}, arg : {1}])

App(ms, bound, ds, binds) ==
  [mutations |-> ms, bound |-> bound, deriveds |-> ds, binder |-> binds]

(* The chain, the gate, the read twice; the map; the collection and its    *)
(* mirror, alone and with deriveds.                                        *)
MCScenarios ==
  { App(Set \cup Put, 1, {"d1", "d2", "d3"}, FALSE),
    App(Set \cup Insert, 2, {"d1", "d2"}, FALSE),
    App(Set, 1, {"d1", "d2", "d4"}, FALSE),
    App(Only("m", MapMutations), 3, {}, FALSE),
    App(Only("c", ItemMutations), 3, {}, TRUE),
    App(Only("c", [kind : {"insert", "remove"}, arg : {1}]), 2, {"d1", "d2"}, TRUE) }
=============================================================================
