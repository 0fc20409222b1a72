----------------------------- MODULE MCAppModel -----------------------------
(***************************************************************************)
(* A small instance of the host application.                               *)
(***************************************************************************)
EXTENDS AppModel

CONSTANTS a, b

World0(names, stored, served) == [listed |-> names, secret |-> stored, mounted |-> served]

(* Both can be mounted, or one lacks its secret.                           *)
SomeWorlds == {World0({a, b}, {a, b}, {}), World0({a, b}, {a}, {})}
=============================================================================
