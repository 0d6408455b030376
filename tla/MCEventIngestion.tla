-------------------------- MODULE MCEventIngestion --------------------------
(* Two policies that follow different vault objects, and messages of every *)
(* kind: one addressed to the other policy and its namespace only, one     *)
(* that names no object and so concerns both, and one that cannot be       *)
(* parsed.                                                                 *)
EXTENDS EventIngestion, TLC

CONSTANTS p1, p2, db, api

McObjectOf == p1 :> db @@ p2 :> api
McMaxVersion == db :> 2 @@ api :> 1
McAnonymous == {<<db, 2>>}
McMalformed == {<<api, 1>>}
McNamed == [m \in Messages |-> IF m = <<db, 1>> THEN {p2} ELSE {}]
McScope == [m \in Messages |-> IF m = <<db, 1>> THEN {p2} ELSE Policies]
=============================================================================
