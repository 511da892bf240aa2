---------------------------- MODULE MCIamPolicy ----------------------------
(***************************************************************************)
(* PolicyLists with a few policies and requests.                           *)
(***************************************************************************)
EXTENDS PolicyLists

Rule(pattern, action, effect, filter, priority) ==
  [resource_pattern |-> pattern, action |-> action, effect |-> effect,
   row_filter |-> filter, priority |-> priority]

Policy(id, type, name, rule) ==
  [id |-> id, subject_type |-> type, subject_name |-> name, rule |-> rule]

(***************************************************************************)
(* The seed policy of migration 0005 and the shapes that interact with it: *)
(* a namespace wildcard, an exact name, a group, a nested namespace, equal *)
(* priorities with and without a row filter, a literal group named "*".    *)
(***************************************************************************)
MCTemplates == {
  Policy(0, "user",  "*",     Rule(<<"*">>, "SELECT", "Allow", None, 0)),
  Policy(1, "user",  "alice", Rule(<<"fin", "*">>, "select", "Allow", "own", 0)),
  Policy(2, "user",  "alice", Rule(<<"fin", "eu", "*">>, "*", "Allow", "eu", 5)),
  Policy(3, "user",  "alice", Rule(<<"fin", "tx">>, "SELECT", "Deny", None, -1)),
  Policy(4, "group", "ops",   Rule(<<"fin", "eu", "tx">>, "SELECT", "Deny", None, 9)),
  Policy(5, "group", "*",     Rule(<<"*">>, "*", "Allow", "all", 9))}

Subjects  == {[user_id |-> "alice", groups |-> {}],
              [user_id |-> "bob",   groups |-> {"ops"}]}
Resources == {[namespace |-> <<"fin">>,       name |-> <<"tx">>],
              [namespace |-> <<"fin", "eu">>, name |-> <<"tx">>],
              [namespace |-> <<"fin">>,       name |-> <<"hr">>],
              [namespace |-> <<"fin">>,       name |-> <<"eu", "*">>]}
MCRequests == Subjects \X Resources \X {"SELECT", "INSERT"}
=============================================================================
