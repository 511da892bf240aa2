---------------------------- MODULE MCIamService ----------------------------
(***************************************************************************)
(* IamService for TLC: the subject of the seed policy and one more name,   *)
(* which requests use as a user, as a group and with a type the CHECK      *)
(* refuses; an Allow of the seed's priority, so that list_policies has a   *)
(* tie to break, and a Deny.                                               *)
(***************************************************************************)
EXTENDS IamService, TLC

MCNames == {"*", "alice"}

Wire(effect, filter, priority) ==
  [resource_pattern |-> <<"finance", "*">>, action |-> "SELECT",
   effect |-> effect, row_filter |-> filter, priority |-> priority]

Deny5  == Wire(1, "", 5)
Allow0 == Wire(0, "gb", 0)
MCWireRules == {Deny5, Allow0}

CreatePolicyReq(type, name, rule) ==
  [op |-> "create_policy", type |-> type, name |-> name, rule |-> rule]

MCRequests ==
       {CreatePolicyReq(t, "alice", Deny5) : t \in WireTypes}
  \cup {CreatePolicyReq("user", n, Allow0) : n \in MCNames}
  \cup [op : {"delete_policy"}, id : PolicyIds]
  \cup [op : {"create_subject"}, type : {"group"}, name : {"alice"}]
  \cup [op : {"add_group_member"}, group : {"*"}, user : {"alice"}]

\* For two handlers: writes that race for a policy and for the subject alice.
MCRaceRequests ==
       {CreatePolicyReq("group", "alice", Deny5), CreatePolicyReq("user", "*", Allow0)}
  \cup [op : {"delete_policy"}, id : {0, 1}]
  \cup [op : {"create_subject"}, type : {"USER"}, name : {"alice"}]
  \cup [op : {"add_group_member"}, group : {"*"}, user : {"alice"}]

Symmetry == Permutations(Handlers)
=============================================================================
