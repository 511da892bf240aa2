---------------------------- MODULE PolicyLists ----------------------------
(***************************************************************************)
(* The lists of policies that reload() may be given: any policies in any   *)
(* order, built by inserting one at a time, and what engine.rs promises    *)
(* about the decisions it takes from them.                                 *)
(***************************************************************************)
EXTENDS IamPolicy

CONSTANTS
  Templates,    \* policies
  Requests,     \* <<subject, resource, action>>
  MaxPolicies   \* bound on the length of a list

MaxI32 == 2147483647

\* The text of a pattern and of a name has at least one segment, as
\* str::split has; a priority is an i32.
ASSUME PolicyAssumption ==
  /\ MaxPolicies \in Nat
  /\ \A p \in Templates :
       /\ p.rule.resource_pattern \in Seq(STRING) \ {<< >>}
       /\ p.rule.effect \in {"Allow", "Deny"}
       /\ p.rule.priority \in Int /\ p.rule.priority <= MaxI32
  /\ \A q \in Requests :
       q[2].namespace \in Seq(STRING) /\ q[2].name \in Seq(STRING) \ {<< >>}

VARIABLE policies

Decision(list, q) == Check(list, q[1], q[2], q[3])

\* The list with p as its element i + 1.
Insert(list, i, p) ==
  [j \in 1..(Len(list) + 1) |->
     IF j <= i THEN list[j] ELSE IF j = i + 1 THEN p ELSE list[j - 1]]

Init == policies = << >>

Add(p) ==
  /\ Len(policies) < MaxPolicies
  /\ \A i \in DOMAIN policies : policies[i].id # p.id
  /\ \E i \in 0..Len(policies) : policies' = Insert(policies, i, p)

Next == \E p \in Templates : Add(p)

Spec == Init /\ [][Next]_policies

-----------------------------------------------------------------------------
(***************************************************************************)
(* What a policy says (types.rs), with whole patterns and sets instead of  *)
(* a suffix that is stripped and cases that are folded: "*", a namespace   *)
(* with ".*", or a qualified name that is not itself of that form.         *)
(***************************************************************************)
Covers(p, r) ==
  \/ p.rule.resource_pattern \in {<<"*">>, r.namespace \o <<"*">>}
  \/ p.rule.resource_pattern = r.namespace \o r.name /\ r.name[Len(r.name)] # "*"

AppliesTo(p, q) ==
  /\ \/ p.subject_type = "user" /\ p.subject_name = "*"
     \/ p.subject_type = "user" /\ p.subject_name = q[1].user_id
     \/ p.subject_type = "group" /\ p.subject_name \in q[1].groups
  /\ Covers(p, q[2])
  /\ p.rule.action \in {"*", q[3]} \/ {p.rule.action, q[3]} \subseteq {"SELECT", "select"}

Applying(q, effect) ==
  {policies[i] : i \in {j \in DOMAIN policies :
     AppliesTo(policies[j], q) /\ policies[j].rule.effect = effect}}

(***************************************************************************)
(* engine.rs (3-8): access is granted exactly when an Allow and no Deny    *)
(* applies, whatever the priorities and the order of the list, and the row *)
(* filter is the one of an applying Allow that no other applying Allow     *)
(* outranks.  This is what the header (7-8), the comment before the sort   *)
(* (57) and the sort itself say.  The comment at engine.rs (47), "sorted   *)
(* by priority desc then Deny-first", says otherwise: by it an Allow of a  *)
(* higher priority would beat a Deny.  The property sides with the code    *)
(* and fails by that comment for a Deny of priority -1 and an Allow of 0.  *)
(***************************************************************************)
DecisionMatchesReference ==
  \A q \in Requests :
    LET d == Decision(policies, q)
        allows == Applying(q, "Allow") IN
    /\ d.allowed <=> Applying(q, "Deny") = {} /\ allows # {}
    /\ d.allowed => \E p \in allows :
         /\ d.by = p.id /\ d.row_filter = p.rule.row_filter
         /\ \A o \in allows : o.rule.priority <= p.rule.priority
    /\ ~d.allowed => d.row_filter = None

(***************************************************************************)
(* A row filter in force is lifted or replaced only by an Allow of at      *)
(* least the same priority (engine.rs (7-8)): writing a weaker Allow, or a *)
(* Deny that does not turn the request away, leaves the decision as it     *)
(* was, wherever the new policy lands in the list.                         *)
(***************************************************************************)
RowFilterOutlivesWeakerPolicies ==
  [][\A p \in Templates : Add(p) => \A q \in Requests :
       LET before == Decision(policies, q)
           after  == Decision(policies', q)
           decider == CHOOSE i \in DOMAIN policies : policies[i].id = before.by IN
       before.allowed /\ after.allowed /\ after # before =>
         /\ p.rule.effect = "Allow"
         /\ p.rule.priority >= policies[decider].rule.priority]_policies
=============================================================================
