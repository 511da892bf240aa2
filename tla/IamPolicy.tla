------------------------------ MODULE IamPolicy ------------------------------
(***************************************************************************)
(* The policy evaluation of the elan-iam crate: how one policy matches a   *)
(* subject, a resource and an action (types.rs) and how the engine picks   *)
(* the policy that decides (engine.rs).  Everything here is a pure         *)
(* function of the policy list; the list itself lives in IamService.       *)
(*                                                                         *)
(* A dataset name, a namespace or a resource pattern is the sequence of    *)
(* its dot-separated segments, so "finance.*" is <<"finance", "*">> and    *)
(* format!("{namespace}.{name}") is concatenation.                         *)
(***************************************************************************)
EXTENDS Integers, Sequences

CONSTANT None   \* Rust's Option::None

Wild == "*"

(***************************************************************************)
(* Records: a subject [user_id, groups], a resource [namespace, name], a   *)
(* rule [resource_pattern, action, effect, row_filter, priority] and a     *)
(* policy [id, subject_name, subject_type, rule].                          *)
(***************************************************************************)
Front(seq) == SubSeq(seq, 1, Len(seq) - 1)
Last(seq)  == seq[Len(seq)]

\* Policy::matches_resource.
MatchesResource(p, r) ==
  LET pattern == p.rule.resource_pattern IN
  \/ pattern = <<Wild>>
  \/ IF Len(pattern) > 1 /\ Last(pattern) = Wild     \* strip_suffix(".*")
     THEN Front(pattern) = r.namespace
     ELSE pattern = r.namespace \o r.name

\* eq_ignore_ascii_case, on the one spelling pair the model distinguishes.
Folded(action) == IF action = "select" THEN "SELECT" ELSE action

\* Policy::matches_action.
MatchesAction(p, action) ==
  p.rule.action = Wild \/ Folded(p.rule.action) = Folded(action)

\* Policy::matches_subject.
MatchesSubject(p, s) ==
  \/ p.subject_type = "user"  /\ p.subject_name \in {Wild, s.user_id}
  \/ p.subject_type = "group" /\ p.subject_name \in s.groups

Matches(p, s, r, action) ==
  MatchesSubject(p, s) /\ MatchesResource(p, r) /\ MatchesAction(p, action)

Matching(policies, s, r, action) ==
  {i \in DOMAIN policies : Matches(policies[i], s, r, action)}

EffectOrd(effect) == IF effect = "Deny" THEN 0 ELSE 1

\* A mutant: priority compared before the effect, as the comment in engine.rs (47)
\* has it.
PrecedesByPriority(a, b) ==
  \/ a.rule.priority > b.rule.priority
  \/ /\ a.rule.priority = b.rule.priority
     /\ EffectOrd(a.rule.effect) < EffectOrd(b.rule.effect)

\* A mutant: a.priority.cmp(&b.priority), the lowest priority first.
PrecedesAscending(a, b) ==
  \/ EffectOrd(a.rule.effect) < EffectOrd(b.rule.effect)
  \/ /\ a.rule.effect = b.rule.effect
     /\ a.rule.priority < b.rule.priority

\* The comparison given to sort_by: Deny first, then higher priority.
Precedes(a, b) ==
  \/ EffectOrd(a.rule.effect) < EffectOrd(b.rule.effect)
  \/ /\ a.rule.effect = b.rule.effect
     /\ a.rule.priority > b.rule.priority

\* matching.first() after the (stable) sort of the policies at indices M.
IsFirst(policies, M, i) ==
  /\ i \in M
  /\ \A j \in M \ {i} : \/ Precedes(policies[i], policies[j])
                        \/ i < j /\ ~Precedes(policies[j], policies[i])

Allow(p) == [allowed |-> TRUE,  row_filter |-> p.rule.row_filter, by |-> p.id]
Deny(id) == [allowed |-> FALSE, row_filter |-> None, by |-> id]

Decide(p) == IF p.rule.effect = "Deny" THEN Deny(p.id) ELSE Allow(p)

(***************************************************************************)
(* SnapshotIamEngine::check.  `by' is the policy named in the log and in   *)
(* the reason of a Deny; the default deny names none.                      *)
(***************************************************************************)
Check(policies, s, r, action) ==
  LET M == Matching(policies, s, r, action) IN
  IF \E i \in M : IsFirst(policies, M, i)
  THEN Decide(policies[CHOOSE i \in M : IsFirst(policies, M, i)])
  ELSE Deny(None)

\* catalog_filter::is_visible.
IsVisible(policies, s, r) == Check(policies, s, r, "SELECT").allowed
=============================================================================
