--------------------------- MODULE IamPolicyProofs ---------------------------
(***************************************************************************)
(* What SnapshotIamEngine::check decides, for every list of policies, every*)
(* subject, resource and action, and what a new policy can change.         *)
(***************************************************************************)
EXTENDS PolicyLists, SequenceTheorems, WellFoundedInduction, TLAPS

\* A Vec<Policy>: the effect is one of two, the priority an i32.
PolicyList(list) ==
  /\ \E n \in Nat : DOMAIN list = 1..n
  /\ \A i \in DOMAIN list :
       /\ list[i].rule.effect \in {"Allow", "Deny"}
       /\ list[i].rule.priority \in Int
       /\ list[i].rule.priority <= MaxI32

-----------------------------------------------------------------------------
\* A set of natural numbers that is not empty has a least element.
LEMMA LeastNatural ==
  ASSUME NEW T, T \subseteq Nat, T # {}
  PROVE  \E x \in T : \A y \in T : x <= y
<1>1. PICK x \in T : \A y \in T : ~ (<<y, x>> \in OpToRel(<, Nat))
  BY WFMin, NatLessThanWellFounded
<1>2. ASSUME NEW y \in T
      PROVE  x <= y
  <2>1. ~ (y < x)
    BY <1>1 DEF OpToRel
  <2>2. QED
    BY <2>1
<1>3. QED
  BY <1>2

(***************************************************************************)
(* sort_by followed by first(): among the matching policies there is one   *)
(* that comes before all the others.                                       *)
(***************************************************************************)
LEMMA FirstExists ==
  ASSUME NEW list, PolicyList(list),
         NEW M, M \subseteq DOMAIN list, M # {}
  PROVE  \E i \in M : IsFirst(list, M, i)
<1> DEFINE denies == {i \in M : list[i].rule.effect = "Deny"}
           top    == IF denies # {} THEN denies ELSE M
           gap(i) == MaxI32 - list[i].rule.priority
           gaps   == {gap(i) : i \in top}
<1>1. top \subseteq M /\ top # {} /\ M \subseteq Nat
  BY DEF PolicyList
<1>2. \A i \in M : gap(i) \in Nat
  BY DEF PolicyList, MaxI32
<1>3. gaps \subseteq Nat /\ gaps # {}
  BY <1>1, <1>2
<1>4. PICK g \in gaps : \A k \in gaps : g <= k
  BY <1>3, LeastNatural
<1> DEFINE best == {i \in top : gap(i) = g}
<1>5. best \subseteq Nat /\ best # {}
  BY <1>1, <1>4
<1>6. PICK i \in best : \A j \in best : i <= j
  BY <1>5, LeastNatural
<1>7. \A j \in top : gap(i) <= gap(j)
  BY <1>4, <1>6
<1>8. \A j \in top : list[j].rule.priority <= list[i].rule.priority
  BY <1>1, <1>7 DEF PolicyList, MaxI32
<1>9. ASSUME NEW j \in M \ {i}
      PROVE  \/ Precedes(list[i], list[j])
             \/ i < j /\ ~Precedes(list[j], list[i])
  <2>1. CASE j \notin top
    <3>1. list[i].rule.effect = "Deny" /\ list[j].rule.effect = "Allow"
      BY <2>1, <1>1, <1>6 DEF PolicyList
    <3>2. QED
      BY <3>1 DEF Precedes, EffectOrd
  <2>2. CASE j \in top
    <3>1. list[i].rule.effect = list[j].rule.effect
      BY <2>2, <1>1, <1>6 DEF PolicyList
    <3>2. CASE list[i].rule.priority > list[j].rule.priority
      BY <3>1, <3>2 DEF Precedes
    <3>3. CASE list[i].rule.priority = list[j].rule.priority
      <4>1. j \in best
        BY <3>3, <2>2, <1>6
      <4>2. i < j
        BY <4>1, <1>6, <1>5
      <4>3. QED
        BY <4>2, <3>1, <3>3, <1>1, <2>2, <1>6 DEF Precedes, EffectOrd, PolicyList
    <3>4. QED
      BY <3>2, <3>3, <1>8, <2>2, <1>1, <1>6 DEF PolicyList
  <2>3. QED
    BY <2>1, <2>2
<1>10. QED
  BY <1>1, <1>6, <1>9 DEF IsFirst

(***************************************************************************)
(* engine.rs (7-8), the whole of it: access is granted exactly when a      *)
(* matching policy allows and no matching policy denies, and a decision to *)
(* allow carries the row filter of a matching Allow that no other matching *)
(* Allow outranks.                                                         *)
(***************************************************************************)
THEOREM CheckDecides ==
  ASSUME NEW list, PolicyList(list), NEW s, NEW r, NEW action
  PROVE  LET M == Matching(list, s, r, action)
             d == Check(list, s, r, action) IN
         /\ d.allowed <=> /\ \E i \in M : list[i].rule.effect = "Allow"
                          /\ \A i \in M : list[i].rule.effect # "Deny"
         /\ d.allowed => \E i \in M :
              /\ list[i].rule.effect = "Allow"
              /\ d.row_filter = list[i].rule.row_filter
              /\ \A j \in M : list[j].rule.priority <= list[i].rule.priority
<1> DEFINE M == Matching(list, s, r, action)
           d == Check(list, s, r, action)
<1>1. M \subseteq DOMAIN list
  BY DEF Matching
<1>2. CASE M = {}
  <2>1. d = Deny(None)
    BY <1>2 DEF Check
  <2>2. ~d.allowed
    BY <2>1 DEF Deny
  <2>3. QED
    BY <2>2, <1>2
<1>3. CASE M # {}
  <2>1. \E i \in M : IsFirst(list, M, i)
    BY <1>1, <1>3, FirstExists
  <2> DEFINE f == CHOOSE i \in M : IsFirst(list, M, i)
  <2>2. f \in M /\ IsFirst(list, M, f)
    BY <2>1
  <2>3. d = Decide(list[f])
    BY <2>1 DEF Check
  <2> HIDE DEF f, d, M
  <2>4. CASE list[f].rule.effect = "Deny"
    <3>1. ~d.allowed
      BY <2>3, <2>4 DEF Decide, Deny
    <3>2. QED
      BY <3>1, <2>2, <2>4 DEF d, M
  <2>5. CASE list[f].rule.effect = "Allow"
    <3>1. d.allowed /\ d.row_filter = list[f].rule.row_filter
      BY <2>3, <2>5 DEF Decide, Allow
    <3>2. ASSUME NEW j \in M
          PROVE  /\ list[j].rule.effect = "Allow"
                 /\ list[j].rule.priority <= list[f].rule.priority
      <4>1. j = f \/ Precedes(list[f], list[j]) \/ ~Precedes(list[j], list[f])
        BY <2>2 DEF IsFirst
      <4>2. /\ list[j].rule.effect \in {"Allow", "Deny"}
            /\ list[j].rule.priority \in Int /\ list[f].rule.priority \in Int
        BY <1>1, <2>2 DEF PolicyList
      <4>3. QED
        BY <4>1, <4>2, <2>5 DEF Precedes, EffectOrd
    <3>3. QED
      BY <3>1, <3>2, <2>2, <2>5 DEF d, M
  <2>6. QED
    BY <2>2, <2>4, <2>5, <1>1 DEF PolicyList
<1>4. QED
  BY <1>2, <1>3

-----------------------------------------------------------------------------
(***************************************************************************)
(* matches_resource, with its strip_suffix, covers what the pattern says   *)
(* as a whole; likewise the other two comparisons.                         *)
(***************************************************************************)
\* What segments are.
Text == STRING \cup {"*"}

LEMMA FrontOf ==
  ASSUME NEW P \in Seq(Text), P # << >>
  PROVE  /\ Front(P) \in Seq(Text) /\ Len(Front(P)) = Len(P) - 1
         /\ \A i \in 1..(Len(P) - 1) : Front(P)[i] = P[i]
         /\ Len(P) \in Nat \ {0}
<1>1. Len(P) \in Nat \ {0} /\ Len(P) - 1 \in 0..Len(P)
  BY EmptySeq
<1> DEFINE n == Len(P) - 1
<1>2. \A i \in 1..n : P[i] \in Text
  BY <1>1, ElementOfSeq
<1>3. n \in Int /\ 1 \in Int /\ n - 1 + 1 = n /\ (IF 1 <= n THEN n - 1 + 1 ELSE 0) = n
  <2>1. n \in Nat
    BY <1>1
  <2> HIDE DEF n
  <2> QED  BY <2>1
<1> HIDE DEF n
<1>4. /\ SubSeq(P, 1, n) \in Seq(Text)
      /\ Len(SubSeq(P, 1, n)) = IF 1 <= n THEN n - 1 + 1 ELSE 0
      /\ \A i \in 1..(n - 1 + 1) : SubSeq(P, 1, n)[i] = P[1 + i - 1]
  BY <1>2, <1>3, SubSeqProperties
<1>5. \A i \in 1..n : 1 + i - 1 = i
  BY <1>3
<1> QED  BY <1>1, <1>3, <1>4, <1>5 DEF Front, n

LEMMA WildConcat ==
  ASSUME NEW ns \in Seq(Text)
  PROVE  /\ ns \o <<"*">> \in Seq(Text) /\ Len(ns \o <<"*">>) = Len(ns) + 1 /\ Len(ns) \in Nat
         /\ \A i \in 1..Len(ns) : (ns \o <<"*">>)[i] = ns[i]
         /\ (ns \o <<"*">>)[Len(ns) + 1] = "*"
<1> DEFINE w == <<"*">>
<1>1. w \in Seq(Text) /\ Len(w) = 1 /\ w[1] = "*"
  <2>1. ASSUME NEW S, NEW e \in S PROVE <<e>> \in Seq(S) /\ Len(<<e>>) = 1 /\ <<e>>[1] = e
    OBVIOUS
  <2>2. "*" \in Text
    BY DEF Text
  <2> QED  BY <2>1, <2>2
<1> HIDE DEF w
<1>2. Len(ns) \in Nat
  OBVIOUS
<1>3. /\ ns \o w \in Seq(Text) /\ Len(ns \o w) = Len(ns) + Len(w)
      /\ \A i \in 1..(Len(ns) + Len(w)) : (ns \o w)[i] = IF i <= Len(ns) THEN ns[i] ELSE w[i - Len(ns)]
  BY <1>1, ConcatProperties
<1>4. (ns \o w)[Len(ns) + 1] = w[1]
  <2>1. Len(ns) + 1 \in 1..(Len(ns) + Len(w)) /\ ~(Len(ns) + 1 <= Len(ns)) /\ Len(ns) + 1 - Len(ns) = 1
    BY <1>1, <1>2
  <2> QED  BY <2>1, <1>3
<1>5. \A i \in 1..Len(ns) : (ns \o w)[i] = ns[i]
  BY <1>1, <1>2, <1>3
<1> QED  BY <1>1, <1>2, <1>3, <1>4, <1>5 DEF w

LEMMA FrontIs ==
  ASSUME NEW P \in Seq(Text), P # << >>, P[Len(P)] = "*", NEW ns \in Seq(Text)
  PROVE  Front(P) = ns <=> P = ns \o <<"*">>
<1> DEFINE n == ns \o <<"*">>
<1>1. /\ n \in Seq(Text) /\ Len(n) = Len(ns) + 1 /\ Len(ns) \in Nat
      /\ (\A i \in 1..Len(ns) : n[i] = ns[i]) /\ n[Len(ns) + 1] = "*"
  BY WildConcat
<1> HIDE DEF n
<1>2. ASSUME Front(P) = ns PROVE P = n
  <2>1. Len(P) = Len(n) /\ Len(P) = Len(ns) + 1
    BY <1>1, <1>2, FrontOf
  <2>2. ASSUME NEW i \in 1..Len(P) PROVE P[i] = n[i]
    <3>1. CASE i = Len(P)
      BY <3>1, <2>1, <1>1
    <3>2. CASE i # Len(P)
      <4>1. i \in 1..Len(ns) /\ i \in 1..(Len(P) - 1)
        BY <3>2, <2>1, <1>1
      <4> QED  BY <4>1, <1>1, <1>2, FrontOf
    <3> QED  BY <3>1, <3>2
  <2> QED  BY <2>1, <2>2, <1>1, SeqEqual
<1>3. ASSUME P = n PROVE Front(P) = ns
  <2>1. Len(P) = Len(ns) + 1 /\ Front(P) \in Seq(Text) /\ Len(Front(P)) = Len(ns)
    BY <1>1, <1>3, FrontOf
  <2>2. \A i \in 1..Len(Front(P)) : Front(P)[i] = ns[i]
    BY <2>1, <1>1, <1>3, FrontOf
  <2> QED  BY <2>1, <2>2, SeqEqual
<1> QED  BY <1>2, <1>3 DEF n

LEMMA CoversIsMatch ==
  ASSUME NEW p, p.rule.resource_pattern \in Seq(STRING) \ {<< >>}, NEW r,
         r.namespace \in Seq(STRING), r.name \in Seq(STRING) \ {<< >>}
  PROVE  MatchesResource(p, r) <=> Covers(p, r)
<1> DEFINE P == p.rule.resource_pattern
           ns == r.namespace
           nm == r.name
           qualified == ns \o nm
<1>1. P \in Seq(Text) /\ P # << >> /\ ns \in Seq(Text) /\ nm \in Seq(Text) /\ nm # << >>
  BY SeqMonotonic DEF Text
<1>2. MatchesResource(p, r) <=> \/ P = <<"*">>
                                \/ IF Len(P) > 1 /\ P[Len(P)] = "*" THEN Front(P) = ns ELSE P = qualified
  BY DEF MatchesResource, Wild, Last
<1>3. Covers(p, r) <=> P = <<"*">> \/ P = ns \o <<"*">> \/ (P = qualified /\ nm[Len(nm)] # "*")
  BY DEF Covers
<1> HIDE DEF P, ns, nm
<1>4. /\ qualified \in Seq(Text) /\ qualified[Len(qualified)] = nm[Len(nm)]
  <2>1. Len(nm) \in Nat \ {0} /\ Len(ns) \in Nat
    BY <1>1, EmptySeq
  <2>2. /\ qualified \in Seq(Text) /\ Len(qualified) = Len(ns) + Len(nm)
        /\ \A i \in 1..(Len(ns) + Len(nm)) :
             qualified[i] = IF i <= Len(ns) THEN ns[i] ELSE nm[i - Len(ns)]
    BY <1>1, ConcatProperties
  <2>3. /\ Len(ns) + Len(nm) \in 1..(Len(ns) + Len(nm)) /\ ~(Len(ns) + Len(nm) <= Len(ns))
        /\ (Len(ns) + Len(nm)) - Len(ns) = Len(nm)
    BY <2>1
  <2> QED  BY <2>2, <2>3
<1> HIDE DEF qualified
<1>5. CASE Len(P) > 1 /\ P[Len(P)] = "*"
  <2>1. Front(P) = ns <=> P = ns \o <<"*">>
    BY <1>1, <1>5, FrontIs
  <2>2. ~(P = qualified /\ nm[Len(nm)] # "*")
    BY <1>4, <1>5
  <2> QED  BY <2>1, <2>2, <1>2, <1>3, <1>5
<1>6. CASE ~(Len(P) > 1 /\ P[Len(P)] = "*")
  <2>1. ASSUME P[Len(P)] = "*" PROVE P = <<"*">>
    <3>1. Len(P) \in Nat \ {0}
      BY <1>1, FrontOf
    <3>2. ~(Len(P) > 1)
      BY <1>6, <2>1
    <3>3. Len(P) = 1
      <4>1. \A n \in Nat \ {0} : ~(n > 1) => n = 1
        OBVIOUS
      <4> QED  BY <3>1, <3>2, <4>1
    <3>4. P[1] = "*"
      BY <3>3, <2>1
    <3> QED  BY <1>1, <3>3, <3>4
  <2>2. P = ns \o <<"*">> => P[Len(P)] = "*"
    BY <1>1, WildConcat
  <2> QED  BY <2>1, <2>2, <1>2, <1>3, <1>4, <1>6
<1> QED  BY <1>5, <1>6

LEMMA AppliesIsMatches ==
  ASSUME NEW p \in Templates, NEW q \in Requests
  PROVE  Matches(p, q[1], q[2], q[3]) <=> AppliesTo(p, q)
<1>1. MatchesResource(p, q[2]) <=> Covers(p, q[2])
  BY PolicyAssumption, CoversIsMatch
<1>2. MatchesSubject(p, q[1]) <=>
        \/ p.subject_type = "user" /\ p.subject_name = "*"
        \/ p.subject_type = "user" /\ p.subject_name = q[1].user_id
        \/ p.subject_type = "group" /\ p.subject_name \in q[1].groups
  BY DEF MatchesSubject, Wild
<1>3. MatchesAction(p, q[3]) <=>
        p.rule.action \in {"*", q[3]} \/ {p.rule.action, q[3]} \subseteq {"SELECT", "select"}
  BY DEF MatchesAction, Folded, Wild
<1> QED  BY <1>1, <1>2, <1>3 DEF Matches, AppliesTo

-----------------------------------------------------------------------------
\* A list holds its policies in some order, and no id twice.
IsList(list) ==
  /\ list \in Seq(Templates)
  /\ \A i, j \in DOMAIN list : list[i].id = list[j].id => i = j

ListInv == IsList(policies)

LEMMA ListIsPolicyList ==
  ASSUME NEW list \in Seq(Templates)
  PROVE  /\ PolicyList(list) /\ DOMAIN list = 1..Len(list) /\ Len(list) \in Nat
         /\ \A i \in DOMAIN list : list[i] \in Templates
<1>1. /\ Len(list) \in Nat /\ DOMAIN list = 1..Len(list)
      /\ \A i \in DOMAIN list : list[i] \in Templates
  BY LenProperties
<1> QED  BY <1>1, PolicyAssumption DEF PolicyList

\* Where an element of the list is after the insertion.
Shift(i, k) == IF k <= i THEN k ELSE k + 1

LEMMA InsertedList ==
  ASSUME NEW list \in Seq(Templates), NEW i \in 0..Len(list), NEW p \in Templates
  PROVE  LET new == Insert(list, i, p) IN
         /\ new \in Seq(Templates) /\ Len(new) = Len(list) + 1
         /\ DOMAIN new = {Shift(i, k) : k \in DOMAIN list} \cup {i + 1}
         /\ \A k \in DOMAIN list : new[Shift(i, k)] = list[k] /\ Shift(i, k) # i + 1
         /\ new[i + 1] = p
<1> DEFINE n == Len(list)
           new == Insert(list, i, p)
<1>1. /\ n \in Nat /\ DOMAIN list = 1..n /\ i \in 0..n
      /\ \A k \in 1..n : list[k] \in Templates
  BY ListIsPolicyList
<1>2. new = [j \in 1..(n + 1) |->
               IF j <= i THEN list[j] ELSE IF j = i + 1 THEN p ELSE list[j - 1]]
  BY DEF Insert
<1> HIDE DEF n, new
<1>3. ASSUME NEW j \in 1..(n + 1) PROVE new[j] \in Templates
  <2>1. CASE j <= i
    BY <1>1, <1>2, <2>1
  <2>2. CASE j = i + 1
    BY <1>1, <1>2, <2>2
  <2>3. CASE j > i + 1
    <3>1. j - 1 \in 1..n /\ ~(j <= i) /\ j # i + 1
      BY <1>1, <2>3
    <3> QED  BY <1>1, <1>2, <3>1
  <2> QED  BY <1>1, <2>1, <2>2, <2>3
<1>4. DOMAIN new = 1..(n + 1) /\ n + 1 \in Nat /\ new = [j \in 1..(n + 1) |-> new[j]]
  BY <1>1, <1>2
<1>5. new \in Seq(Templates) /\ Len(new) = n + 1
  BY <1>3, <1>4
<1>6. ASSUME NEW k \in 1..n
      PROVE  Shift(i, k) \in 1..(n + 1) /\ new[Shift(i, k)] = list[k] /\ Shift(i, k) # i + 1
  <2>1. CASE k <= i
    BY <1>1, <1>2, <2>1 DEF Shift
  <2>2. CASE k > i
    <3>1. Shift(i, k) = k + 1 /\ k + 1 \in 1..(n + 1) /\ ~(k + 1 <= i) /\ k + 1 # i + 1 /\ k + 1 - 1 = k
      BY <1>1, <2>2 DEF Shift
    <3> QED  BY <1>2, <3>1
  <2> QED  BY <1>1, <2>1, <2>2
<1>7. ASSUME NEW j \in 1..(n + 1), j # i + 1 PROVE \E k \in 1..n : j = Shift(i, k)
  <2>1. CASE j <= i
    <3>1. j \in 1..n /\ j = Shift(i, j)
      BY <1>1, <2>1 DEF Shift
    <3> QED  BY <3>1
  <2>2. CASE j > i + 1
    <3>1. j - 1 \in 1..n /\ j = Shift(i, j - 1)
      BY <1>1, <2>2 DEF Shift
    <3> QED  BY <3>1
  <2> QED  BY <1>1, <1>7, <2>1, <2>2
<1>8. i + 1 \in 1..(n + 1) /\ new[i + 1] = p
  BY <1>1, <1>2
<1> QED  BY <1>1, <1>4, <1>5, <1>6, <1>7, <1>8 DEF n, new

\* The sort leaves one policy to come first.
LEMMA FirstUnique ==
  ASSUME NEW list, PolicyList(list), NEW M, M \subseteq DOMAIN list,
         NEW f, IsFirst(list, M, f), NEW g, IsFirst(list, M, g)
  PROVE  f = g
<1>1. /\ f \in M /\ g \in M /\ f \in Nat /\ g \in Nat
      /\ list[f].rule.priority \in Int /\ list[g].rule.priority \in Int
  BY DEF IsFirst, PolicyList
<1>2. ~(Precedes(list[f], list[g]) /\ Precedes(list[g], list[f]))
  BY <1>1 DEF Precedes, EffectOrd
<1>3. f # g => Precedes(list[f], list[g]) \/ (f < g /\ ~Precedes(list[g], list[f]))
  BY <1>1 DEF IsFirst
<1>4. f # g => Precedes(list[g], list[f]) \/ (g < f /\ ~Precedes(list[f], list[g]))
  BY <1>1 DEF IsFirst
<1> QED  BY <1>1, <1>2, <1>3, <1>4

LEMMA CheckByFirst ==
  ASSUME NEW list, PolicyList(list), NEW q,
         NEW f, IsFirst(list, Matching(list, q[1], q[2], q[3]), f)
  PROVE  Decision(list, q) = Decide(list[f])
<1> DEFINE M == Matching(list, q[1], q[2], q[3])
           g == CHOOSE i \in M : IsFirst(list, M, i)
<1>1. f \in M /\ M \subseteq DOMAIN list
  BY DEF IsFirst, Matching
<1>2. IsFirst(list, M, g)
  BY <1>1
<1>3. g = f
  BY <1>1, <1>2, FirstUnique
<1>4. Decision(list, q) = Decide(list[g])
  BY <1>1 DEF Decision, Check
<1> QED  BY <1>3, <1>4

(***************************************************************************)
(* A new policy that does not match, or is a weaker Allow than the one     *)
(* that decides, does not come first.                                      *)
(***************************************************************************)
LEMMA InsertKeepsFirst ==
  ASSUME NEW list \in Seq(Templates), NEW i \in 0..Len(list), NEW p \in Templates, NEW q,
         NEW f, IsFirst(list, Matching(list, q[1], q[2], q[3]), f),
         Matches(p, q[1], q[2], q[3]) => Precedes(list[f], p)
  PROVE  Decision(Insert(list, i, p), q) = Decision(list, q)
<1> DEFINE new == Insert(list, i, p)
           M   == Matching(list, q[1], q[2], q[3])
           N   == Matching(new, q[1], q[2], q[3])
<1>1. /\ PolicyList(list) /\ DOMAIN list = 1..Len(list) /\ Len(list) \in Nat
  BY ListIsPolicyList
<1>2. /\ new \in Seq(Templates)
      /\ DOMAIN new = {Shift(i, k) : k \in DOMAIN list} \cup {i + 1}
      /\ \A k \in DOMAIN list : new[Shift(i, k)] = list[k] /\ Shift(i, k) # i + 1
      /\ new[i + 1] = p
  BY InsertedList
<1>3. PolicyList(new)
  BY <1>2, ListIsPolicyList
<1> HIDE DEF new
<1>4. f \in M /\ M \subseteq DOMAIN list /\ f \in DOMAIN list
  BY DEF IsFirst, Matching
<1>5. Shift(i, f) \in N
  BY <1>2, <1>4 DEF Matching
<1>6. ASSUME NEW j \in N \ {Shift(i, f)}
      PROVE  \/ Precedes(new[Shift(i, f)], new[j])
             \/ Shift(i, f) < j /\ ~Precedes(new[j], new[Shift(i, f)])
  <2>1. j \in DOMAIN new /\ Matches(new[j], q[1], q[2], q[3])
    BY DEF Matching
  <2>2. CASE j = i + 1
    BY <2>1, <2>2, <1>2, <1>4
  <2>3. CASE j # i + 1
    <3>1. PICK k \in DOMAIN list : j = Shift(i, k)
      BY <2>1, <2>3, <1>2
    <3>2. k \in M /\ k # f
      BY <2>1, <3>1, <1>2 DEF Matching
    <3>3. Precedes(list[f], list[k]) \/ (f < k /\ ~Precedes(list[k], list[f]))
      BY <3>2 DEF IsFirst
    <3>4. f < k => Shift(i, f) < Shift(i, k)
      BY <1>1, <1>4 DEF Shift
    <3> QED  BY <3>1, <3>3, <3>4, <1>2, <1>4
  <2> QED  BY <2>2, <2>3
<1>7. IsFirst(new, N, Shift(i, f))
  BY <1>5, <1>6 DEF IsFirst
<1>8. Decision(new, q) = Decide(new[Shift(i, f)])
  BY <1>3, <1>7, CheckByFirst
<1>9. Decision(list, q) = Decide(list[f])
  BY <1>1, CheckByFirst
<1> QED  BY <1>2, <1>4, <1>8, <1>9 DEF new

\* Who decided, from the decision.
LEMMA AllowedByFirst ==
  ASSUME NEW list, PolicyList(list), NEW q, Decision(list, q).allowed
  PROVE  \E f \in DOMAIN list :
           /\ IsFirst(list, Matching(list, q[1], q[2], q[3]), f)
           /\ f \in Matching(list, q[1], q[2], q[3])
           /\ Decision(list, q) = Decide(list[f]) /\ list[f].rule.effect = "Allow"
<1> DEFINE M == Matching(list, q[1], q[2], q[3])
<1>1. PICK f \in M : IsFirst(list, M, f)
  BY DEF Decision, Check, Deny
<1>2. Decision(list, q) = Decide(list[f])
  BY <1>1, CheckByFirst
<1>3. f \in DOMAIN list
  BY DEF Matching
<1>4. list[f].rule.effect # "Deny"
  BY <1>2 DEF Decide, Deny
<1> QED  BY <1>1, <1>2, <1>3, <1>4 DEF PolicyList

\* What a list is after the insertion of a policy.
LEMMA AddInserts ==
  ASSUME ListInv, NEW p \in Templates, Add(p)
  PROVE  \E i \in 0..Len(policies) :
           /\ policies' = Insert(policies, i, p) /\ policies' \in Seq(Templates)
           /\ DOMAIN policies' = {Shift(i, k) : k \in DOMAIN policies} \cup {i + 1}
           /\ \A k \in DOMAIN policies : policies'[Shift(i, k)] = policies[k] /\ Shift(i, k) # i + 1
           /\ policies'[i + 1] = p
<1>1. PICK i \in 0..Len(policies) : policies' = Insert(policies, i, p)
  BY DEF Add
<1> DEFINE new == Insert(policies, i, p)
<1>2. policies \in Seq(Templates)
  BY DEF ListInv, IsList
<1>3. /\ new \in Seq(Templates)
      /\ DOMAIN new = {Shift(i, k) : k \in DOMAIN policies} \cup {i + 1}
      /\ \A k \in DOMAIN policies : new[Shift(i, k)] = policies[k] /\ Shift(i, k) # i + 1
      /\ new[i + 1] = p
  BY <1>2, InsertedList
<1> HIDE DEF new
<1>4. policies' = new
  BY <1>1 DEF new
<1> QED  BY <1>1, <1>3, <1>4

LEMMA StepListInv ==
  ASSUME ListInv, NEW p \in Templates, Add(p)
  PROVE  ListInv'
<1>1. PICK i \in 0..Len(policies) :
        /\ policies' \in Seq(Templates)
        /\ DOMAIN policies' = {Shift(i, k) : k \in DOMAIN policies} \cup {i + 1}
        /\ \A k \in DOMAIN policies : policies'[Shift(i, k)] = policies[k] /\ Shift(i, k) # i + 1
        /\ policies'[i + 1] = p
  BY AddInserts
<1>2. /\ \A j, k \in DOMAIN policies : policies[j].id = policies[k].id => j = k
      /\ \A j \in DOMAIN policies : policies[j].id # p.id
  BY DEF ListInv, IsList, Add
<1>3. ASSUME NEW j \in DOMAIN policies', NEW k \in DOMAIN policies', policies'[j].id = policies'[k].id
      PROVE  j = k
  BY <1>1, <1>2, <1>3
<1> QED  BY <1>1, <1>3 DEF ListInv, IsList

LEMMA ListSafety == Spec => []ListInv
<1>1. Init => ListInv
  BY DEF Init, ListInv, IsList
<1>2. ListInv /\ [Next]_policies => ListInv'
  BY StepListInv DEF Next, ListInv
<1> QED  BY <1>1, <1>2, PTL DEF Spec

(***************************************************************************)
(* The engine decides as its documentation says (engine.rs (3-8)), of any  *)
(* policies in any order: filter, sort and first() do what a reading of    *)
(* whole patterns and sets of policies does.                               *)
(***************************************************************************)
THEOREM EngineDecidesAsPromised == Spec => []DecisionMatchesReference
<1>1. ASSUME ListInv, NEW q \in Requests
      PROVE  LET d == Decision(policies, q)
                 allows == Applying(q, "Allow") IN
             /\ d.allowed <=> Applying(q, "Deny") = {} /\ allows # {}
             /\ d.allowed => \E p \in allows :
                  /\ d.by = p.id /\ d.row_filter = p.rule.row_filter
                  /\ \A o \in allows : o.rule.priority <= p.rule.priority
             /\ ~d.allowed => d.row_filter = None
  <2> DEFINE M == Matching(policies, q[1], q[2], q[3])
             d == Decision(policies, q)
  <2>1. PolicyList(policies) /\ \A i \in DOMAIN policies : policies[i] \in Templates
    BY <1>1, ListIsPolicyList DEF ListInv, IsList
  <2>2. M = {i \in DOMAIN policies : AppliesTo(policies[i], q)}
    BY <2>1, AppliesIsMatches DEF Matching
  <2>3. /\ d.allowed <=> /\ \E i \in M : policies[i].rule.effect = "Allow"
                         /\ \A i \in M : policies[i].rule.effect # "Deny"
        /\ d.allowed => \E i \in M :
             /\ policies[i].rule.effect = "Allow"
             /\ \A j \in M : policies[j].rule.priority <= policies[i].rule.priority
    BY <2>1, CheckDecides DEF Decision
  <2>4. ~d.allowed => d.row_filter = None
    BY DEF Decision, Check, Decide, Allow, Deny
  <2>5. ASSUME d.allowed
        PROVE  \E p \in Applying(q, "Allow") :
                 /\ d.by = p.id /\ d.row_filter = p.rule.row_filter
                 /\ \A o \in Applying(q, "Allow") : o.rule.priority <= p.rule.priority
    <3>1. PICK f \in DOMAIN policies : /\ IsFirst(policies, M, f) /\ f \in M
                                      /\ d = Decide(policies[f]) /\ policies[f].rule.effect = "Allow"
      BY <2>1, <2>5, AllowedByFirst
    <3>2. policies[f] \in Applying(q, "Allow")
      BY <2>2, <3>1 DEF Applying
    <3>3. d.by = policies[f].id /\ d.row_filter = policies[f].rule.row_filter
      BY <3>1 DEF Decide, Allow
    <3>4. ASSUME NEW o \in Applying(q, "Allow") PROVE o.rule.priority <= policies[f].rule.priority
      <4>1. PICK j \in M : o = policies[j] /\ policies[j].rule.effect = "Allow"
        BY <2>2 DEF Applying
      <4>2. j = f \/ Precedes(policies[f], policies[j]) \/ ~Precedes(policies[j], policies[f])
        BY <3>1 DEF IsFirst
      <4>3. policies[j].rule.priority \in Int /\ policies[f].rule.priority \in Int
        BY <2>1, <2>2 DEF PolicyList
      <4> QED  BY <4>1, <4>2, <4>3, <3>1 DEF Precedes, EffectOrd
    <3> QED  BY <3>2, <3>3, <3>4
  <2>6. /\ (\E i \in M : policies[i].rule.effect = "Allow") <=> Applying(q, "Allow") # {}
        /\ (\A i \in M : policies[i].rule.effect # "Deny") <=> Applying(q, "Deny") = {}
    BY <2>2 DEF Applying
  <2> QED  BY <2>3, <2>4, <2>5, <2>6
<1>2. ListInv => DecisionMatchesReference
  BY <1>1 DEF DecisionMatchesReference
<1> QED  BY <1>2, ListSafety, PTL

(***************************************************************************)
(* A row filter in force is lifted or replaced only by an Allow of at      *)
(* least the same priority, wherever the new policy lands in the list.     *)
(***************************************************************************)
THEOREM RowFiltersOutlive == Spec => RowFilterOutlivesWeakerPolicies
<1> DEFINE Claim(p, q) ==
      LET before == Decision(policies, q)
          after  == Decision(policies', q)
          decider == CHOOSE i \in DOMAIN policies : policies[i].id = before.by IN
      before.allowed /\ after.allowed /\ after # before =>
        /\ p.rule.effect = "Allow"
        /\ p.rule.priority >= policies[decider].rule.priority
<1>1. ASSUME ListInv, NEW p \in Templates, Add(p), NEW q \in Requests
      PROVE  Claim(p, q)
  <2> DEFINE before == Decision(policies, q)
             after  == Decision(policies', q)
             decider == CHOOSE i \in DOMAIN policies : policies[i].id = before.by
  <2> SUFFICES ASSUME before.allowed, after.allowed, after # before
               PROVE  p.rule.effect = "Allow" /\ p.rule.priority >= policies[decider].rule.priority
    OBVIOUS
  <2>1. PICK i \in 0..Len(policies) :
          /\ policies' = Insert(policies, i, p) /\ policies' \in Seq(Templates)
          /\ i + 1 \in DOMAIN policies' /\ policies'[i + 1] = p
    BY <1>1, AddInserts
  <2>2. /\ policies \in Seq(Templates) /\ PolicyList(policies)
        /\ \A j, k \in DOMAIN policies : policies[j].id = policies[k].id => j = k
    BY <1>1, ListIsPolicyList DEF ListInv, IsList
  <2>3. PICK f \in DOMAIN policies :
          /\ IsFirst(policies, Matching(policies, q[1], q[2], q[3]), f)
          /\ before = Decide(policies[f]) /\ policies[f].rule.effect = "Allow"
    BY <2>2, AllowedByFirst
  <2>4. decider = f
    <3>1. before.by = policies[f].id
      BY <2>3 DEF Decide, Allow
    <3> QED  BY <2>2, <2>3, <3>1
  <2>5. Matches(p, q[1], q[2], q[3]) /\ ~Precedes(policies[f], p)
    BY <2>1, <2>2, <2>3, InsertKeepsFirst
  <2>6. p.rule.effect = "Allow"
    <3>1. i + 1 \in Matching(policies', q[1], q[2], q[3])
      BY <2>1, <2>5 DEF Matching
    <3>2. PolicyList(policies')
      BY <2>1, ListIsPolicyList
    <3>3. p.rule.effect # "Deny"
      BY <2>1, <3>1, <3>2, CheckDecides DEF Decision
    <3> QED  BY <3>3, PolicyAssumption
  <2>7. p.rule.priority \in Int /\ policies[f].rule.priority \in Int
    BY <2>2, PolicyAssumption DEF PolicyList
  <2>8. p.rule.priority >= policies[f].rule.priority
    BY <2>3, <2>5, <2>6, <2>7 DEF Precedes, EffectOrd
  <2> HIDE DEF decider
  <2> QED  BY <2>4, <2>6, <2>8
<1>2. ListInv /\ [Next]_policies => [\A p \in Templates : Add(p) => \A q \in Requests : Claim(p, q)]_policies
  BY <1>1
<1> QED  BY <1>2, ListSafety, PTL DEF Spec, RowFilterOutlivesWeakerPolicies
=============================================================================
