--------------------------- MODULE RemoteScanProofs ---------------------------
(***************************************************************************)
(* Proofs about RemoteScan and Pushdown, for any expressions, plans,       *)
(* executors, ports and contents of their files.                           *)
(***************************************************************************)
EXTENDS RemoteScan, ExecutorProofs, WellFoundedInduction, FiniteSetTheorems, TLAPS

(***************************************************************************)
(* Induction on expressions.                                               *)
(***************************************************************************)
LEMMA NatLeast ==
  ASSUME NEW T, T \subseteq Nat, T # {}
  PROVE  \E n \in T : \A m \in T : n <= m
<1> DEFINE R == {ss \in Nat \X Nat : ss[1] < ss[2]}
<1>1. IsWellFoundedOn(R, Nat)
  BY NatLessThanWellFounded DEF OpToRel
<1> HIDE DEF R
<1>2. PICK n \in T : \A m \in T : ~(<<m, n>> \in R)
  BY <1>1, WFMin
<1>3. ASSUME NEW m \in T PROVE n <= m
  <2>1. n \in Nat /\ m \in Nat
    OBVIOUS
  <2>2. ~(<<m, n>> \in R)
    BY <1>2
  <2>3. ~(m < n)
    BY <2>1, <2>2 DEF R
  <2> QED  BY <2>1, <2>3
<1> QED  BY <1>2, <1>3

\* A set that holds an expression whenever it holds its operands holds them all.
LEMMA ExprInduction ==
  ASSUME NEW T, \A e \in Exprs : (\A p \in Parts(e) : p \in T) => e \in T
  PROVE  Exprs \subseteq T
<1> DEFINE left   == Exprs \ T
           depths == {Depth[e] : e \in left}
<1>1. SUFFICES ASSUME left # {} PROVE FALSE
  OBVIOUS
<1>2. /\ Depth \in [Exprs -> Nat]
      /\ \A e \in Exprs : \A p \in Parts(e) : p \in Exprs /\ Depth[p] < Depth[e]
  BY ExprAssumption
<1>3. depths \subseteq Nat /\ depths # {}
  BY <1>1, <1>2
<1>4. PICK n \in depths : \A m \in depths : n <= m
  <2> HIDE DEF depths
  <2> QED  BY <1>3, NatLeast
<1>5. PICK e \in left : Depth[e] = n
  OBVIOUS
<1>6. ASSUME NEW p \in Parts(e) PROVE p \in T
  <2>1. p \in Exprs /\ Depth[p] < n /\ Depth[p] \in Nat /\ n \in Nat
    BY <1>2, <1>5
  <2>2. Depth[p] \notin depths
    <3> HIDE DEF depths
    <3> QED  BY <2>1, <1>4
  <2> QED  BY <2>1, <2>2
<1> QED  BY <1>5, <1>6

-----------------------------------------------------------------------------
(***************************************************************************)
(* ExprToSql and Within are what their recursive definitions say, since an *)
(* expression is deeper than its operands: there is a function up to each  *)
(* depth, any two agree where both are defined, and together they make one *)
(* for all expressions.                                                    *)
(***************************************************************************)
Below(n) == {e \in Exprs : Depth[e] < n}

LEMMA BelowClosed ==
  ASSUME NEW n \in Nat, NEW e \in Below(n), NEW p \in Parts(e)
  PROVE  p \in Below(n) /\ (n # 0 => p \in Below(n - 1))
BY ExprAssumption DEF Below

-----------------------------------------------------------------------------
\* expr_to_sql.
LEMMA SqlLocal ==
  ASSUME NEW e \in Exprs, NEW f, NEW g, \A p \in Parts(e) : f[p] = g[p]
  PROVE  SqlText(f, e) = SqlText(g, e)
BY DEF SqlText, Parts

LEMMA SqlAgree ==
  ASSUME NEW m \in Nat, NEW n \in Nat, NEW f, NEW g,
         f = [e \in Below(m) |-> SqlText(f, e)], g = [e \in Below(n) |-> SqlText(g, e)]
  PROVE  \A e \in Below(m) : e \in Below(n) => f[e] = g[e]
<1> DEFINE T == {e \in Exprs : e \in Below(m) /\ e \in Below(n) => f[e] = g[e]}
<1>1. ASSUME NEW e \in Exprs, \A p \in Parts(e) : p \in T, e \in Below(m), e \in Below(n)
      PROVE  f[e] = g[e]
  <2>1. \A p \in Parts(e) : f[p] = g[p]
    BY <1>1, BelowClosed
  <2>2. f[e] = SqlText(f, e) /\ g[e] = SqlText(g, e)
    BY <1>1
  <2> QED  BY <2>1, <2>2, SqlLocal
<1>2. \A e \in Exprs : (\A p \in Parts(e) : p \in T) => e \in T
  BY <1>1
<1>3. Exprs \subseteq T
  <2> HIDE DEF T
  <2> QED  BY <1>2, ExprInduction
<1> QED  BY <1>3 DEF Below

LEMMA SqlUpTo ==
  ASSUME NEW n \in Nat
  PROVE  \E f : f = [e \in Below(n) |-> SqlText(f, e)]
<1> DEFINE Done == {k \in Nat : \E f : f = [e \in Below(k) |-> SqlText(f, e)]}
           open == Nat \ Done
<1>1. ASSUME open # {} PROVE FALSE
  <2>1. PICK k \in open : \A j \in open : k <= j
    <3>1. open \subseteq Nat
      OBVIOUS
    <3> HIDE DEF open
    <3> QED  BY <1>1, <3>1, NatLeast
  <2>2. CASE k = 0
    <3> DEFINE f == [e \in Below(0) |-> SqlText(<< >>, e)]
    <3>1. Below(0) = {}
      BY ExprAssumption DEF Below
    <3>2. f = [e \in Below(0) |-> SqlText(f, e)]
      BY <3>1
    <3> QED  BY <2>1, <2>2, <3>2
  <2>3. CASE k # 0
    <3>1. k - 1 \in Nat /\ k - 1 < k /\ k \in Nat
      BY <2>3
    <3>2. k - 1 \in Done
      BY <2>1, <3>1
    <3>3. PICK f : f = [e \in Below(k - 1) |-> SqlText(f, e)]
      BY <3>2
    <3> DEFINE g == [e \in Below(k) |-> SqlText(f, e)]
    <3>4. ASSUME NEW e \in Below(k) PROVE SqlText(f, e) = SqlText(g, e)
      <4>1. ASSUME NEW p \in Parts(e) PROVE f[p] = g[p]
        <5>1. p \in Below(k - 1) /\ p \in Below(k)
          BY <3>1, BelowClosed
        <5>2. f[p] = SqlText(f, p)
          BY <3>3, <5>1
        <5> QED  BY <5>1, <5>2
      <4> HIDE DEF g
      <4>2. e \in Exprs
        BY DEF Below
      <4> QED  BY <4>1, <4>2, SqlLocal
    <3>5. g = [e \in Below(k) |-> SqlText(g, e)]
      <4>1. \A e \in Below(k) : g[e] = SqlText(f, e)
        OBVIOUS
      <4>2. g = [e \in Below(k) |-> g[e]]
        OBVIOUS
      <4> HIDE DEF g
      <4> QED  BY <4>1, <4>2, <3>4
    <3> QED  BY <2>1, <3>5
  <2> QED  BY <2>2, <2>3
<1> QED  BY <1>1

LEMMA SqlEquation == ExprToSql = [e \in Exprs |-> SqlText(ExprToSql, e)]
<1> DEFINE F == [n \in Nat |-> CHOOSE f : f = [e \in Below(n) |-> SqlText(f, e)]]
           h == [e \in Exprs |-> F[Depth[e] + 1][e]]
<1>1. ASSUME NEW n \in Nat PROVE F[n] = [e \in Below(n) |-> SqlText(F[n], e)]
  BY SqlUpTo
<1>2. ASSUME NEW e \in Exprs PROVE h[e] = SqlText(h, e)
  <2> DEFINE n == Depth[e] + 1
  <2>1. n \in Nat /\ e \in Below(n)
    BY ExprAssumption DEF Below
  <2> HIDE DEF F
  <2>2. h[e] = F[n][e] /\ F[n][e] = SqlText(F[n], e)
    BY <1>1, <2>1
  <2>3. ASSUME NEW p \in Parts(e) PROVE h[p] = F[n][p]
    <3>1. p \in Exprs /\ Depth[p] + 1 \in Nat /\ p \in Below(Depth[p] + 1) /\ p \in Below(n)
      BY ExprAssumption DEF Below
    <3>2. F[Depth[p] + 1] = [x \in Below(Depth[p] + 1) |-> SqlText(F[Depth[p] + 1], x)]
          /\ F[n] = [x \in Below(n) |-> SqlText(F[n], x)]
      BY <1>1, <2>1, <3>1
    <3>3. F[Depth[p] + 1][p] = F[n][p]
      BY <2>1, <3>1, <3>2, SqlAgree
    <3> QED  BY <3>1, <3>3
  <2> HIDE DEF h, n
  <2>4. SqlText(h, e) = SqlText(F[n], e)
    BY <2>3, SqlLocal
  <2> QED  BY <2>2, <2>4
<1>3. h = [e \in Exprs |-> SqlText(h, e)]
  <2>1. h = [e \in Exprs |-> h[e]]
    OBVIOUS
  <2> HIDE DEF h
  <2> QED  BY <1>2, <2>1
<1> HIDE DEF h
<1>4. \E f : f = [e \in Exprs |-> SqlText(f, e)]
  BY <1>3
<1>5. ExprToSql = CHOOSE f : f = [e \in Exprs |-> SqlText(f, e)]
  BY DEF ExprToSql
<1> QED  BY <1>4, <1>5, Zenon

-----------------------------------------------------------------------------
\* The parts of an expression.
WithinOf(within, e) == {e} \cup UNION {within[p] : p \in Parts(e)}

LEMMA WithinLocal ==
  ASSUME NEW e \in Exprs, NEW f, NEW g, \A p \in Parts(e) : f[p] = g[p]
  PROVE  WithinOf(f, e) = WithinOf(g, e)
BY DEF WithinOf

LEMMA WithinAgree ==
  ASSUME NEW m \in Nat, NEW n \in Nat, NEW f, NEW g,
         f = [e \in Below(m) |-> WithinOf(f, e)], g = [e \in Below(n) |-> WithinOf(g, e)]
  PROVE  \A e \in Below(m) : e \in Below(n) => f[e] = g[e]
<1> DEFINE T == {e \in Exprs : e \in Below(m) /\ e \in Below(n) => f[e] = g[e]}
<1>1. ASSUME NEW e \in Exprs, \A p \in Parts(e) : p \in T, e \in Below(m), e \in Below(n)
      PROVE  f[e] = g[e]
  <2>1. \A p \in Parts(e) : f[p] = g[p]
    BY <1>1, BelowClosed
  <2>2. f[e] = WithinOf(f, e) /\ g[e] = WithinOf(g, e)
    BY <1>1
  <2> QED  BY <2>1, <2>2, WithinLocal
<1>2. \A e \in Exprs : (\A p \in Parts(e) : p \in T) => e \in T
  BY <1>1
<1>3. Exprs \subseteq T
  <2> HIDE DEF T
  <2> QED  BY <1>2, ExprInduction
<1> QED  BY <1>3 DEF Below

LEMMA WithinUpTo ==
  ASSUME NEW n \in Nat
  PROVE  \E f : f = [e \in Below(n) |-> WithinOf(f, e)]
<1> DEFINE Done == {k \in Nat : \E f : f = [e \in Below(k) |-> WithinOf(f, e)]}
           open == Nat \ Done
<1>1. ASSUME open # {} PROVE FALSE
  <2>1. PICK k \in open : \A j \in open : k <= j
    <3>1. open \subseteq Nat
      OBVIOUS
    <3> HIDE DEF open
    <3> QED  BY <1>1, <3>1, NatLeast
  <2>2. CASE k = 0
    <3> DEFINE f == [e \in Below(0) |-> WithinOf(<< >>, e)]
    <3>1. Below(0) = {}
      BY ExprAssumption DEF Below
    <3>2. f = [e \in Below(0) |-> WithinOf(f, e)]
      BY <3>1
    <3> QED  BY <2>1, <2>2, <3>2
  <2>3. CASE k # 0
    <3>1. k - 1 \in Nat /\ k - 1 < k /\ k \in Nat
      BY <2>3
    <3>2. k - 1 \in Done
      BY <2>1, <3>1
    <3>3. PICK f : f = [e \in Below(k - 1) |-> WithinOf(f, e)]
      BY <3>2
    <3> DEFINE g == [e \in Below(k) |-> WithinOf(f, e)]
    <3>4. ASSUME NEW e \in Below(k) PROVE WithinOf(f, e) = WithinOf(g, e)
      <4>1. ASSUME NEW p \in Parts(e) PROVE f[p] = g[p]
        <5>1. p \in Below(k - 1) /\ p \in Below(k)
          BY <3>1, BelowClosed
        <5>2. f[p] = WithinOf(f, p)
          BY <3>3, <5>1
        <5> QED  BY <5>1, <5>2
      <4> HIDE DEF g
      <4>2. e \in Exprs
        BY DEF Below
      <4> QED  BY <4>1, <4>2, WithinLocal
    <3>5. g = [e \in Below(k) |-> WithinOf(g, e)]
      <4>1. \A e \in Below(k) : g[e] = WithinOf(f, e)
        OBVIOUS
      <4>2. g = [e \in Below(k) |-> g[e]]
        OBVIOUS
      <4> HIDE DEF g
      <4> QED  BY <4>1, <4>2, <3>4
    <3> QED  BY <2>1, <3>5
  <2> QED  BY <2>2, <2>3
<1> QED  BY <1>1

LEMMA WithinEquation == Within = [e \in Exprs |-> WithinOf(Within, e)]
<1> DEFINE F == [n \in Nat |-> CHOOSE f : f = [e \in Below(n) |-> WithinOf(f, e)]]
           h == [e \in Exprs |-> F[Depth[e] + 1][e]]
<1>1. ASSUME NEW n \in Nat PROVE F[n] = [e \in Below(n) |-> WithinOf(F[n], e)]
  BY WithinUpTo
<1>2. ASSUME NEW e \in Exprs PROVE h[e] = WithinOf(h, e)
  <2> DEFINE n == Depth[e] + 1
  <2>1. n \in Nat /\ e \in Below(n)
    BY ExprAssumption DEF Below
  <2> HIDE DEF F
  <2>2. h[e] = F[n][e] /\ F[n][e] = WithinOf(F[n], e)
    BY <1>1, <2>1
  <2>3. ASSUME NEW p \in Parts(e) PROVE h[p] = F[n][p]
    <3>1. p \in Exprs /\ Depth[p] + 1 \in Nat /\ p \in Below(Depth[p] + 1) /\ p \in Below(n)
      BY ExprAssumption DEF Below
    <3>2. F[Depth[p] + 1] = [x \in Below(Depth[p] + 1) |-> WithinOf(F[Depth[p] + 1], x)]
          /\ F[n] = [x \in Below(n) |-> WithinOf(F[n], x)]
      BY <1>1, <2>1, <3>1
    <3>3. F[Depth[p] + 1][p] = F[n][p]
      BY <2>1, <3>1, <3>2, WithinAgree
    <3> QED  BY <3>1, <3>3
  <2> HIDE DEF h, n
  <2>4. WithinOf(h, e) = WithinOf(F[n], e)
    BY <2>3, WithinLocal
  <2> QED  BY <2>2, <2>4
<1>3. h = [e \in Exprs |-> WithinOf(h, e)]
  <2>1. h = [e \in Exprs |-> h[e]]
    OBVIOUS
  <2> HIDE DEF h
  <2> QED  BY <1>2, <2>1
<1> HIDE DEF h
<1>4. \E f : f = [e \in Exprs |-> WithinOf(f, e)]
  BY <1>3
<1>5. Within = CHOOSE f : f = [e \in Exprs |-> WithinOf(f, e)]
  BY DEF Within, WithinOf
<1> QED  BY <1>4, <1>5, Zenon

-----------------------------------------------------------------------------
(***************************************************************************)
(* What a text says.                                                       *)
(***************************************************************************)
LEMMA TextOf ==
  ASSUME NEW e \in Exprs
  PROVE  /\ ExprToSql[e] = SqlText(ExprToSql, e)
         /\ Within[e] = {e} \cup UNION {Within[p] : p \in Parts(e)}
         /\ ExprToSql[e] # None => ExprToSql[e] \in Exprs
         /\ \A p \in Parts(e) : p \in Exprs
<1>1. ExprToSql[e] = SqlText(ExprToSql, e)
  BY SqlEquation
<1>2. Within[e] = {e} \cup UNION {Within[p] : p \in Parts(e)}
  BY WithinEquation DEF WithinOf
<1>3. \A p \in Parts(e) : p \in Exprs
  BY ExprAssumption
<1> QED  BY <1>1, <1>2, <1>3, TextAssumption

\* The text of an operator is that operator on the texts of its operands.
LEMMA TextOfBin ==
  ASSUME NEW e \in Exprs, e.kind = "bin", ExprToSql[e] # None
  PROVE  /\ e.left \in Exprs /\ e.right \in Exprs /\ e = Bin(e.op, e.left, e.right)
         /\ ExprToSql[e.left] # None /\ ExprToSql[e.right] # None
         /\ ExprToSql[e] = Bin(e.op, ExprToSql[e.left], ExprToSql[e.right])
         /\ Within[e] = {e} \cup Within[e.left] \cup Within[e.right]
         /\ Within[ExprToSql[e]]
              = {ExprToSql[e]} \cup Within[ExprToSql[e.left]] \cup Within[ExprToSql[e.right]]
<1>1. Parts(e) = {e.left, e.right}
  BY DEF Parts
<1>2. e.left \in Exprs /\ e.right \in Exprs /\ e = Bin(e.op, e.left, e.right)
  BY <1>1, ExprAssumption
<1>3. /\ ExprToSql[e.left] # None /\ ExprToSql[e.right] # None
      /\ ExprToSql[e] = Bin(e.op, ExprToSql[e.left], ExprToSql[e.right])
  BY TextOf DEF SqlText
<1> DEFINE text == ExprToSql[e]
<1>4. text \in Exprs
  BY TextOf
<1>5. Parts(text) = {ExprToSql[e.left], ExprToSql[e.right]}
  BY <1>3 DEF Parts, Bin
<1>6. /\ Within[e] = {e} \cup UNION {Within[p] : p \in Parts(e)}
      /\ Within[text] = {text} \cup UNION {Within[p] : p \in Parts(text)}
  BY <1>4, TextOf
<1>7. \A a, b : UNION {Within[p] : p \in {a, b}} = Within[a] \cup Within[b]
  OBVIOUS
<1>8. Within[e] = {e} \cup Within[e.left] \cup Within[e.right]
  BY <1>1, <1>6, <1>7
<1>9. Within[text] = {text} \cup Within[ExprToSql[e.left]] \cup Within[ExprToSql[e.right]]
  BY <1>5, <1>6, <1>7
<1> QED  BY <1>2, <1>3, <1>8, <1>9

LEMMA TextOfNot ==
  ASSUME NEW e \in Exprs, e.kind = "not", ExprToSql[e] # None
  PROVE  /\ e.inner \in Exprs /\ e = Not(e.inner)
         /\ ExprToSql[e.inner] # None /\ ExprToSql[e] = Not(ExprToSql[e.inner])
         /\ Within[e] = {e} \cup Within[e.inner]
         /\ Within[ExprToSql[e]] = {ExprToSql[e]} \cup Within[ExprToSql[e.inner]]
<1>1. Parts(e) = {e.inner}
  BY DEF Parts
<1>2. e.inner \in Exprs /\ e = Not(e.inner)
  BY <1>1, ExprAssumption
<1>3. ExprToSql[e.inner] # None /\ ExprToSql[e] = Not(ExprToSql[e.inner])
  BY TextOf DEF SqlText
<1> DEFINE text == ExprToSql[e]
<1>4. text \in Exprs
  BY TextOf
<1>5. Parts(text) = {ExprToSql[e.inner]}
  BY <1>3 DEF Parts, Not
<1>6. /\ Within[e] = {e} \cup UNION {Within[p] : p \in Parts(e)}
      /\ Within[text] = {text} \cup UNION {Within[p] : p \in Parts(text)}
  BY <1>4, TextOf
<1>7. \A a : UNION {Within[p] : p \in {a}} = Within[a]
  OBVIOUS
<1>8. Within[e] = {e} \cup Within[e.inner]
  BY <1>1, <1>6, <1>7
<1>9. Within[text] = {text} \cup Within[ExprToSql[e.inner]]
  BY <1>5, <1>6, <1>7
<1> QED  BY <1>2, <1>3, <1>8, <1>9

LEMMA TextOfLeaf ==
  ASSUME NEW e \in Exprs, e.kind \notin {"bin", "not"}, ExprToSql[e] # None
  PROVE  /\ Within[e] = {e} /\ ExprToSql[e] \in Within[ExprToSql[e]]
         /\ e.kind = "str" => ExprToSql[e] = Reading[e.value]
         /\ e.kind # "str" => ExprToSql[e] = e
<1>1. Parts(e) = {}
  BY DEF Parts
<1>2. Within[e] = {e} /\ ExprToSql[e] \in Within[ExprToSql[e]]
  BY <1>1, TextOf
<1>3. /\ e.kind = "str" => ExprToSql[e] = Reading[e.value]
      /\ e.kind # "str" => ExprToSql[e] = e
  BY TextOf DEF SqlText
<1> QED  BY <1>2, <1>3

\* What a string of an expression is read as is a part of its text.
LEMMA StringsAreRead ==
  ASSUME NEW e \in Exprs, ExprToSql[e] # None, NEW v \in StringsOf(e)
  PROVE  Within[Reading[v]] \subseteq Within[ExprToSql[e]]
<1> DEFINE Reads(x) == \A p \in Within[x] : p.kind = "str" =>
             Within[Reading[p.value]] \subseteq Within[ExprToSql[x]]
           T == {x \in Exprs : ExprToSql[x] # None => Reads(x)}
<1>1. ASSUME NEW x \in Exprs, \A p \in Parts(x) : p \in T, ExprToSql[x] # None
      PROVE  Reads(x)
  <2>1. CASE x.kind = "bin"
    <3>1. x.left \in T /\ x.right \in T
      BY <1>1, <2>1 DEF Parts
    <3>2. Reads(x.left) /\ Reads(x.right)
      BY <1>1, <2>1, <3>1, TextOfBin
    <3>3. /\ Within[x] = {x} \cup Within[x.left] \cup Within[x.right]
          /\ Within[ExprToSql[x.left]] \cup Within[ExprToSql[x.right]] \subseteq Within[ExprToSql[x]]
      BY <1>1, <2>1, TextOfBin
    <3>4. ASSUME NEW p \in Within[x], p.kind = "str"
          PROVE  Within[Reading[p.value]] \subseteq Within[ExprToSql[x]]
      <4>1. p \in Within[x.left] \/ p \in Within[x.right]
        BY <2>1, <3>3, <3>4
      <4> QED  BY <4>1, <3>2, <3>3, <3>4
    <3> QED  BY <3>4
  <2>2. CASE x.kind = "not"
    <3>1. x.inner \in T
      BY <1>1, <2>2 DEF Parts
    <3>2. Reads(x.inner)
      BY <1>1, <2>2, <3>1, TextOfNot
    <3> QED  BY <1>1, <2>2, <3>2, TextOfNot
  <2>3. CASE x.kind \notin {"bin", "not"}
    <3>1. Within[x] = {x} /\ (x.kind = "str" => ExprToSql[x] = Reading[x.value])
      BY <1>1, <2>3, TextOfLeaf
    <3> QED  BY <3>1
  <2> QED  BY <2>1, <2>2, <2>3
<1>2. \A x \in Exprs : (\A p \in Parts(x) : p \in T) => x \in T
  BY <1>1
<1>3. Exprs \subseteq T
  <2> HIDE DEF T
  <2> QED  BY <1>2, ExprInduction
<1>4. Reads(e)
  BY <1>3
<1> QED  BY <1>4 DEF StringsOf

\* An expression whose strings read back as themselves is read as it was.
LEMMA TextIsSame ==
  ASSUME NEW e \in Exprs, ExprToSql[e] # None, \A v \in StringsOf(e) : Reading[v] = Str(v)
  PROVE  ExprToSql[e] = e
<1> DEFINE Plain(x) == \A p \in Within[x] : p.kind = "str" => Reading[p.value] = Str(p.value)
           T == {x \in Exprs : ExprToSql[x] # None /\ Plain(x) => ExprToSql[x] = x}
<1>1. ASSUME NEW x \in Exprs, \A p \in Parts(x) : p \in T, ExprToSql[x] # None, Plain(x)
      PROVE  ExprToSql[x] = x
  <2>1. CASE x.kind = "bin"
    <3>1. x.left \in T /\ x.right \in T
      BY <1>1, <2>1 DEF Parts
    <3>2. Plain(x.left) /\ Plain(x.right)
      BY <1>1, <2>1, TextOfBin
    <3>3. ExprToSql[x.left] = x.left /\ ExprToSql[x.right] = x.right
      BY <1>1, <2>1, <3>1, <3>2, TextOfBin
    <3> QED  BY <1>1, <2>1, <3>3, TextOfBin
  <2>2. CASE x.kind = "not"
    <3>1. x.inner \in T
      BY <1>1, <2>2 DEF Parts
    <3>2. Plain(x.inner)
      BY <1>1, <2>2, TextOfNot
    <3>3. ExprToSql[x.inner] = x.inner
      BY <1>1, <2>2, <3>1, <3>2, TextOfNot
    <3> QED  BY <1>1, <2>2, <3>3, TextOfNot
  <2>3. CASE x.kind \notin {"bin", "not"}
    <3>1. x \in Within[x]
      BY <1>1, <2>3, TextOfLeaf
    <3>2. CASE x.kind = "str"
      <4>1. ExprToSql[x] = Reading[x.value] /\ Reading[x.value] = Str(x.value)
        BY <1>1, <2>3, <3>1, <3>2, TextOfLeaf
      <4> QED  BY <4>1, <3>2, ExprAssumption
    <3>3. CASE x.kind # "str"
      BY <1>1, <2>3, <3>3, TextOfLeaf
    <3> QED  BY <3>2, <3>3
  <2> QED  BY <2>1, <2>2, <2>3
<1>2. \A x \in Exprs : (\A p \in Parts(x) : p \in T) => x \in T
  BY <1>1
<1>3. Exprs \subseteq T
  <2> HIDE DEF T
  <2> QED  BY <1>2, ExprInduction
<1>4. Plain(e)
  BY DEF StringsOf
<1> QED  BY <1>3, <1>4

\* The parts of an expression are expressions.
LEMMA WithinIsExpr ==
  ASSUME NEW e \in Exprs
  PROVE  Within[e] \subseteq Exprs
<1> DEFINE T == {x \in Exprs : Within[x] \subseteq Exprs}
<1>1. ASSUME NEW x \in Exprs, \A p \in Parts(x) : p \in T
      PROVE  Within[x] \subseteq Exprs
  BY <1>1, TextOf
<1>2. \A x \in Exprs : (\A p \in Parts(x) : p \in T) => x \in T
  BY <1>1
<1>3. Exprs \subseteq T
  <2> HIDE DEF T
  <2> QED  BY <1>2, ExprInduction
<1> QED  BY <1>3

\* A garbled text has a string that is read as no operand.
LEMMA GarbledIsMisread ==
  ASSUME NEW f \in Exprs, ExprToSql[f] # None, Garbled \in Within[ExprToSql[f]]
  PROVE  \E v \in StringsOf(f) : Misread(v)
<1> DEFINE Known(x) == \E p \in Within[x] : p.kind = "str" /\ Reading[p.value] = Garbled
           T == {x \in Exprs : ExprToSql[x] # None /\ Garbled \in Within[ExprToSql[x]] => Known(x)}
<1>1. ASSUME NEW x \in Exprs, \A p \in Parts(x) : p \in T,
             ExprToSql[x] # None, Garbled \in Within[ExprToSql[x]]
      PROVE  Known(x)
  <2>1. CASE x.kind = "bin"
    <3>1. x.left \in T /\ x.right \in T
      BY <2>1, <1>1 DEF Parts
    <3>2. ExprToSql[x] # Garbled
      <4>1. ExprToSql[x] = Bin(x.op, ExprToSql[x.left], ExprToSql[x.right])
        BY <1>1, <2>1, TextOfBin
      <4>2. \A op, l, r : Bin(op, l, r).kind = "bin" /\ Garbled.kind = "garbled"
        BY DEF Bin, Garbled
      <4> QED  BY <4>1, <4>2
    <3>3. Garbled \in Within[ExprToSql[x.left]] \/ Garbled \in Within[ExprToSql[x.right]]
      BY <1>1, <2>1, <3>2, TextOfBin
    <3>4. Known(x.left) \/ Known(x.right)
      BY <1>1, <2>1, <3>1, <3>3, TextOfBin
    <3> QED  BY <1>1, <2>1, <3>4, TextOfBin
  <2>2. CASE x.kind = "not"
    <3>1. x.inner \in T
      BY <2>2, <1>1 DEF Parts
    <3>2. ExprToSql[x] # Garbled
      <4>1. ExprToSql[x] = Not(ExprToSql[x.inner])
        BY <1>1, <2>2, TextOfNot
      <4>2. \A y : Not(y).kind = "not" /\ Garbled.kind = "garbled"
        BY DEF Not, Garbled
      <4> QED  BY <4>1, <4>2
    <3>3. Known(x.inner)
      BY <1>1, <2>2, <3>1, <3>2, TextOfNot
    <3> QED  BY <1>1, <2>2, <3>3, TextOfNot
  <2>3. CASE x.kind = "str"
    <3>1. x \in Within[x] /\ ExprToSql[x] = Reading[x.value]
      BY <1>1, <2>3, TextOfLeaf
    <3>2. Reading[x.value] \in Exprs /\ Parts(Reading[x.value]) = {}
      BY <2>3, ExprAssumption
    <3>3. Within[Reading[x.value]] = {Reading[x.value]}
      BY <3>2, TextOf
    <3> QED  BY <1>1, <2>3, <3>1, <3>3
  <2>4. CASE x.kind \notin {"bin", "not", "str"}
    <3>1. ExprToSql[x] = x /\ Within[x] = {x}
      BY <1>1, <2>4, TextOfLeaf
    <3>2. x.kind = "garbled"
      BY <1>1, <3>1 DEF Garbled
    <3>3. ExprToSql[x] = None
      BY <3>2, TextOf DEF SqlText
    <3> QED  BY <1>1, <3>3
  <2> QED  BY <2>1, <2>2, <2>3, <2>4
<1>2. \A x \in Exprs : (\A p \in Parts(x) : p \in T) => x \in T
  BY <1>1
<1>3. Exprs \subseteq T
  <2> HIDE DEF T
  <2> QED  BY <1>2, ExprInduction
<1>4. PICK p \in Within[f] : p.kind = "str" /\ Reading[p.value] = Garbled
  BY <1>3
<1>5. p.value \in StringsOf(f)
  BY <1>4 DEF StringsOf
<1>6. Garbled # Str(p.value)
  <2>1. Garbled.kind # Str(p.value).kind
    BY DEF Garbled, Str
  <2> QED  BY <2>1
<1>7. ColumnsOf(Garbled) = {}
  <2>2. Garbled \in Exprs /\ Parts(Garbled) = {}
    BY <1>4, WithinIsExpr, ExprAssumption
  <2>3. Within[Garbled] = {Garbled}
    BY <2>2, TextOf
  <2> QED  BY <2>3 DEF ColumnsOf, Garbled
<1> QED  BY <1>4, <1>5, <1>6, <1>7 DEF Misread

-----------------------------------------------------------------------------
(***************************************************************************)
(* What an executor answers a text with.                                   *)
(***************************************************************************)
LEMMA AnswerLoses ==
  ASSUME NEW table, NEW filters, filters \subseteq Exprs, NEW content, IsFiniteSet(content),
         NEW limit, filters # {} => limit = None,
         Resolves(BuildSql(table, filters, limit)),
         \A f \in filters : \A v \in StringsOf(f) : ~Misread(v),
         NEW rows \in AnswersTo(BuildSql(table, filters, limit), content)
  PROVE  /\ rows \subseteq content
         /\ limit = None => {r \in content : Selects(filters, r)} \subseteq rows
         /\ limit # None => rows = content \/ Cardinality(rows) = limit
<1> DEFINE sql   == BuildSql(table, filters, limit)
           where == {ExprToSql[f] : f \in filters} \ {None}
           hits  == {r \in content : Selects(where, r)}
<1>1. sql.where = where /\ sql.limit = limit
  BY DEF BuildSql
<1>2. rows \in IF limit = None THEN {hits}
               ELSE {S \in SUBSET hits : Cardinality(S) = IF Cardinality(hits) < limit
                                                          THEN Cardinality(hits) ELSE limit}
  BY <1>1 DEF AnswersTo
<1>3. rows \subseteq content
  BY <1>2
<1>4. ASSUME limit = None
      PROVE  {r \in content : Selects(filters, r)} \subseteq rows
  <2>1. ASSUME NEW f \in filters, ExprToSql[f] # None
        PROVE  ExprToSql[f] = f
    <3>1. ExprToSql[f] \in where /\ f \in Exprs
      BY <2>1
    <3>2. ColumnsOf(ExprToSql[f]) \subseteq Columns
      <4>1. UNION {ColumnsOf(e) : e \in where} \subseteq Columns
        BY <1>1 DEF Resolves
      <4> QED  BY <3>1, <4>1
    <3>3. ASSUME NEW v \in StringsOf(f)
          PROVE  Reading[v] = Str(v)
      <4>1. Within[Reading[v]] \subseteq Within[ExprToSql[f]]
        BY <2>1, <3>1, StringsAreRead
      <4>2. ColumnsOf(Reading[v]) \subseteq Columns
        BY <3>2, <4>1 DEF ColumnsOf
      <4> QED  BY <4>2 DEF Misread
    <3> QED  BY <3>1, <3>3, <2>1, TextIsSame
  <2>2. where \subseteq filters
    BY <2>1
  <2>3. rows = hits
    BY <1>2, <1>4
  <2> QED  BY <2>2, <2>3 DEF Selects
<1>5. ASSUME limit # None
      PROVE  rows = content \/ Cardinality(rows) = limit
  <2>1. where = {}
    BY <1>5
  <2>2. hits = content
    BY <2>1 DEF Selects
  <2>3. /\ rows \subseteq content
        /\ Cardinality(rows) = IF Cardinality(content) < limit THEN Cardinality(content) ELSE limit
    <3> HIDE DEF hits
    <3> QED  BY <1>2, <1>5, <2>2
  <2>4. ASSUME Cardinality(rows) = Cardinality(content)
        PROVE  rows = content
    BY <2>3, <2>4, FS_Subset
  <2> QED  BY <2>3, <2>4
<1> QED  BY <1>3, <1>4, <1>5

-----------------------------------------------------------------------------
(***************************************************************************)
(* Ports.  A SQL service listens on the port after its bind_port, unless   *)
(* that port is 0 and the system chose one.                                *)
(***************************************************************************)
SqlPortRight(x) == sqlPort[x] \in {NoPort, BindPort[x] + 1} \/ Wrapped(x)

\* A scan that called an executor called the one of its endpoint.
FromEndpoint(c) ==
  /\ c.by \in Execs /\ c.endpoint \in Ports /\ c.endpoint + 1 < PortCount
  /\ BindPort[c.by] = c.endpoint \/ Wrapped(c.by)

\* The rows of an answer, as the three claims of AnswerLosesNoRow have them.
LosesNoRow(c) ==
  LET content == Content[c.by][c.plan.table]
      wanted  == {r \in content : Selects(c.plan.filters, r)} IN
  \/ \E f \in c.plan.filters : \E v \in StringsOf(f) : Misread(v)
  \/ /\ c.rows \subseteq content
     /\ c.plan.limit = None => wanted \subseteq c.rows
     /\ c.plan.limit # None => c.rows = content \/ Cardinality(c.rows) = c.plan.limit

ScanFits(c) ==
  /\ c.phase # "new" => c.plan \in Plans
  /\ c.phase \in {"called", "answered"} => FromEndpoint(c)
  /\ c.phase = "answered" => c.plan.table \in MountedTables(c.by) /\ LosesNoRow(c)

ScanInv ==
  /\ ExecInv /\ TypeOK
  /\ \A x \in Execs : SqlPortRight(x)
  /\ \A s \in Scans : ScanFits(scan[s])

\* The port arithmetic of a u16, where the sum fits and where it wraps.
LEMMA NextPortOf ==
  ASSUME NEW p \in Ports
  PROVE  /\ NextPort(p) \in Ports /\ NextPort(p) # NoPort
         /\ p + 1 = PortCount => NextPort(p) = 0
         /\ p + 1 # PortCount => NextPort(p) = p + 1 /\ p + 1 < PortCount
<1>1. PortCount \in Nat /\ PortCount > 1 /\ p \in 0..(PortCount - 1)
  BY ExecutorAssumption DEF Ports
<1>2. CASE p + 1 = PortCount
  <2>1. (p + 1) % PortCount = 0
    BY <1>1, <1>2
  <2> QED  BY <2>1, <1>1, <1>2 DEF NextPort, Ports, NoPort
<1>3. CASE p + 1 # PortCount
  <2>1. p + 1 \in 0..(PortCount - 1)
    BY <1>1, <1>3
  <2>2. (p + 1) % PortCount = p + 1
    BY <1>1, <2>1
  <2> QED  BY <2>1, <2>2, <1>1, <1>3 DEF NextPort, Ports, NoPort
<1> QED  BY <1>2, <1>3

\* One who has the port after an endpoint is the endpoint's executor.
LEMMA CalleeIsRight ==
  ASSUME ScanInv, NEW e \in Endpoints \cup {None}, NEW x \in Callees(e)
  PROVE  /\ x \in Execs /\ e \in Ports /\ e + 1 < PortCount
         /\ BindPort[x] = e \/ Wrapped(x)
<1>1. x \in Execs /\ e # None /\ sqlPort[x] = SqlPort(e)
  BY DEF Callees
<1>2. e \in Ports /\ BindPort[x] \in Ports
  BY <1>1, ScanAssumption, ExecutorAssumption
<1>3. sqlPort[x] = NextPort(e)
  BY <1>1 DEF SqlPort
<1>4. sqlPort[x] \in (Ports \ {0}) \cup {NoPort} /\ SqlPortRight(x)
  BY <1>1 DEF ScanInv, ExecInv, ExecTypeOK
<1>5. sqlPort[x] = e + 1 /\ e + 1 < PortCount
  BY <1>2, <1>3, <1>4, NextPortOf
<1>6. sqlPort[x] # NoPort
  BY <1>2, <1>3, NextPortOf
<1>7. BindPort[x] + 1 = e + 1 \/ Wrapped(x)
  BY <1>4, <1>5, <1>6 DEF SqlPortRight
<1>8. BindPort[x] \in Int /\ e \in Int
  BY <1>2, ExecutorAssumption DEF Ports
<1> QED  BY <1>1, <1>2, <1>5, <1>7, <1>8

\* No step of an executor puts its service on another port.
LEMMA StepSqlPort ==
  ASSUME ExecInv, NEW x \in Execs, ExecStep(x), \A y \in Execs : SqlPortRight(y)
  PROVE  \A y \in Execs : SqlPortRight(y)'
<1>1. sqlPort \in [Execs -> (Ports \ {0}) \cup {NoPort}]
  BY DEF ExecInv, ExecTypeOK
<1>2. \/ UNCHANGED sqlPort
      \/ sqlPort' = [sqlPort EXCEPT ![x] = NoPort]
      \/ \E p \in Bindable(NextPort(BindPort[x])) : sqlPort' = [sqlPort EXCEPT ![x] = p]
  BY DEF ExecStep, ExecStart, MountTable, MountFails, SpawnSql, BindSql, BindSqlFails, BindScheduler,
         ExecStops, ExecEnds
<1>3. ASSUME NEW p \in Bindable(NextPort(BindPort[x]))
      PROVE  p = BindPort[x] + 1 \/ Wrapped(x)
  <2>1. BindPort[x] \in Ports
    BY ExecutorAssumption
  <2>2. CASE BindPort[x] + 1 = PortCount
    BY <2>2 DEF Wrapped
  <2>3. CASE BindPort[x] + 1 # PortCount
    <3>1. NextPort(BindPort[x]) = BindPort[x] + 1 /\ BindPort[x] + 1 # 0
      BY <2>1, <2>3, NextPortOf, ExecutorAssumption DEF Ports
    <3> QED  BY <3>1 DEF Bindable
  <2> QED  BY <2>2, <2>3
<1>4. ASSUME NEW y \in Execs
      PROVE  sqlPort'[y] \in {sqlPort[y], NoPort, BindPort[y] + 1} \/ Wrapped(y)
  BY <1>1, <1>2, <1>3
<1> QED  BY <1>4 DEF SqlPortRight, Wrapped

-----------------------------------------------------------------------------
LEMMA InitScanInv ==
  ASSUME Init
  PROVE  ScanInv
<1>1. ExecInv
  BY InitExecInv DEF Init
<1>2. TypeOK
  <2>1. NoScan \in ScanRecords
    BY DEF NoScan, ScanRecords
  <2> QED  BY <1>1, <2>1 DEF Init, TypeOK, ExecInv
<1>3. \A x \in Execs : SqlPortRight(x)
  BY DEF Init, ExecInit, SqlPortRight
<1>4. \A s \in Scans : ScanFits(scan[s])
  BY DEF Init, NoScan, ScanFits
<1> QED  BY <1>1, <1>2, <1>3, <1>4 DEF ScanInv

\* While the executors stand still, what is known of them stays.
LEMMA SameExec ==
  ASSUME ExecInv, UNCHANGED execVars
  PROVE  ExecInv'
<1>1. ExecTypeOK'
  BY DEF ExecInv, ExecTypeOK, execVars
<1>2. ASSUME NEW y \in Execs PROVE Progress(y)'
  BY DEF ExecInv, Progress, MountedTables, execVars
<1> QED  BY <1>1, <1>2 DEF ExecInv

\* A step of one scan, while the executors stand still.
LEMMA OneScan ==
  ASSUME ScanInv, UNCHANGED execVars, NEW s \in Scans, NEW c, scan' = [scan EXCEPT ![s] = c],
         c \in ScanRecords,
         ScanFits(c)
  PROVE  ScanInv'
<1>1. ExecInv'
  BY SameExec DEF ScanInv
<1>2. TypeOK'
  BY <1>1 DEF ScanInv, TypeOK, ExecInv
<1>3. \A x \in Execs : SqlPortRight(x)'
  BY DEF ScanInv, SqlPortRight, Wrapped, execVars
<1>4. ASSUME NEW r \in Scans PROVE ScanFits(scan'[r])
  BY DEF ScanInv, TypeOK
<1> QED  BY <1>1, <1>2, <1>3, <1>4
         DEF ScanInv, ScanFits, FromEndpoint, LosesNoRow, Wrapped, MountedTables

LEMMA PlanScanInv ==
  ASSUME ScanInv, NEW s \in Scans, PlanScan(s)
  PROVE  ScanInv'
<1>1. PICK e \in Endpoints, p \in Plans :
         scan' = [scan EXCEPT ![s] = [NoScan EXCEPT !.phase = "planned", !.endpoint = e, !.plan = p]]
  BY DEF PlanScan
<1> DEFINE c == [NoScan EXCEPT !.phase = "planned", !.endpoint = e, !.plan = p]
<1>2. c.phase = "planned" /\ c.plan = p
      /\ c \in ScanRecords
  BY DEF NoScan, ScanRecords
<1> HIDE DEF c
<1>3. ScanFits(c)
  BY <1>2 DEF ScanFits
<1> QED  BY <1>1, <1>2, <1>3, OneScan DEF PlanScan, c

LEMMA FailedInv ==
  ASSUME ScanInv, NEW s \in Scans, scan[s].phase # "new", scan' = Failed(s), UNCHANGED execVars
  PROVE  ScanInv'
<1> DEFINE c == [scan[s] EXCEPT !.phase = "failed"]
<1>1. scan' = [scan EXCEPT ![s] = c]
  BY DEF Failed
<1>2. /\ scan[s] \in ScanRecords
      /\ scan[s].plan \in Plans
  BY DEF ScanInv, TypeOK, ScanFits
<1>3. c.phase = "failed" /\ c.plan = scan[s].plan
      /\ c \in ScanRecords
  BY <1>2 DEF ScanRecords
<1> HIDE DEF c
<1>4. ScanFits(c)
  BY <1>2, <1>3 DEF ScanFits
<1> QED  BY <1>1, <1>3, <1>4, OneScan

LEMMA CallInv ==
  ASSUME ScanInv, NEW s \in Scans, Call(s)
  PROVE  ScanInv'
<1>1. PICK x \in Callees(scan[s].endpoint) :
         scan' = [scan EXCEPT ![s].phase = "called", ![s].by = x]
  BY DEF Call
<1>2. scan[s].phase = "planned" /\ UNCHANGED execVars
  BY DEF Call, At
<1> DEFINE c == [scan[s] EXCEPT !.phase = "called", !.by = x]
<1>3. /\ scan[s] \in ScanRecords
      /\ scan[s].plan \in Plans /\ scan \in [Scans -> ScanRecords]
  BY <1>2 DEF ScanInv, TypeOK, ScanFits
<1>4. /\ x \in Execs /\ scan[s].endpoint \in Ports /\ scan[s].endpoint + 1 < PortCount
      /\ BindPort[x] = scan[s].endpoint \/ Wrapped(x)
  <2>1. scan[s].endpoint \in Endpoints \cup {None}
    BY <1>3 DEF ScanRecords
  <2> QED  BY <2>1, CalleeIsRight
<1>5. scan' = [scan EXCEPT ![s] = c]
  BY <1>1, <1>3
<1>6. /\ c.phase = "called" /\ c.plan = scan[s].plan /\ c.by = x /\ c.endpoint = scan[s].endpoint
      /\ c \in ScanRecords
  BY <1>3, <1>4 DEF ScanRecords
<1> HIDE DEF c
<1>7. ScanFits(c)
  BY <1>3, <1>4, <1>6 DEF ScanFits, FromEndpoint
<1> QED  BY <1>2, <1>5, <1>6, <1>7, OneScan

\* What an answer leaves to show: the rows.
LEMMA AnsweredInv ==
  ASSUME ScanInv, NEW s \in Scans, At(s, "called"), UNCHANGED execVars,
         scan[s].plan.table \in providers[scan[s].by],
         NEW rows, rows \subseteq AllRows,
         scan' = [scan EXCEPT ![s].phase = "answered", ![s].rows = rows],
         LosesNoRow([scan[s] EXCEPT !.phase = "answered", !.rows = rows])
  PROVE  ScanInv'
<1> DEFINE x == scan[s].by
           p == scan[s].plan
           c == [scan[s] EXCEPT !.phase = "answered", !.rows = rows]
<1>1. /\ scan[s] \in ScanRecords /\ FromEndpoint(scan[s]) /\ p \in Plans
      /\ scan \in [Scans -> ScanRecords]
  BY DEF ScanInv, TypeOK, ScanFits, At
<1>2. p.table \in MountedTables(x)
  <2>1. x \in Execs
    BY <1>1 DEF FromEndpoint
  <2>2. Progress(x) /\ proc[x] \in {"down", "mount", "scheduler", "ready"}
    BY <2>1 DEF ScanInv, ExecInv, ExecTypeOK
  <2> QED  BY <2>2 DEF Progress
<1>3. scan' = [scan EXCEPT ![s] = c]
  BY <1>1
<1>4. /\ c.phase = "answered" /\ c.plan = p /\ c.by = x /\ c.endpoint = scan[s].endpoint
      /\ c \in ScanRecords /\ LosesNoRow(c)
  BY <1>1 DEF ScanRecords
<1> HIDE DEF c
<1>5. FromEndpoint(c)
  BY <1>1, <1>4 DEF FromEndpoint
<1>6. ScanFits(c)
  BY <1>1, <1>2, <1>4, <1>5 DEF ScanFits
<1> QED  BY <1>3, <1>4, <1>6, OneScan

\* The answer: AnswerLoses for the executor's files, with the tables it has.
LEMMA AnswerInv ==
  ASSUME ScanInv, NEW s \in Scans, Answer(s)
  PROVE  ScanInv'
<1> DEFINE x == scan[s].by
           p == scan[s].plan
           content == Content[x][p.table]
<1>1. PICK rows \in AnswersTo(Sql(s), Content[x][Sql(s).table]) :
         scan' = [scan EXCEPT ![s].phase = "answered", ![s].rows = rows]
  BY DEF Answer
<1>2. /\ At(s, "called") /\ UNCHANGED execVars
      /\ Sql(s).table \in providers[x] /\ Resolves(Sql(s))
  BY DEF Answer
<1>3. scan[s] \in ScanRecords /\ p \in Plans /\ x \in Execs
  BY <1>2 DEF ScanInv, TypeOK, ScanFits, FromEndpoint, At
<1>4. p.table \in Tables /\ p.filters \subseteq Exprs
      /\ (p.filters # {} => p.limit = None) /\ IsFiniteSet(content)
  BY <1>3, ScanAssumption
<1>5. Sql(s) = BuildSql(p.table, p.filters, p.limit) /\ Sql(s).table = p.table
  BY DEF Sql, BuildSql
<1>6. rows \subseteq content
  BY <1>1, <1>5 DEF AnswersTo
<1>7. ASSUME \A f \in p.filters : \A v \in StringsOf(f) : ~Misread(v)
      PROVE  /\ p.limit = None => {r \in content : Selects(p.filters, r)} \subseteq rows
             /\ p.limit # None => rows = content \/ Cardinality(rows) = p.limit
  <2> DEFINE table == p.table
             filters == p.filters
             limit == p.limit
  <2>1. /\ filters \subseteq Exprs /\ (filters # {} => limit = None) /\ IsFiniteSet(content)
        /\ Resolves(BuildSql(table, filters, limit))
        /\ rows \in AnswersTo(BuildSql(table, filters, limit), content)
        /\ \A f \in filters : \A v \in StringsOf(f) : ~Misread(v)
    BY <1>1, <1>2, <1>4, <1>5, <1>7
  <2> HIDE DEF table, filters, limit, content
  <2>2. /\ limit = None => {r \in content : Selects(filters, r)} \subseteq rows
        /\ limit # None => rows = content \/ Cardinality(rows) = limit
    BY <2>1, AnswerLoses
  <2> QED  BY <2>2 DEF table, filters, limit, content
<1> DEFINE c == [scan[s] EXCEPT !.phase = "answered", !.rows = rows]
<1>8. c.plan = p /\ c.by = x /\ c.rows = rows
  BY <1>3 DEF ScanRecords
<1> HIDE DEF c
<1>9. LosesNoRow(c)
  BY <1>6, <1>7, <1>8 DEF LosesNoRow
<1>10. rows \subseteq AllRows
  BY <1>3, <1>4, <1>6 DEF AllRows
<1> QED  BY <1>1, <1>2, <1>5, <1>9, <1>10, AnsweredInv DEF c

\* A garbled text answers with anything, but some filter is misread.
LEMMA AnswerGarbledInv ==
  ASSUME ScanInv, NEW s \in Scans, AnswerGarbled(s)
  PROVE  ScanInv'
<1> DEFINE x == scan[s].by
           p == scan[s].plan
<1>1. PICK rows \in SUBSET UNION {Content[x][t] : t \in Tables} :
         scan' = [scan EXCEPT ![s].phase = "answered", ![s].rows = rows]
  BY DEF AnswerGarbled
<1>2. /\ At(s, "called") /\ UNCHANGED execVars
      /\ Sql(s).table \in providers[x] /\ IsGarbled(Sql(s))
  BY DEF AnswerGarbled
<1>3. scan[s] \in ScanRecords /\ p \in Plans /\ x \in Execs
  BY <1>2 DEF ScanInv, TypeOK, ScanFits, FromEndpoint, At
<1>4. p.filters \subseteq Exprs
  BY <1>3, ScanAssumption
<1>5. /\ Sql(s).table = p.table
      /\ Sql(s).where = {ExprToSql[f] : f \in p.filters} \ {None}
  BY DEF Sql, BuildSql
<1>6. PICK f \in p.filters : ExprToSql[f] # None /\ Garbled \in Within[ExprToSql[f]]
  BY <1>2, <1>5 DEF IsGarbled
<1>7. \E v \in StringsOf(f) : Misread(v)
  BY <1>4, <1>6, GarbledIsMisread
<1> DEFINE c == [scan[s] EXCEPT !.phase = "answered", !.rows = rows]
<1>8. c.plan = p
  BY <1>3 DEF ScanRecords
<1> HIDE DEF c
<1>9. LosesNoRow(c)
  BY <1>6, <1>7, <1>8 DEF LosesNoRow
<1>10. rows \subseteq AllRows
  BY <1>3 DEF AllRows
<1> QED  BY <1>1, <1>2, <1>5, <1>9, <1>10, AnsweredInv DEF c

LEMMA RunInv ==
  ASSUME ScanInv, NEW x \in Execs, Run(x)
  PROVE  ScanInv'
<1>1. ExecInv' /\ ExecStep(x)
  BY StepExecInv DEF ScanInv, Run
<1>2. \A y \in Execs : SqlPortRight(y)'
  BY <1>1, StepSqlPort DEF ScanInv
<1>3. ASSUME NEW s \in Scans
      PROVE  /\ scan'[s] \in ScanRecords
             /\ ScanFits(scan'[s])
  <2>1. /\ scan[s] \in ScanRecords
        /\ ScanFits(scan[s])
    BY DEF ScanInv, TypeOK
  <2>2. \/ scan'[s] = scan[s]
        \/ scan'[s] = [scan[s] EXCEPT !.phase = "failed"] /\ scan[s].phase = "called"
    BY DEF Run, At
  <2>3. CASE scan'[s] = [scan[s] EXCEPT !.phase = "failed"] /\ scan[s].phase = "called"
    BY <2>1, <2>3 DEF ScanFits, ScanRecords
  <2> QED  BY <2>1, <2>2, <2>3
<1>4. DOMAIN scan' = Scans /\ scan' = [s \in Scans |-> scan'[s]]
  BY DEF Run
<1>5. TypeOK'
  BY <1>1, <1>3, <1>4 DEF TypeOK, ExecInv
<1> QED  BY <1>1, <1>2, <1>3, <1>5
         DEF ScanInv, ScanFits, FromEndpoint, LosesNoRow, Wrapped, MountedTables

LEMMA StepScanInv ==
  ASSUME ScanInv, [Next]_vars
  PROVE  ScanInv'
<1>1. ASSUME NEW s \in Scans, CallFails(s) \/ Refuse(s) PROVE ScanInv'
  BY <1>1, FailedInv DEF CallFails, Refuse, At
<1>2. CASE UNCHANGED vars
  <2>1. ExecInv'
    BY <1>2, SameExec DEF ScanInv, vars
  <2> QED  BY <1>2, <2>1 DEF ScanInv, TypeOK, ExecInv, SqlPortRight, Wrapped, execVars, vars
<1> QED  BY <1>1, <1>2, PlanScanInv, CallInv, AnswerInv, AnswerGarbledInv, RunInv DEF Next

LEMMA ScanSafety == Spec => []ScanInv
<1>1. Init => ScanInv
  BY InitScanInv
<1>2. ScanInv /\ [Next]_vars => ScanInv'
  BY StepScanInv
<1> QED  BY <1>1, <1>2, PTL DEF Spec

(***************************************************************************)
(* The variables hold values of their types; the u16 arithmetic of the     *)
(* ports stays among the ports.                                            *)
(***************************************************************************)
THEOREM ScanTypeCorrect == Spec => []TypeOK
<1>1. ScanInv => TypeOK
  BY DEF ScanInv
<1> QED  BY <1>1, ScanSafety, PTL

(***************************************************************************)
(* With the scans around it an executor that listens still has every       *)
(* dataset of its configuration.                                           *)
(***************************************************************************)
THEOREM ServingExecutorIsComplete == Spec => []ListeningServesAllMounts
<1>1. ScanInv => ListeningServesAllMounts
  BY DEF ScanInv, ExecInv, ExecTypeOK, Progress, ListeningServesAllMounts
<1> QED  BY <1>1, ScanSafety, PTL

(***************************************************************************)
(* The rows of a dataset come from an executor configured with the port of *)
(* its endpoint and with its table, whoever else holds ports of the host   *)
(* or restarts meanwhile (execute's ballista_port + 1 and the executor's   *)
(* bind_port + 1), unless the executor's own port wrapped.                 *)
(***************************************************************************)
THEOREM AnswersComeFromTheEndpoint == Spec => []AnswerFromEndpoint
<1>1. ScanInv => AnswerFromEndpoint
  BY DEF ScanInv, ScanFits, FromEndpoint, AnswerFromEndpoint, At
<1> QED  BY <1>1, ScanSafety, PTL

(***************************************************************************)
(* expr_to_sql and build_sql lose no row: whatever the filters, the answer *)
(* has every row they select, or, with a limit, as many as there are up to *)
(* it, unless a literal without quotes is read as something else (Misread).*)
(***************************************************************************)
THEOREM PushdownLosesNoRow == Spec => []AnswerLosesNoRow
<1>1. ScanInv => AnswerLosesNoRow
  BY DEF ScanInv, ScanFits, LosesNoRow, AnswerLosesNoRow, At
<1> QED  BY <1>1, ScanSafety, PTL
=============================================================================
