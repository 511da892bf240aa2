------------------------------ MODULE Pushdown ------------------------------
(***************************************************************************)
(* What RemoteTableScanExec::build_sql asks an executor for: expr_to_sql   *)
(* turns the filters of a scan into SQL text as far as it can, and the     *)
(* executor's DataFusion parses and evaluates the text.                    *)
(*                                                                         *)
(* An expression is a record by its kind: col, num, str, bin, not, and     *)
(* other for everything expr_to_sql has no case for (IN, LIKE, IS NULL,    *)
(* CASE, ...).  The SQL text is the expression the executor reads it as:   *)
(* the parentheses of the code make the structure of both the same, but    *)
(* for a NOT on the left of a comparison, which is not considered here.    *)
(* A row maps column names to values; None is NULL.                        *)
(*                                                                         *)
(* A literal is written by ScalarValue's Display.  That of an integer, a   *)
(* boolean or NULL (num) reads back as it was; that of a string, a date or *)
(* a decimal (str) has no quotes, and the parser makes of it what it can:  *)
(* a column, its case folded and without its qualifier, NULL, a number, or *)
(* no operand at all (garbled), when it refuses the statement or groups    *)
(* the tokens around it in another way.                                    *)
(***************************************************************************)
EXTENDS Integers, Sequences, FiniteSets

CONSTANTS
  None,
  Columns,  \* the columns of the data files
  Reading,  \* what the text of each str literal is read as: an operand
  Exprs,    \* bound: the expressions there are, filters and texts and their parts
  Depth     \* of each of them as a tree

Col(name)       == [kind |-> "col", name |-> name]
Num(value)      == [kind |-> "num", value |-> value]
Str(value)      == [kind |-> "str", value |-> value]
Bin(op, l, r)   == [kind |-> "bin", op |-> op, left |-> l, right |-> r]
Not(e)          == [kind |-> "not", inner |-> e]
Other(col, set) == [kind |-> "other", name |-> col, set |-> set]
Garbled         == [kind |-> "garbled"]

\* The operators with a case in expr_to_sql.
SqlOps == {"=", "!=", "<", "<=", ">", ">=", "AND", "OR"}

\* The operands of an expression.
Parts(e) == CASE e.kind = "bin" -> {e.left, e.right}
              [] e.kind = "not" -> {e.inner}
              [] OTHER -> {}

ASSUME ExprAssumption ==
  /\ None \notin Exprs /\ Depth \in [Exprs -> Nat]
  /\ \A e \in Exprs :
       /\ \A p \in Parts(e) : p \in Exprs /\ Depth[p] < Depth[e]
       /\ e.kind = "bin" => e = Bin(e.op, e.left, e.right)
       /\ e.kind = "not" => e = Not(e.inner)
       /\ e.kind = "str" => /\ e = Str(e.value)
                            /\ Reading[e.value] \in Exprs /\ Parts(Reading[e.value]) = {}

\* A mutant: of an operator only the side that could be converted is kept.
SqlTextLoose(sql, e) ==
  CASE e.kind = "bin" ->
         IF e.op \notin SqlOps THEN None
         ELSE IF sql[e.left] = None THEN sql[e.right]
         ELSE IF sql[e.right] = None THEN sql[e.left] ELSE Bin(e.op, sql[e.left], sql[e.right])
    [] e.kind = "not" -> IF sql[e.inner] = None THEN None ELSE Not(sql[e.inner])
    [] e.kind = "str" -> Reading[e.value]
    [] e.kind \in {"col", "num"} -> e
    [] OTHER -> None

\* The text of e, given those of its operands: nothing at all when one of them
\* has none.
SqlText(sql, e) ==
  CASE e.kind = "bin" ->
         IF e.op \in SqlOps /\ sql[e.left] # None /\ sql[e.right] # None
         THEN Bin(e.op, sql[e.left], sql[e.right]) ELSE None
    [] e.kind = "not" -> IF sql[e.inner] = None THEN None ELSE Not(sql[e.inner])
    [] e.kind = "str" -> Reading[e.value]
    [] e.kind \in {"col", "num"} -> e
    [] OTHER -> None

\* expr_to_sql.
ExprToSql[e \in Exprs] == SqlText(ExprToSql, e)

ASSUME TextAssumption == \A e \in Exprs : ExprToSql[e] \in Exprs \cup {None}

\* build_sql: SELECT * with the filters that could be converted, joined by AND.
BuildSql(table, filters, limit) ==
  [table |-> table, limit |-> limit,
   where |-> {ExprToSql[f] : f \in filters} \ {None}]

-----------------------------------------------------------------------------
\* SQL's three-valued logic, with None for unknown.
And3(a, b) == IF FALSE \in {a, b} THEN FALSE ELSE IF None \in {a, b} THEN None ELSE TRUE
Not3(a)    == IF a = None THEN None ELSE ~a

\* A comparison; values of two kinds are not compared.
Compare(op, a, b) ==
  IF op = "IS DISTINCT FROM" THEN a # b
  ELSE IF None \in {a, b} THEN None
  ELSE CASE op = "="  -> a = b
         [] op = "!=" -> a # b
         [] op = "<"  -> a < b
         [] op = "<=" -> a <= b
         [] op = ">"  -> a > b
         [] op = ">=" -> a >= b

\* DataFusion's value of an expression on a row.
Eval(expr, row) ==
  LET val[e \in Exprs] ==
        CASE e.kind = "col"   -> row[e.name]
          [] e.kind \in {"num", "str"} -> e.value
          [] e.kind = "not"   -> Not3(val[e.inner])
          [] e.kind = "other" -> IF row[e.name] = None THEN None ELSE row[e.name] \in e.set
          [] e.kind = "bin" /\ e.op = "AND" -> And3(val[e.left], val[e.right])
          [] e.kind = "bin" /\ e.op = "OR"  -> Not3(And3(Not3(val[e.left]), Not3(val[e.right])))
          [] OTHER -> Compare(e.op, val[e.left], val[e.right])
  IN val[expr]

Selects(exprs, row) == \A e \in exprs : Eval(e, row) = TRUE

\* An expression, its operands, theirs, and so on.
Within[e \in Exprs] == {e} \cup UNION {Within[p] : p \in Parts(e)}

ColumnsOf(e) == {p.name : p \in {x \in Within[e] : x.kind \in {"col", "other"}}}

\* The string literals of an expression.
StringsOf(e) == {p.value : p \in {x \in Within[e] : x.kind = "str"}}

\* The literals whose text is read as something else that the executor takes:
\* known columns or none at all.
Misread(v) == Reading[v] # Str(v) /\ ColumnsOf(Reading[v]) \subseteq Columns

\* The structure of the text is not that of the filters.
IsGarbled(sql) == \E e \in sql.where : Garbled \in Within[e]

\* ctx.sql finds the columns the text names.
Resolves(sql) == UNION {ColumnsOf(e) : e \in sql.where} \subseteq Columns

\* The rows the text may be answered with: LIMIT n takes any n of them.
AnswersTo(sql, content) ==
  LET hits == {r \in content : Selects(sql.where, r)} IN
  IF sql.limit = None THEN {hits}
  ELSE {S \in SUBSET hits :
          Cardinality(S) = IF Cardinality(hits) < sql.limit THEN Cardinality(hits) ELSE sql.limit}
=============================================================================
