---------------------------- MODULE MCRemoteScan ----------------------------
(***************************************************************************)
(* RemoteScan for TLC, with six ports: two executors with adjacent         *)
(* bind_ports, of which the first's SQL port is the second's scheduler     *)
(* port, and one with the largest bind_port.  The first's bind_port is 0,  *)
(* so that its scheduler may get any port.  The filters are comparisons,   *)
(* IN lists and their combinations by AND, OR and NOT, and comparisons     *)
(* with strings, whose texts are read as an unknown and as a known column, *)
(* as a column by folding the case, as NULL, as a number (compared with a  *)
(* text as the text of the number) and as no operand.                      *)
(***************************************************************************)
EXTENDS RemoteScan
LOCAL INSTANCE FiniteSetsExt

CONSTANTS a, b, w   \* executors

MCBindPort == [x \in Execs |-> CASE x = a -> 0 [] x = b -> 1 [] OTHER -> PortCount - 1]
MCMounts   == [x \in Execs |-> CASE x = a -> <<"t", "u">> [] x = b -> <<"t">> [] OTHER -> <<"u">>]

MCColumns == {"n", "tier", "city"}
Row(n, tier) == [c \in MCColumns |-> CASE c = "n" -> n [] c = "tier" -> tier [] OTHER -> "Bergen"]

\* Each executor has files of its own, with the ends of a range and a NULL.
MCContent ==
  [x \in Execs |-> [t \in Tables |->
     {Row(1, "gold"), Row(2, "05"), Row(2, "null"), Row(3, None), Row(None, "TIER")}
       \ (IF x = a THEN {} ELSE {Row(1, "gold")})]]

Atoms == {Bin("=", Col("n"), Num(1)), Bin("<=", Num(2), Col("n")), Other("n", {1, 3})}

MCReading ==
  [v \in {"gold", "city", "TIER", "null", "05", "5", "a or b"} |->
     CASE v = "TIER" -> Col("tier")
       [] v = "null" -> Num(None)
       [] v \in {"05", "5"} -> Str("5")
       [] v = "a or b" -> Garbled
       [] OTHER -> Col(v)]

Strings == {Bin(op, Col("tier"), Str(v)) : op \in {"=", "!="}, v \in DOMAIN MCReading}

Filters ==
       Atoms
  \cup {Not(e) : e \in Atoms}
  \cup {Bin(op, x, y) : op \in {"AND", "OR"}, x \in Atoms, y \in Atoms}
  \cup {Not(Bin("OR", x, y)) : x \in Atoms, y \in Atoms}
  \cup {Bin("IS DISTINCT FROM", Col("n"), Num(1))}
  \cup Strings

\* The filters, what they are converted to, and the operands of all.
MCExprs ==
  LET wholes == Filters \cup {Bin("!=", Col("n"), Num(3))}
        \cup {Bin("OR", x, y) : x \in Atoms, y \in Atoms}
        \cup {Bin(op, Col("tier"), MCReading[v]) : op \in {"=", "!="}, v \in DOMAIN MCReading}
  IN wholes \cup {Col(c) : c \in {"n", "tier"}} \cup {Num(n) : n \in {1, 2, 3}}
        \cup {Str(v) : v \in DOMAIN MCReading} \cup {MCReading[v] : v \in DOMAIN MCReading}

MCDepth[e \in MCExprs] == 1 + Max({0} \cup {MCDepth[p] : p \in Parts(e)})

MCPlans ==
       {[table |-> "t", filters |-> {f}, limit |-> None] : f \in Filters}
  \cup {[table |-> "t", filters |-> {f, Bin("!=", Col("n"), Num(3))}, limit |-> None] : f \in Atoms}
  \cup {[table |-> "u", filters |-> {}, limit |-> l] : l \in {None, 0, 2, 9}}
=============================================================================
