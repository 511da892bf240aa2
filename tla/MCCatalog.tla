------------------------------ MODULE MCCatalog ------------------------------
(***************************************************************************)
(* Catalog for TLC: two coordinators that share a dataset name, and        *)
(* configurations that move to another executor endpoint or drop a         *)
(* dataset.                                                                *)
(***************************************************************************)
EXTENDS Catalog

CONSTANTS c1, c2

Config(endpoint, datasets) == [endpoint |-> endpoint, datasets |-> datasets]

MCConfigs   == {Config("e1", <<"tx", "hr">>), Config("e2", <<"tx">>)}
MCOneConfig == {Config("e1", <<"tx">>)}

\* One coordinator returns, with either configuration; the other stays away.
MCMaxRuns == [c \in Coords |-> IF c = c1 THEN 2 ELSE 1]
MCOneRun  == [c \in Coords |-> 1]
=============================================================================
