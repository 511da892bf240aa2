--------------------------- MODULE MCQueryService ---------------------------
(***************************************************************************)
(* QueryService for TLC: a dataset that moves to another endpoint, one     *)
(* that is registered later, in a namespace that sessions have already,    *)
(* one that is not there at all, and a policy that hides a table.          *)
(***************************************************************************)
EXTENDS QueryService

Table(ns, name) == [namespace |-> <<ns>>, name |-> <<name>>]
Row(t, e)       == [table |-> t, endpoint |-> e]

Customers == Table("crm", "customers")
Leads     == Table("crm", "leads")
Payments  == Table("finance", "payments")

MCTables   == {Customers, Leads, Payments}
MCCatalogs ==
  {{Row(Customers, "e1")},
   {Row(Customers, "e2"), Row(Leads, "e1")}}

Seed == [id |-> 0, subject_type |-> "user", subject_name |-> Wild,
         rule |-> [resource_pattern |-> <<Wild>>, action |-> "SELECT",
                   effect |-> "Allow", row_filter |-> None, priority |-> 0]]
NoLeads == [id |-> 1, subject_type |-> "user", subject_name |-> "bob",
            rule |-> [resource_pattern |-> <<"crm", "leads">>, action |-> "SELECT",
                      effect |-> "Deny", row_filter |-> None, priority |-> 5]]

MCPolicyLists == {<<Seed>>, <<NoLeads, Seed>>}

Request(kind, tables) == [kind |-> kind, tables |-> tables]

MCRequests == {Request("select", <<Customers, Leads>>), Request("select", <<Payments>>),
               Request("create", <<Leads>>)}
=============================================================================
