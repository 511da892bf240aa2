---------------------------- MODULE MCAuditService ----------------------------
(***************************************************************************)
(* AuditService for TLC.  The channel sizes keep the code's order:         *)
(* ChanCap < ReplayLimit (64 < 100) and a broadcast that a slow client can *)
(* overrun.                                                                *)
(***************************************************************************)
EXTENDS AuditService

MCTypeOf == [e \in Events |-> IF e = "e2" THEN "QueryFailed" ELSE "QuerySubmitted"]
MCFilters == {{}, {"QuerySubmitted"}}
MCAll     == {{}}
=============================================================================
