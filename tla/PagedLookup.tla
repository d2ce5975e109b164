----------------------------- MODULE PagedLookup -----------------------------
(***************************************************************************)
(* load_client_scope_lookup (tools/clients.rs): the realm's client scopes  *)
(* are read page by page until a page is not full.  How many pages that    *)
(* takes is for Keycloak's answers to decide; what ends the loop whatever  *)
(* they are is its cursor, which is a u32 and saturates.                   *)
(***************************************************************************)
EXTENDS Naturals

CONSTANTS
    PageSize,  \* max: 100
    CursorMax  \* u32::MAX

ASSUME PageAssumption == PageSize \in Nat \ {0} /\ CursorMax \in Nat

Cursor == 0 .. CursorMax

(* first.saturating_add(max) *)
NextFirst(first) ==
    IF first + PageSize > CursorMax THEN CursorMax ELSE first + PageSize

AdvancesAlways(first) == TRUE                            \* mutant of Advances
Advances(first) == NextFirst(first) > first
=============================================================================
