------------------------------ MODULE Requests ------------------------------
(***************************************************************************)
(* The requests about applications, tenants, schemas, secrets and lists,   *)
(* of all users at once.  Each component models its own part of the        *)
(* cluster: a step is one of theirs, and leaves the others' state alone.   *)
(***************************************************************************)
EXTENDS AppUpdates, TenantEdits, Schemas, AppAccess, Listings

requestVars == <<vars, tenantVars, schemaVars, accessVars, listingVars>>

OfApplications(step) == step /\ UNCHANGED <<tenantVars, schemaVars, accessVars, listingVars>>
OfTenants(step)      == step /\ UNCHANGED <<vars, schemaVars, accessVars, listingVars>>
OfSchemas(step)      == step /\ UNCHANGED <<vars, tenantVars, accessVars, listingVars>>
OfAccess(step)       == step /\ UNCHANGED <<vars, tenantVars, schemaVars, listingVars>>
OfListings(step)     == step /\ UNCHANGED <<vars, tenantVars, schemaVars, accessVars>>

RequestsInit == Init /\ TenantInit /\ SchemasInit /\ AccessInit /\ ListingsInit

RequestsNext ==
  \/ OfApplications(Next)
  \/ OfTenants(TenantNext)
  \/ OfSchemas(SchemasNext)
  \/ OfAccess(AccessNext)
  \/ OfListings(ListingsNext)

RequestsSpec == RequestsInit /\ [][RequestsNext]_requestVars

-----------------------------------------------------------------------------
(* Every variable has its type.                                            *)
RequestsTypeOK ==
  TypeOK /\ TenantTypeOK /\ SchemasTypeOK /\ AccessTypeOK /\ ListingsTypeOK

(* The audit log tells the truth about every request (internal/handler):   *)
(* of edits of applications and of tenants, of secrets revealed and of     *)
(* actions run.                                                            *)
EveryAuditIsTrue ==
  AuditIsTrue /\ TenantAuditIsTrue /\ RevealedIsRecorded /\ ActionAuditIsTrue
=============================================================================
