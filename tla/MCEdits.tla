------------------------------ MODULE MCEdits ------------------------------
(***************************************************************************)
(* Edits of applications and of tenants on small instances for TLC.  They  *)
(* are requests to different objects, so a behaviour is one of either.     *)
(***************************************************************************)
EXTENDS AppUpdates, TenantEdits, TLC

CONSTANTS on, off, alice, bob

VARIABLE about

MCListed == <<"Bucket", "Redis">>

(* A top-level field, a field of a block, and in that block one that the   *)
(* form does not render.                                                   *)
MCRendered == {<<"size">>, <<"backup", "enabled">>}

(* A spec without the top-level field, and one with an empty block.        *)
Full == ("backup" :> ("enabled" :> off @@ "secret" :> off))
Bare == ("size" :> on @@ "backup" :> Empty)

MCTyped == {Full, Bare}

(* The root tenant, and two of one name: one in it and one in the other.   *)
MCTenantOrder == <<<<"tenant-demo", "demo">>, <<"tenant-root", "demo">>, <<"tenant-root", "root">>>>

MCSpellings == (<<"tenant-root", "root">> :> {"tenant-root", "root"})
            @@ (<<"tenant-root", "demo">> :> {"tenant-demo", "demo"})
            @@ (<<"tenant-demo", "demo">> :> {"tenant-demo-demo", "demo-demo"})

(* An earlier build has leaked ns into the spec.                           *)
MCTenantSpecs == {"size" :> off @@ "ns" :> off @@ "backup" :> ("secret" :> off)}

MCTenantFields == {<<"size">>, <<"backup", "enabled">>}

editsVars == <<vars, tenantVars, about>>

InApps(step) == about = "applications" /\ step /\ UNCHANGED <<tenantVars, about>>
InTenants(step) == about = "tenants" /\ step /\ UNCHANGED <<vars, about>>

EditsInit ==
  /\ TenantInit
  /\ about \in {"applications", "tenants"}
  /\ Init
  /\ about = "tenants" => objects["Redis"] # Absent /\ objects["Redis"].spec = Bare

EditsSpec == EditsInit /\ [][InApps(Next) \/ InTenants(TenantNext)]_editsVars

EditsTypeOK == TypeOK /\ TenantTypeOK
=============================================================================
