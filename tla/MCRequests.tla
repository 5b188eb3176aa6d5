----------------------------- MODULE MCRequests -----------------------------
(***************************************************************************)
(* The requests about applications, tenants and schemas on small instances *)
(* for TLC.  Each kind has its own part of the cluster, so a behaviour is  *)
(* of one kind: edits as in MCEdits, forms, looks and clicks, or listings. *)
(***************************************************************************)
EXTENDS MCEdits, Requests

CONSTANTS a1, a2, v1, old, new

(* An entry without a path, a kind that is empty, a block that is hidden,  *)
(* two definitions and two entries for one path, two fields of one number. *)
Entry(path, order, hidden) == [path |-> path, order |-> order, hidden |-> hidden]

MCOverlays ==
  {<<[kind |-> "Bucket", fields |-> <<Entry(<<"size">>, {}, TRUE), Entry(<<>>, {1}, FALSE),
                                      Entry(<<"zone">>, {1}, FALSE)>>],
     [kind |-> "", fields |-> <<Entry(<<"zone">>, {}, TRUE)>>],
     [kind |-> "Bucket", fields |-> <<Entry(<<"size">>, {2}, FALSE)>>]>>,
   <<[kind |-> "Bucket", fields |-> <<Entry(<<"backup">>, {}, TRUE), Entry(<<"zone">>, {0}, FALSE)>>],
     [kind |-> "Redis", fields |-> <<Entry(<<"backup", "secret">>, {0}, FALSE)>>]>>,
   <<[kind |-> "Bucket", fields |-> <<Entry(<<"backup", "secret">>, {3}, FALSE), Entry(<<"zone">>, {3}, FALSE),
                                      Entry(<<"size">>, {1}, TRUE), Entry(<<"size">>, {3}, FALSE)>>]>>}

MCSchemaFields == <<<<"backup", "enabled">>, <<"backup", "secret">>, <<"size">>, <<"zone">>>>

(* Two sessions share the user name of all uploaded kubeconfigs.           *)
MCUserOf == "alice" :> "alice" @@ "ops1" :> "kubeconfig-user" @@ "ops2" :> "kubeconfig-user"

MCDefOrder == <<"bucket", "bucket-v2">>
MCKindIn == "bucket" :> "Bucket" @@ "bucket-v2" :> "Bucket"
MCtoLowerKind == "Bucket" :> "bucket"
MCMayGet == {<<"ops1", "bucket">>}

(* A database whose definition names a secret, and a machine of its name.  *)
MCKindOrder == <<"Postgres", "VMInstance">>

MCKeysOf == "db-creds" :> {"password", "host"}
         @@ "postgres-db-app" :> {"password", "user"}
         @@ "postgres-db-ca" :> {"password"}

OnlyOf(kind, names) == [app \in AppKinds \X AppNames |-> IF app[1] = kind THEN names ELSE <<>>]

MCSecretTemplates == OnlyOf("Postgres", <<"db-creds">>)
MCPrefixed == OnlyOf("Postgres", <<"postgres-db-app", "postgres-db-ca">>)
MCRegistered == "Postgres" :> <<>> @@ "VMInstance" :> <<"start", "stop">>
MCTargetName == [app \in AppKinds \X AppNames |->
                   IF app[1] = "VMInstance" THEN "vm-instance-" \o app[2] ELSE app[2]]

(* The root tenant and one in it, which comes and goes; three applications *)
(* where a list holds two.                                                 *)
MCTenantCRs == <<"demo", "root">>
MCLivesIn == "root" :> "tenant-root" @@ "demo" :> "tenant-root"
MCWorkload == "root" :> "tenant-root" @@ "demo" :> "tenant-demo"

Row(tenant, name, kind) == [tenant |-> tenant, name |-> name, kind |-> kind]
MCAppOrder == <<Row("tenant-root", "b", "Redis"), Row("tenant-root", "a", "Bucket"),
                Row("tenant-root", "a", "Redis"), Row("tenant-demo", "a", "Redis")>>

mcVars == <<requestVars, about>>

MCInit ==
  /\ RequestsInit
  /\ about \in {"applications", "tenants", "schemas", "access", "listings"}
  /\ about # "applications" => objects["Redis"] # Absent /\ objects["Redis"].spec = Bare
  /\ about # "schemas" => defs = [d \in Definitions |-> NoContent]
  /\ about # "access" => deployed = {} /\ grants = {} /\ holds = [s \in Secrets |-> NoData]
  /\ about # "listings" => there = {} /\ crs = Tops

MCNext ==
  /\ \/ about = "applications" /\ OfApplications(Next)
     \/ about = "tenants" /\ OfTenants(TenantNext)
     \/ about = "schemas" /\ OfSchemas(SchemasNext)
     \/ about = "access" /\ OfAccess(AccessNext)
     \/ about = "listings" /\ OfListings(ListingsNext)
  /\ UNCHANGED about

MCSpec == MCInit /\ [][MCNext]_mcVars
=============================================================================
