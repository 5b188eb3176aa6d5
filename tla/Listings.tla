------------------------------ MODULE Listings ------------------------------
(***************************************************************************)
(* What is gathered from all tenants a user can see: the index of the      *)
(* command palette (internal/api/palette.go), the dashboard                *)
(* (internal/handler/page.go) and the overview (overview.go).  Each lists  *)
(* the tenants and then the applications of each of them, a page one after *)
(* the other and the palette several at a time, while the cluster changes. *)
(* A list that fails is left out, as it is when the client has gone.  How  *)
(* the rows are sorted, filtered and grouped is left out.                  *)
(***************************************************************************)
EXTENDS Lists, Naturals, Sequences, SequencesExt, FiniteSets

CONSTANTS TenantCRs,    \* the tenants, as the API server lists them
          LivesIn,      \* metadata.namespace of each, its parent's
          Workload,     \* status.namespace of each, once it has one
          AppOrder,     \* applications [tenant, name, kind], as they are listed
          AppListLimit,
          paletteFanoutConcurrency,
          MaxShifts     \* bound on what changes in the cluster during a request

ListableTenants == ToSet(TenantCRs)
ListableApps == ToSet(AppOrder)
Tops == {t \in ListableTenants : LivesIn[t] = Workload[t]}

ASSUME ListingsAssumption ==
  /\ TenantCRs \in Seq(ListableTenants) /\ IsInjective(TenantCRs)
  /\ AppOrder \in Seq(ListableApps) /\ IsInjective(AppOrder)
  /\ \A t, u \in ListableTenants : Workload[t] = Workload[u] => t = u
  /\ AppListLimit \in Nat \ {0} /\ paletteFanoutConcurrency \in Nat \ {0}
  /\ MaxShifts \in Nat

VARIABLES
  crs,      \* the tenants there are
  settled,  \* those whose namespace is in their status
  there,    \* the applications there are
  look,     \* the request under way, see NoLook
  lived     \* history: the applications since it began, ever and always, and
            \* the number of changes

listingVars == <<crs, settled, there, look, lived>>

(* phase: the next call.  page: the request.  tenants: namespace of each   *)
(* of those listed.  next: how many of their lists have been started.      *)
(* under: those under way, position -> whether it has been answered, and   *)
(* its rows.  rows: what was gathered.  cut: namespaces whose list came    *)
(* short, which only the palette names; missed: those whose list failed.   *)
(* gone: the client has left, or got an error.                             *)
NoLook == [phase |-> "none", page |-> "", tenants |-> <<>>, next |-> 0,
           under |-> [i \in {} |-> {}], rows |-> <<>>, cut |-> {}, missed |-> {}, gone |-> FALSE]
NoHistory == [ever |-> {}, always |-> {}, shifts |-> 0]

ListingsInit ==
  /\ crs \in {c \in SUBSET ListableTenants : Tops \subseteq c}
  /\ settled \in {s \in SUBSET crs : Tops \subseteq s}
  /\ there \in SUBSET ListableApps
  /\ look = NoLook /\ lived = NoHistory

-----------------------------------------------------------------------------
(* The cluster.  A tenant is there before its controller has given it its  *)
(* namespace.                                                              *)
AppComesOrGoes ==
  \E a \in ListableApps :
    /\ there' = IF a \in there THEN there \ {a} ELSE there \cup {a}
    /\ UNCHANGED <<crs, settled>>

TenantComesOrGoes ==
  \E t \in ListableTenants \ Tops :
    /\ \/ t \notin crs /\ crs' = crs \cup {t} /\ UNCHANGED settled
       \/ t \in crs /\ crs' = crs \ {t} /\ settled' = settled \ {t}
       \/ t \in crs \ settled /\ settled' = settled \cup {t} /\ UNCHANGED crs
    /\ UNCHANGED there

ClusterShifts ==
  /\ look.phase \in {"tenants", "apps"} /\ lived.shifts < MaxShifts
  /\ AppComesOrGoes \/ TenantComesOrGoes
  /\ lived' = [ever |-> lived.ever \cup there', always |-> lived.always \cap there',
               shifts |-> lived.shifts + 1]
  /\ UNCHANGED look

LookTurns(to) == look' = to /\ UNCHANGED <<crs, settled, there, lived>>

OpenListing ==
  /\ look.phase = "none"
  /\ \E page \in {"palette", "dashboard", "overview"} :
       look' = [NoLook EXCEPT !.phase = "tenants", !.page = page]
  /\ lived' = [NoHistory EXCEPT !.ever = there, !.always = there]
  /\ UNCHANGED <<crs, settled, there>>

(* crdToTenant: without a status, the namespace the tenant lives in.       *)
NamespaceOf(t) == IF t \in settled THEN Workload[t] ELSE LivesIn[t]

ListTenants ==
  /\ look.phase = "tenants"
  /\ \E listed \in InOrderOf(TenantCRs, crs) :
       LookTurns([look EXCEPT !.phase = "apps",
                    !.tenants = [i \in DOMAIN listed |->
                                   [namespace |-> NamespaceOf(listed[i]),
                                    settled |-> listed[i] \in settled]]])

(* An error of the palette; no tenants on a page.                          *)
ListTenantsFails ==
  /\ look.phase = "tenants"
  /\ IF look.page = "palette" THEN LookTurns([look EXCEPT !.phase = "over", !.gone = TRUE])
     ELSE LookTurns([look EXCEPT !.phase = "apps"])

(* fanoutAppLists starts a list when one of a limited number is free;      *)
(* aggregateApps is the same with one at a time.                           *)
AtOnce(page) == IF page = "palette" THEN paletteFanoutConcurrency ELSE 1

StartList ==
  /\ look.phase = "apps" /\ look.next < Len(look.tenants)
  /\ Cardinality(DOMAIN look.under) < AtOnce(look.page)
  /\ LookTurns([look EXCEPT !.next = @ + 1,
                  !.under = [i \in DOMAIN @ \cup {look.next + 1} |->
                               IF i \in DOMAIN @ THEN @[i] ELSE [done |-> FALSE, rows |-> <<>>]]])

LeftOut(under, i) == [j \in DOMAIN under \ {i} |-> under[j]]

(* The API server holds a list back at the limit, and says so.             *)
IsCut(listed) == Len(listed) > AppListLimit

(* ApplicationService.List: the first rows, up to the limit.               *)
ListApps(i) ==
  LET namespace == look.tenants[i].namespace
  IN  /\ ~look.under[i].done /\ ~look.gone
      /\ \E listed \in InOrderOf(AppOrder, {a \in there : a.tenant = namespace}) :
           LookTurns([look EXCEPT
             !.under[i] = [done |-> TRUE,
                           rows |-> IF IsCut(listed) THEN SubSeq(listed, 1, AppListLimit)
                                                     ELSE listed],
             !.cut = IF IsCut(listed) THEN @ \cup {namespace} ELSE @])

(* Mutant: the goroutine returns the error, and the group cancels all.     *)
CancelsTheRest(under, i) == [j \in {} |-> under[j]]

(* The error is logged, not returned: the other lists go on.               *)
AfterFailure(under, i) == LeftOut(under, i)

ListAppsFails(i) ==
  /\ ~look.under[i].done
  /\ LookTurns([look EXCEPT !.under = AfterFailure(@, i),
                  !.missed = @ \cup {look.tenants[i].namespace}])

(* Under the mutex, in the order the lists are answered.                   *)
AppendRows(i) ==
  /\ look.under[i].done
  /\ LookTurns([look EXCEPT !.under = LeftOut(@, i), !.rows = @ \o look.under[i].rows])

ClientGone ==
  /\ look.phase = "apps" /\ ~look.gone
  /\ LookTurns([look EXCEPT !.gone = TRUE])

(* group.Wait, or the end of the loop.                                     *)
AnswerListing ==
  /\ look.phase = "apps" /\ look.next = Len(look.tenants) /\ DOMAIN look.under = {}
  /\ LookTurns([look EXCEPT !.phase = "over"])

ShutListing ==
  /\ look.phase = "over"
  /\ look' = NoLook /\ lived' = NoHistory /\ UNCHANGED <<crs, settled, there>>

ListingsNext ==
  \/ ClusterShifts
  \/ OpenListing \/ ListTenants \/ ListTenantsFails \/ StartList \/ ClientGone
  \/ AnswerListing \/ ShutListing
  \/ \E i \in DOMAIN look.under : ListApps(i) \/ ListAppsFails(i) \/ AppendRows(i)

ListingsSpec == ListingsInit /\ [][ListingsNext]_listingVars

-----------------------------------------------------------------------------
(* Properties.                                                             *)

(* Every variable has its type.                                            *)
ListingsTypeOK ==
  /\ settled \subseteq crs /\ crs \subseteq ListableTenants /\ there \subseteq ListableApps
  /\ look.phase \in {"none", "tenants", "apps", "over"}
  /\ look.page \in {"", "palette", "dashboard", "overview"} /\ look.gone \in BOOLEAN
  /\ look.next \in 0 .. Len(look.tenants)
  /\ DOMAIN look.under \subseteq 1 .. look.next
  /\ Cardinality(DOMAIN look.under) <= paletteFanoutConcurrency
  /\ ToSet(look.rows) \subseteq ListableApps

(* However the lists overlap and the cluster changes, an answer has only   *)
(* applications that were there during the request, and each one that was  *)
(* there all the while in a tenant listed, unless that list failed or is   *)
(* cut short (palette.go: a broken tenant does not blank the palette).     *)
(* None comes twice if every tenant listed had its namespace: until then a *)
(* tenant stands for its parent (crdToTenant).                             *)
GathersAll ==
  LET asked == {look.tenants[i].namespace : i \in DOMAIN look.tenants} IN
  look.phase = "over" /\ ~look.gone =>
    /\ ToSet(look.rows) \subseteq lived.ever
    /\ \A a \in lived.always :
         a.tenant \in asked \ (look.missed \cup look.cut) => a \in ToSet(look.rows)
    /\ (\A i \in DOMAIN look.tenants : look.tenants[i].settled) => IsInjective(look.rows)
=============================================================================
