----------------------------- MODULE RestMapper -----------------------------
(***************************************************************************)
(* The partial REST mapper of config-sync-controllers (pkg/restmapper):    *)
(* the API groups are listed once, the resources of every version of the   *)
(* wanted groups are fetched by one goroutine each, and what was fetched   *)
(* becomes a mapper that is never refreshed.  A version whose fetch failed *)
(* is left out of it, and nobody is told.                                  *)
(***************************************************************************)
CONSTANTS
  Groups,        \* the versions of every API group, by its name
  WantedGroups,  \* the names the GroupFilterPredicate lets through
  NoMapper       \* a model value: no mapper has been built

VARIABLES
  served,     \* names of the groups the API server serves: a CRD may come late
  toFetch,    \* the versions of the filtered groups, being fetched
  resources,  \* groupVersionResources: the versions with a resource list
  failed,     \* failedGroups: the versions whose fetch returned an error
  mapper      \* the static mapper: the versions it knows

mapperVars == <<toFetch, resources, failed, mapper>>

GroupNames == DOMAIN Groups

\* The versions of groups, each with the name of its group.
VersionsOf(names) == UNION {{<<g, v>> : v \in Groups[g]} : g \in names}

MapperInit ==
  /\ toFetch = {} /\ resources = {} /\ failed = {} /\ mapper = NoMapper

\* ServerGroups, and the predicate: Or of the wanted groups.
ServerGroups ==
  /\ toFetch' = VersionsOf(served \cap WantedGroups)
  /\ resources' = {} /\ failed' = {} /\ mapper' = NoMapper

Outstanding == toFetch \ (resources \cup failed)

\* A goroutine records its answer under the lock: a list, an error, or an error
\* with a fallback list.
Answer(gv, answer) ==
  /\ gv \in Outstanding
  /\ resources' = IF answer \in {"list", "both"} THEN resources \cup {gv} ELSE resources
  /\ failed' = IF answer \in {"error", "both"} THEN failed \cup {gv} ELSE failed
  /\ UNCHANGED <<toFetch, mapper>>

\* Mutant of BuildMapper: the goroutines are not waited for.
BuildMapperEarly ==
  /\ mapper' = resources
  /\ UNCHANGED <<toFetch, resources, failed>>

\* wg.Wait, then what the groups and versions that were listed have in the map;
\* the error is dropped.
BuildMapper ==
  /\ Outstanding = {}
  /\ mapper' = toFetch \cap resources
  /\ UNCHANGED <<toFetch, resources, failed>>

Maps(gv) == mapper # NoMapper /\ gv \in mapper
=============================================================================
