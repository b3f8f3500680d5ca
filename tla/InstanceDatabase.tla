-------------------------- MODULE InstanceDatabase --------------------------
(***************************************************************************)
(* The persistent instance registry of the cvd daemon                      *)
(* (selector/instance_database.cpp).  The registry is the protobuf         *)
(* cvd::PersistentData held in one backing file; every operation runs its  *)
(* closure under the file lock (WithSharedLock / WithExclusiveLock), so    *)
(* each public operation is one atomic step here.  A closure that fails    *)
(* leaves the file untouched, which is a step that changes nothing.        *)
(*                                                                         *)
(* Data is abstracted to what the registry's checks tell apart: a group is *)
(* its name, its home directory and its ordered list of instances; an      *)
(* instance is its id and its per-instance name.                           *)
(***************************************************************************)
EXTENDS Naturals, Sequences, FiniteSets, SequencesExt

CONSTANTS
    GroupNames,     \* group names that pass IsValidGroupName
    Homes,          \* home directories that exist or can be created
    InstanceIds,    \* instance ids the creation analyzer may hand out
    InstanceNames,  \* per-instance names that pass IsValidInstanceName
    MaxGroupSize,   \* longest instance list of one group
    MaxGroups,      \* bound on the number of groups in the registry
    None            \* an unset field of a FindParam

ASSUME MaxGroupSize \in Nat \ {0} /\ MaxGroups \in Nat \ {0}
ASSUME None \notin GroupNames \cup Homes \cup InstanceIds \cup InstanceNames

VARIABLES
    instance_groups,           \* data.instance_groups(), in file order
    acloud_translator_optout   \* data.acloud_translator_optout()

dbVars == <<instance_groups, acloud_translator_optout>>

Instance == [id : InstanceIds, name : InstanceNames]

(* The instance lists the creation analyzer produces: ids distinct.        *)
InstanceLists ==
    { s \in SeqOf(Instance, MaxGroupSize) \ {<<>>} :
        \A i, j \in DOMAIN s : s[i].id = s[j].id => i = j }

Group == [name : GroupNames, home : Homes, instances : InstanceLists]

Ids(g) == { g.instances[i].id : i \in DOMAIN g.instances }

AllIds(gs) == UNION { Ids(gs[k]) : k \in DOMAIN gs }

-----------------------------------------------------------------------------
(* The query engine: InstanceDatabase::FindGroups(data, param) and         *)
(* InstanceDatabase::FindInstances(data, param).  A FindParam is a record  *)
(* whose unset fields are None.                                            *)

FindParam ==
    [home : Homes \cup {None}, id : InstanceIds \cup {None},
     group_name : GroupNames \cup {None}, instance_name : InstanceNames \cup {None}]

HasId(g, id) == \E i \in DOMAIN g.instances : g.instances[i].id = id

HasInstanceName(g, n) == \E i \in DOMAIN g.instances : g.instances[i].name = n

(* Fault variant: the id filter skipped.                                 *)
GroupMatchesNoId(param, g) ==
    /\ param.home = None \/ param.home = g.home
    /\ param.group_name = None \/ param.group_name = g.name
    /\ param.instance_name = None \/ HasInstanceName(g, param.instance_name)

GroupMatches(param, g) ==
    /\ param.home = None \/ param.home = g.home
    /\ param.group_name = None \/ param.group_name = g.name
    /\ param.id = None \/ HasId(g, param.id)
    /\ param.instance_name = None \/ HasInstanceName(g, param.instance_name)

FindGroups(data, param) == SelectSeq(data, LAMBDA g : GroupMatches(param, g))

InstanceMatches(param, i) ==
    /\ param.id = None \/ param.id = i.id
    /\ param.instance_name = None \/ param.instance_name = i.name

FindInstances(data, param) ==
    FlattenSeq([k \in DOMAIN data |->
        IF /\ param.group_name = None \/ param.group_name = data[k].name
           /\ param.home = None \/ param.home = data[k].home
        THEN SelectSeq(data[k].instances, LAMBDA i : InstanceMatches(param, i))
        ELSE <<>>])

NoParam == [home |-> None, id |-> None, group_name |-> None, instance_name |-> None]

(* InstanceDatabase::ParamFromQueries(): the queries are applied in order, *)
(* a later query on a field overwriting an earlier one; an instance_id    *)
(* that android::base::ParseInt rejects, or an unknown field name, ends   *)
(* the loop with an error.  A query value is the client's text.           *)
ParsesAsInt(s) == \E n \in 0..9 : ToString(n) = s

ParseInt(s) == CHOOSE n \in 0..9 : ToString(n) = s

NoQueryError == [ok |-> TRUE, param |-> NoParam, why |-> "none"]

(* Fault variant: a query on an unknown field skipped instead of refused. *)
ApplyQueryIgnoreUnknown(res, q) ==
    IF ~res.ok THEN res
    ELSE CASE q.field = "home" -> [res EXCEPT !.param.home = q.value]
           [] q.field = "instance_id" ->
                 IF ParsesAsInt(q.value) THEN [res EXCEPT !.param.id = ParseInt(q.value)]
                 ELSE [res EXCEPT !.ok = FALSE, !.why = "id"]
           [] q.field = "group_name" -> [res EXCEPT !.param.group_name = q.value]
           [] q.field = "instance_name" -> [res EXCEPT !.param.instance_name = q.value]
           [] OTHER -> res

ApplyQuery(res, q) ==
    IF ~res.ok THEN res
    ELSE CASE q.field = "home" -> [res EXCEPT !.param.home = q.value]
           [] q.field = "instance_id" ->
                 IF ParsesAsInt(q.value) THEN [res EXCEPT !.param.id = ParseInt(q.value)]
                 ELSE [res EXCEPT !.ok = FALSE, !.why = "id"]
           [] q.field = "group_name" -> [res EXCEPT !.param.group_name = q.value]
           [] q.field = "instance_name" -> [res EXCEPT !.param.instance_name = q.value]
           [] OTHER -> [res EXCEPT !.ok = FALSE, !.why = "field"]

ParamFromQueries(queries) == FoldLeft(ApplyQuery, NoQueryError, queries)

-----------------------------------------------------------------------------
(* Operations that change the registry.                                   *)

(* Fault variants: one of the two conflict checks left out.              *)
AddConflictsNoKeyCheck(data, g) ==
    \E i \in DOMAIN g.instances :
        FindInstances(data, [NoParam EXCEPT !.id = g.instances[i].id]) # <<>>

AddConflictsNoIdCheck(data, g) ==
    FindGroups(data, [NoParam EXCEPT !.home = g.home, !.group_name = g.name]) # <<>>

(* The two conflict checks AddInstanceGroup makes under the exclusive     *)
(* lock: no group at the same (home, name), no existing instance with one *)
(* of the new ids.                                                        *)
AddConflicts(data, g) ==
    \/ FindGroups(data, [NoParam EXCEPT !.home = g.home, !.group_name = g.name]) # <<>>
    \/ \E i \in DOMAIN g.instances :
           FindInstances(data, [NoParam EXCEPT !.id = g.instances[i].id]) # <<>>

(* Fault variant: the instances copied into the stored group twice.       *)
AddInstanceGroupCopyTwice(g) ==
    /\ Len(instance_groups) < MaxGroups
    /\ ~AddConflicts(instance_groups, g)
    /\ instance_groups' = Append(instance_groups,
                                  [g EXCEPT !.instances = g.instances \o g.instances])
    /\ UNCHANGED acloud_translator_optout

AddInstanceGroup(g) ==
    /\ Len(instance_groups) < MaxGroups
    /\ ~AddConflicts(instance_groups, g)
    /\ instance_groups' = Append(instance_groups, g)
    /\ UNCHANGED acloud_translator_optout

(* Erases the first group with that name, whatever its home.              *)
RemoveFirstNamed(data, name) == RemoveFirstMatch(data, LAMBDA g : g.name = name)

RemoveInstanceGroup(name) ==
    /\ instance_groups' = RemoveFirstNamed(instance_groups, name)
    /\ UNCHANGED acloud_translator_optout

Clear ==
    /\ instance_groups' = <<>>
    /\ UNCHANGED acloud_translator_optout

(* Groups parsed from the JSON blob are appended as they are.             *)
LoadFromJson(new_groups) ==
    /\ Len(instance_groups) + Len(new_groups) <= MaxGroups
    /\ instance_groups' = instance_groups \o new_groups
    /\ UNCHANGED acloud_translator_optout

SetAcloudTranslatorOptout(optout) ==
    /\ acloud_translator_optout' = optout
    /\ UNCHANGED instance_groups

-----------------------------------------------------------------------------
DBInit ==
    /\ instance_groups = <<>>
    /\ acloud_translator_optout = FALSE

(* The operations other request handlers issue, the JSON import aside.    *)
DBNextNoLoad ==
    \/ \E g \in Group : AddInstanceGroup(g)
    \/ \E n \in GroupNames : RemoveInstanceGroup(n)
    \/ Clear
    \/ \E b \in BOOLEAN : SetAcloudTranslatorOptout(b)

(* A JSON blob carries one group in this model.                           *)
DBNext ==
    \/ DBNextNoLoad
    \/ \E g \in Group : LoadFromJson(<<g>>)

DBSpecNoLoad == DBInit /\ [][DBNextNoLoad]_dbVars

DBSpec == DBInit /\ [][DBNext]_dbVars

-----------------------------------------------------------------------------
DBTypeOK ==
    /\ instance_groups \in Seq(Group)
    /\ Len(instance_groups) <= MaxGroups
    /\ acloud_translator_optout \in BOOLEAN

(* R1: no two groups share a (group name, home directory) pair.           *)
UniqueGroupKeys ==
    \A j, k \in DOMAIN instance_groups :
        /\ instance_groups[j].name = instance_groups[k].name
        /\ instance_groups[j].home = instance_groups[k].home
        => j = k

(* R2: an instance id names at most one instance of the whole registry.   *)
UniqueInstanceIds ==
    \A j, k \in DOMAIN instance_groups :
        j # k => Ids(instance_groups[j]) \cap Ids(instance_groups[k]) = {}

(* P6/P7 of the spec: FindGroups returns, in registry order, exactly the  *)
(* groups the filter semantics of the query engine accept (so the empty    *)
(* filter lists every group), and FindInstances returns each instance that *)
(* the filter accepts exactly once.  The reference is stated over index    *)
(* sets, independently of the SelectSeq/FlattenSeq translation.           *)
SpecGroupMatch(param, g) ==
    /\ param.home \in {None, g.home}
    /\ param.group_name \in {None, g.name}
    /\ param.id \in {None} \cup Ids(g)
    /\ param.instance_name \in {None} \cup
                  { g.instances[i].name : i \in DOMAIN g.instances }

SubSeqAt(s, K) ==
    LET idx == SetToSortSeq(K, <) IN [j \in DOMAIN idx |-> s[idx[j]]]

(* The <<group index, instance index>> pairs the filter accepts.          *)
SpecInstances(param) ==
    UNION { { <<k, i>> :
                i \in { i \in DOMAIN instance_groups[k].instances :
                          /\ param.id \in {None, instance_groups[k].instances[i].id}
                          /\ param.instance_name \in
                                 {None, instance_groups[k].instances[i].name} } } :
            k \in { k \in DOMAIN instance_groups :
                      SpecGroupMatch([param EXCEPT !.id = None, !.instance_name = None],
                                     instance_groups[k]) } }

QueryEngineAgreesWithSpec ==
    \A param \in FindParam :
        /\ FindGroups(instance_groups, param) =
              SubSeqAt(instance_groups,
                       { k \in DOMAIN instance_groups : SpecGroupMatch(param, instance_groups[k]) })
        /\ LET found == FindInstances(instance_groups, param) IN
              /\ Range(found) =
                    { instance_groups[p[1]].instances[p[2]] : p \in SpecInstances(param) }
              /\ Len(found) = Cardinality(SpecInstances(param))

(* Spec 4.C: a filter built from a client's query list accepts a group    *)
(* when every query holds of it (AND), and the list is refused exactly     *)
(* when it names an unknown field or an instance_id that is not a number.  *)
(* Checked for every list that names each field at most once, against     *)
(* the groups FindGroups returns for the FindParam ParamFromQueries built. *)
KnownFields == {"home", "instance_id", "group_name", "instance_name"}

QueryValues ==
    [home |-> Homes, instance_id |-> {ToString(i) : i \in InstanceIds} \cup {"1x"},
     group_name |-> GroupNames, instance_name |-> InstanceNames, flavor |-> {"x"}]

Queries == UNION { {[field |-> f, value |-> v] : v \in QueryValues[f]} : f \in DOMAIN QueryValues }

QueryLists ==
    { qs \in SeqOf(Queries, 2) : \A i, j \in DOMAIN qs : qs[i].field = qs[j].field => i = j }

QueryHolds(q, g) ==
    CASE q.field = "home" -> q.value = g.home
      [] q.field = "group_name" -> q.value = g.name
      [] q.field = "instance_id" -> q.value \in {ToString(i) : i \in Ids(g)}
      [] q.field = "instance_name" ->
             q.value \in { g.instances[i].name : i \in DOMAIN g.instances }

QueriesSelectAsSpecified ==
    \A qs \in QueryLists :
        LET res == ParamFromQueries(qs) IN
        /\ res.ok <=> \A i \in DOMAIN qs : /\ qs[i].field \in KnownFields
                                          /\ qs[i].value # "1x"
        /\ res.ok =>
              FindGroups(instance_groups, res.param) =
                 SubSeqAt(instance_groups,
                          { k \in DOMAIN instance_groups :
                              \A i \in DOMAIN qs : QueryHolds(qs[i], instance_groups[k]) })
=============================================================================
