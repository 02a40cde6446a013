------------------------------- MODULE Records -------------------------------
(***************************************************************************)
(* The records of state-actix that users edit, and the import of a legacy  *)
(* installation.                                                           *)
(*                                                                         *)
(* A combo's name is checked under one lock and written under another, and *)
(* so is a provider node looked up and changed.  Ids are the lowest free   *)
(* number from the size of the list on, so they come back.  The import     *)
(* reads, each under a lock of its own, the connections, the pools and the *)
(* combos there are; by these lists it judges every row of the legacy      *)
(* file, and writes the new ones one by one while users go on editing.     *)
(*                                                                         *)
(* A connection is of a provider with an adapter (Builtin) or of a node.   *)
(* serial stands for the time of a write: records keep when they were      *)
(* written, requests when they looked.                                     *)
(***************************************************************************)
EXTENDS Naturals, Sequences, FiniteSets

CONSTANTS
    Editors,       \* requests that may be in flight at once
    Names,         \* names of combos, pools and connections
    Legacy,        \* the rows of the legacy file
    MaxEdits,      \* bound: requests
    MaxNodes       \* bound: provider nodes at once

VARIABLES
    combos,     \* the combos: when each got its name and when that name was checked
    nodes,      \* the provider nodes: when each was created
    links,      \* the provider connections
    proxies,    \* the proxy pools
    options,    \* the settings that a legacy file has too: who wrote them last
    serial,     \* writes so far
    tasks,      \* the requests, with the step each is at
    owed,       \* history: what an import must report if nothing is edited before it ends
    edits       \* requests so far

recordVars == <<combos, nodes, links, proxies, options, serial, tasks, owed, edits>>
-----------------------------------------------------------------------------
Builtin == 0
Nobody == "nobody"      \* the request of an edit that is one step
Unknown == 99           \* there were edits since the last import
NodeIds == 1..(2 * MaxNodes)
Kinds == {"link", "proxy", "combo"}
Auths == {"apikey", "oauth"}

\* One row of a legacy file: skipped when it is blank, which is a connection
\* with no provider, a pool with no name, a combo with no name or no models.
Row(kind, name, auth, blank) == [kind |-> kind, name |-> name, auth |-> auth, blank |-> blank]
LegacyRows == {Row(kind, name, auth, blank) : kind \in Kinds, name \in Names, auth \in Auths, blank \in BOOLEAN}

\* Connections come first in a file, then pools, then combos: the import's order.
Place == [kind \in Kinds |-> CASE kind = "link" -> 1 [] kind = "proxy" -> 2 [] kind = "combo" -> 3]
ASSUME RecordsAssumption ==
    /\ Legacy \in Seq(LegacyRows)
    /\ \A i, j \in DOMAIN Legacy : i < j => Place[Legacy[i].kind] <= Place[Legacy[j].kind]
    /\ Nobody \notin Editors /\ MaxEdits \in Nat /\ MaxNodes \in Nat

Rest == [step |-> "over", id |-> 0, name |-> "none", known |-> {}, began |-> 0, checked |-> 0,
         row |-> 0, dry |-> FALSE, added |-> 0, clean |-> FALSE, owed |-> Unknown]
TaskSteps == {"over", "named", "found", "pools", "combos", "rows", "imported"}

RecordsTypeOK ==
    /\ combos \subseteq [id : Nat, name : Names, at : Nat, checked : Nat]
    /\ nodes \subseteq [id : NodeIds, life : Nat]
    /\ links \subseteq [uid : Nat, provider : {Builtin} \cup NodeIds, name : Names, auth : Auths,
                        life : Nat, at : Nat]
    /\ proxies \subseteq [uid : Nat, name : Names]
    /\ options \in {"unset", "user", "legacy"}
    /\ serial \in Nat /\ edits \in 0..MaxEdits
    /\ owed \in Nat
    /\ \A e \in Editors : DOMAIN tasks[e] = DOMAIN Rest /\ tasks[e].step \in TaskSteps

RecordsInit ==
    /\ combos = {} /\ nodes = {} /\ links = {} /\ proxies = {}
    /\ options = "unset"
    /\ serial = 0 /\ edits = 0 /\ owed = Unknown
    /\ tasks = [e \in Editors |-> Rest]
-----------------------------------------------------------------------------
Free(e) == tasks[e].step \in {"over", "imported"} /\ edits < MaxEdits
Goes(e, task) == tasks' = [tasks EXCEPT ![e] = task]

\* A request begins with a look at the records.
Opens(e, task) == Free(e) /\ edits' = edits + 1 /\ Goes(e, task)

\* A record is written by the request e, which then is at task: every import
\* in flight but this one has seen an edit.
Writes(e, task) ==
    /\ serial' = serial + 1
    /\ owed' = Unknown
    /\ tasks' = [f \in Editors |-> IF f = e THEN task ELSE [tasks[f] EXCEPT !.clean = FALSE]]
Edits == edits < MaxEdits /\ edits' = edits + 1 /\ Writes(Nobody, Rest)

\* Counted without a look at the ids there are.
CountedId(count, ids) == count + 1
\* The first id from the size of the list on that no record has.
LowestFree(count, ids) == CHOOSE n \in (count + 1)..(2 * count + 1) :
    n \notin ids /\ \A m \in (count + 1)..(n - 1) : m \in ids
IdsOf(set) == {r.id : r \in set}

\* Every name is found free.
NameUnchecked(name, except) == FALSE
\* Is the name a combo's, except the combo of this id?
ComboNameExists(name, except) == \E c \in combos : c.name = name /\ c.id # except

\* Creating a combo, or giving one another name: the name is looked up ...
CheckName(e, name, id) ==
    /\ ~ComboNameExists(name, id)
    /\ Opens(e, [Rest EXCEPT !.step = "named", !.id = id, !.name = name, !.checked = serial])
    /\ UNCHANGED <<combos, nodes, links, proxies, options, serial, owed>>

Combo(id, task) == [id |-> id, name |-> task.name, at |-> serial, checked |-> task.checked]
NextComboId == LowestFree(Cardinality(combos), IdsOf(combos))

\* ... and then the combo is written, unless it is gone: the answer is 404.
CreateCombo(e) ==
    LET t == tasks[e] IN
    /\ t.step = "named" /\ t.id = 0
    /\ combos' = combos \cup {Combo(NextComboId, t)}
    /\ Writes(e, Rest)
    /\ UNCHANGED <<nodes, links, proxies, options, edits>>
UpdateCombo(e) ==
    LET t == tasks[e] IN
    /\ t.step = "named" /\ t.id \in IdsOf(combos)
    /\ combos' = {IF c.id = t.id THEN Combo(t.id, t) ELSE c : c \in combos}
    /\ Writes(e, Rest)
    /\ UNCHANGED <<nodes, links, proxies, options, edits>>
NotFound(e) ==
    LET t == tasks[e] IN
    /\ \/ t.step = "named" /\ t.id # 0 /\ t.id \notin IdsOf(combos)
       \/ t.step = "found" /\ t.id \notin IdsOf(nodes)
    /\ Goes(e, Rest)
    /\ UNCHANGED <<combos, nodes, links, proxies, options, serial, owed, edits>>

DeleteCombo(c) ==
    /\ c \in combos
    /\ combos' = combos \ {c}
    /\ Edits
    /\ UNCHANGED <<nodes, links, proxies, options>>
-----------------------------------------------------------------------------
\* A node's id is free among all nodes, not among the providers connections name.
NextProviderNodeId == LowestFree(Cardinality(nodes), IdsOf(nodes))
CreateNode ==
    /\ Cardinality(nodes) < MaxNodes
    /\ nodes' = nodes \cup {[id |-> NextProviderNodeId, life |-> serial + 1]}
    /\ Edits
    /\ UNCHANGED <<combos, links, proxies, options>>

\* A change looks the node up for its type and then writes what was sent to
\* whatever node has this id.
FindNode(e, id) ==
    /\ id \in IdsOf(nodes)
    /\ Opens(e, [Rest EXCEPT !.step = "found", !.id = id])
    /\ UNCHANGED <<combos, nodes, links, proxies, options, serial, owed>>
UpdateNode(e) ==
    /\ tasks[e].step = "found" /\ tasks[e].id \in IdsOf(nodes)
    /\ Writes(e, Rest)
    /\ UNCHANGED <<combos, nodes, links, proxies, options, edits>>

\* The connections stay behind.
DeleteOnlyNode(n) ==
    /\ n \in nodes
    /\ nodes' = nodes \ {n}
    /\ Edits
    /\ UNCHANGED <<combos, links, proxies, options>>
\* The node goes with the connections of it.
DeleteNode(n) ==
    /\ n \in nodes
    /\ nodes' = nodes \ {n}
    /\ links' = {l \in links : l.provider # n.id}
    /\ Edits
    /\ UNCHANGED <<combos, proxies, options>>
-----------------------------------------------------------------------------
\* When the node of this id was created, 0 when there is none.
Life(provider) == IF provider \in IdsOf(nodes) THEN (CHOOSE n \in nodes : n.id = provider).life ELSE 0

\* An API key's connection of this provider and name is written over and keeps
\* its id and its kind; else there is a new connection.
Stored(provider, name, auth) ==
    LET over == {l \in links : l.provider = provider /\ l.name = name /\ l.auth = "apikey"}
        new == [uid |-> serial, provider |-> provider, name |-> name, auth |-> auth,
                life |-> Life(provider), at |-> serial]
    IN  IF over = {} THEN links \cup {new}
        ELSE LET old == CHOOSE l \in over : \A m \in over : l.uid <= m.uid
             IN  (links \ {old}) \cup {[new EXCEPT !.uid = old.uid, !.auth = old.auth]}

CreateLink(provider, name) ==
    /\ links' = Stored(provider, name, "apikey")
    /\ Edits
    /\ UNCHANGED <<combos, nodes, proxies, options>>
DeleteLink(l) ==
    /\ l \in links
    /\ links' = links \ {l}
    /\ Edits
    /\ UNCHANGED <<combos, nodes, proxies, options>>

\* A pool's name need not be its own, and it may be given another.
NewProxy(name) == [uid |-> serial, name |-> name]
EditProxy(p, name) ==
    /\ p \in proxies \cup {NewProxy(name)}
    /\ proxies' = (proxies \ {p}) \cup {[p EXCEPT !.name = name]}
    /\ Edits
    /\ UNCHANGED <<combos, nodes, links, options>>
DeleteProxy(p) ==
    /\ p \in proxies
    /\ proxies' = proxies \ {p}
    /\ Edits
    /\ UNCHANGED <<combos, nodes, links, options>>

\* The fields sent replace those there are, the others stay.
PutSettings ==
    /\ edits < MaxEdits /\ edits' = edits + 1
    /\ options' = "user"
    /\ UNCHANGED <<combos, nodes, links, proxies, serial, tasks, owed>>
-----------------------------------------------------------------------------
Key(kind, name) == <<kind, name>>

\* Only the blank rows are passed over.
SkipsBlank(t, row) == row.blank
\* A row that is blank, or of a record that was there, is passed over; a dry
\* run counts the others, a real one writes them.
Skipped(t, row) == row.blank \/ Key(row.kind, row.name) \in t.known
ToWrite(t, from) == {i \in from..Len(Legacy) : ~Skipped(t, Legacy[i])}
NextRow(t, from) == CHOOSE i \in ToWrite(t, from) \cup {Len(Legacy) + 1} :
    \A j \in ToWrite(t, from) : i <= j

\* The import reads the file and, one lock after the other, what there is.
ReadLinks(e, dry) ==
    /\ Opens(e, [Rest EXCEPT !.step = "pools", !.dry = dry, !.began = serial, !.owed = owed,
                 !.clean = TRUE,
                 !.known = {Key("link", l.name) : l \in {m \in links : m.provider = Builtin}}])
    /\ UNCHANGED <<combos, nodes, links, proxies, options, serial, owed>>
ReadPools(e) ==
    /\ tasks[e].step = "pools"
    /\ Goes(e, [tasks[e] EXCEPT !.step = "combos", !.known = @ \cup {Key("proxy", p.name) : p \in proxies}])
    /\ UNCHANGED <<combos, nodes, links, proxies, options, serial, owed, edits>>
ReadCombos(e) ==
    LET t == [tasks[e] EXCEPT !.known = @ \cup {Key("combo", c.name) : c \in combos}] IN
    /\ t.step = "combos"
    /\ Goes(e, [t EXCEPT !.step = "rows", !.checked = serial,
                !.row = IF t.dry THEN Len(Legacy) + 1 ELSE NextRow(t, 1),
                !.added = IF t.dry THEN Cardinality(ToWrite(t, 1)) ELSE 0])
    /\ UNCHANGED <<combos, nodes, links, proxies, options, serial, owed, edits>>

WriteRow(e) ==
    LET t == tasks[e]
        row == Legacy[t.row]
    IN
    /\ t.step = "rows" /\ t.row <= Len(Legacy)
    /\ links' = IF row.kind = "link" THEN Stored(Builtin, row.name, row.auth) ELSE links
    /\ proxies' = IF row.kind = "proxy" THEN proxies \cup {NewProxy(row.name)} ELSE proxies
    /\ combos' = IF row.kind = "combo"
                 THEN combos \cup {Combo(NextComboId, [t EXCEPT !.name = row.name])} ELSE combos
    /\ Writes(e, [t EXCEPT !.row = NextRow(t, t.row + 1), !.added = @ + 1])
    /\ UNCHANGED <<nodes, options, edits>>

\* The settings of the file replace those there are; then the import reports.
\* If nobody edited anything meanwhile, the next one will find nothing to
\* write after a real import, and all that was counted after a dry run.
EndImport(e) ==
    LET t == tasks[e] IN
    /\ t.step = "rows" /\ t.row > Len(Legacy)
    /\ options' = IF t.dry THEN options ELSE "legacy"
    /\ owed' = IF t.clean THEN (IF t.dry THEN t.added ELSE 0) ELSE owed
    /\ Goes(e, [Rest EXCEPT !.step = "imported", !.clean = t.clean, !.added = t.added, !.owed = t.owed])
    /\ UNCHANGED <<combos, nodes, links, proxies, serial, edits>>
-----------------------------------------------------------------------------
ComboEdits ==
    \/ \E e \in Editors, name \in Names, id \in {0} \cup IdsOf(combos) : CheckName(e, name, id)
    \/ \E e \in Editors : CreateCombo(e) \/ UpdateCombo(e) \/ NotFound(e)
    \/ \E c \in combos : DeleteCombo(c)
NodeEdits ==
    \/ CreateNode
    \/ \E e \in Editors : UpdateNode(e) \/ \E id \in IdsOf(nodes) : FindNode(e, id)
    \/ \E n \in nodes : DeleteNode(n)
OtherEdits ==
    \/ \E provider \in {Builtin} \cup 1..MaxNodes, name \in Names : CreateLink(provider, name)
    \/ \E l \in links : DeleteLink(l)
    \/ \E name \in Names : \E p \in proxies \cup {NewProxy(name)} : EditProxy(p, name)
    \/ \E p \in proxies : DeleteProxy(p)
    \/ PutSettings
LegacyImport == \E e \in Editors :
    \/ \E dry \in BOOLEAN : ReadLinks(e, dry)
    \/ ReadPools(e) \/ ReadCombos(e) \/ WriteRow(e) \/ EndImport(e)

RecordsNext == ComboEdits \/ NodeEdits \/ OtherEdits \/ LegacyImport
-----------------------------------------------------------------------------
\* Two combos have one name only when the younger one's name was checked, by
\* the route or by the import's reading, before the elder one took it.  Their
\* ids, and those of the nodes, are apart all the same.
NamesApart == \A c, d \in combos : c # d =>
    /\ c.id # d.id
    /\ c.name = d.name /\ c.at < d.at => d.checked <= c.at
NodesApart == \A n, m \in nodes : n # m => n.id # m.id

\* A connection made for a node goes when that node does: the next node of the
\* same id does not inherit it.
ServesItsNode == \A l \in links : l.life # 0 => [id |-> l.provider, life |-> l.life] \in nodes

\* "Running it twice is safe": when nothing was edited in between, an import
\* reports nothing new after an import, and what was announced after a dry run.
ReportsWhatIsOwed == \A e \in Editors :
    LET t == tasks[e] IN t.step = "imported" /\ t.clean /\ t.owed # Unknown => t.added = t.owed

\* "Existing records are left alone": an import's step changes or removes no
\* connection that was written before it looked, no pool and no combo.
ImportIsAdditive == \A e \in Editors : tasks[e].row > 0 /\ tasks'[e].row > tasks[e].row =>
    /\ \A l \in links : l.at < tasks[e].began => l \in links'
    /\ combos \subseteq combos' /\ proxies \subseteq proxies' /\ nodes = nodes'

\* The records keep their names, their nodes and their owner, and the legacy
\* import keeps its promises to be additive and safe to repeat.
RecordsHold == [][(NamesApart /\ NodesApart /\ ServesItsNode /\ ReportsWhatIsOwed)' /\ ImportIsAdditive]_recordVars
=============================================================================
