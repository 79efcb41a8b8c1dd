------------------------------- MODULE Catalog -------------------------------
(***************************************************************************)
(* The catalog file of plankton-core (value_resolver.rs) and the operations *)
(* of a change set on it (core password_changes.rs).  The desktop edits the *)
(* file one command at a time; a change set edits a copy that replaces the  *)
(* file when every operation succeeded.  PasswordChanges.tla has the        *)
(* handlers around this; here is what an operation does to the passwords,   *)
(* to the items they belong to and to their exposure policies.              *)
(***************************************************************************)
EXTENDS Naturals

CONSTANTS
  Resource, Locator, Value, Item, Label,
  Policy, Default,   \* exposure policies, and the one of a field without any
  OwnLabel,          \* the label of a field that was given none
  MaxSteps           \* bound: commands and operations

VARIABLES
  file,    \* secrets.toml
  draft,   \* the copy a change set edits
  editing, \* whether it does
  source,  \* what the backends hold for each locator
  op,      \* history: the operation of the last step
  steps

vars == <<file, draft, editing, source, op, steps>>

None == "none"
\* Metadata of a field: its logical item, the stable record identifier, the label,
\* and the three keys of exposure.rs.
NoMeta == [item |-> None, record |-> <<None, None>>, label |-> None,
           policy |-> None, default |-> None, mode |-> None]
NoImport == [locator |-> None, value |-> None, meta |-> NoMeta]

Init ==
  /\ file = [secrets |-> [r \in Resource |-> None],
             literals |-> [r \in Resource |-> NoMeta],
             imports |-> [r \in Resource |-> NoImport]]
  /\ draft = file /\ editing = FALSE
  /\ source \in [Locator -> Value] /\ op = None /\ steps = 0

-----------------------------------------------------------------------------
\* Reading a catalog.
Literal(c, r)  == c.secrets[r] # None
Imported(c, r) == c.imports[r].locator # None
Fields(c) == {r \in Resource : Literal(c, r) \/ Imported(c, r)}
\* What rename_local_secret_entry and the deletions count as an entry.
Known(c) == Fields(c) \cup {r \in Resource : c.literals[r] # NoMeta}

\* field_metadata_mut: a reference comes before a literal.
Meta(c, r) == IF Imported(c, r) THEN c.imports[r].meta ELSE c.literals[r]

\* exposure_policy_from_metadata, item_exposure_policy_from_metadata,
\* inherits_exposure_policy.
Effective(m) == IF m.policy = None THEN Default ELSE m.policy
ItemDefault(m) == IF m.default = None THEN Default ELSE m.default
Inherits(m) == m.mode = "inherit" \/ m.policy = None

\* catalog_entries: a reference hides a literal; its snapshot hides the backend.
Read(c, r) ==
  CASE Imported(c, r) /\ c.imports[r].value # None -> c.imports[r].value
    [] Imported(c, r) /\ c.imports[r].value = None -> source[c.imports[r].locator]
    [] OTHER -> c.secrets[r]

\* comparable_value.
Comparable(c, r) == IF Literal(c, r) THEN c.secrets[r] ELSE Read(c, r)

\* project_password_catalog: which item a field belongs to.
Seed(c, r) ==
  IF Imported(c, r) THEN <<"source", c.imports[r].locator>> ELSE <<"literal", r>>
Explicit(c, i) ==
  {m.record : m \in {n \in {c.literals[r] : r \in Resource} \cup
                           {c.imports[r].meta : r \in Resource} :
                       n.item = i /\ n.record # NoMeta.record}}
RecordId(c, r) ==
  LET m == Meta(c, r)
      known == Explicit(c, m.item) IN
  CASE m.item # None /\ (\E id \in known : known = {id}) -> CHOOSE id \in known : TRUE
    [] m.item # None /\ ~(\E id \in known : known = {id}) -> <<"item", m.item>>
    [] m.item = None /\ m.record # NoMeta.record -> m.record
    [] OTHER -> Seed(c, r)
Records(c) == {RecordId(c, r) : r \in Fields(c)}
Members(c, id) == {r \in Fields(c) : RecordId(c, r) = id}

\* The item takes its identifier and its default policy from its first field: a
\* literal when it has one.
Heads(c, id) ==
  LET literals == {r \in Members(c, id) : Literal(c, r)} IN
  IF literals # {} THEN literals ELSE Members(c, id)
ItemId(c, r) ==
  CASE Meta(c, r).item # None -> Meta(c, r).item
    [] Meta(c, r).item = None /\ Imported(c, r) -> c.imports[r].locator
    [] OTHER -> r
LabelOf(c, r) == IF Meta(c, r).label = None THEN OwnLabel[r] ELSE Meta(c, r).label
Labels(c, id) == {LabelOf(c, r) : r \in Members(c, id)}

-----------------------------------------------------------------------------
\* Writing the metadata of the fields in the domain of "metas".
WithMeta(c, metas) ==
  [c EXCEPT
     !.imports = [r \in Resource |->
        IF r \in DOMAIN metas /\ Imported(c, r)
          THEN [c.imports[r] EXCEPT !.meta = metas[r]] ELSE c.imports[r]],
     !.literals = [r \in Resource |->
        IF r \in DOMAIN metas /\ Literal(c, r) /\ ~Imported(c, r)
          THEN metas[r] ELSE c.literals[r]]]

\* delete_field_record, delete_local_secret_entries_at.
Without(c, S) ==
  [secrets |-> [r \in Resource |-> IF r \in S THEN None ELSE c.secrets[r]],
   literals |-> [r \in Resource |-> IF r \in S THEN NoMeta ELSE c.literals[r]],
   imports |-> [r \in Resource |-> IF r \in S THEN NoImport ELSE c.imports[r]]]

Renamed(c, r, n) ==
  LET Moved(f, none) == [f EXCEPT ![r] = none, ![n] = f[r]] IN
  [secrets |-> Moved(c.secrets, None), literals |-> Moved(c.literals, NoMeta),
   imports |-> Moved(c.imports, NoImport)]

\* upsert_local_secret_literal_at.
UpsertedBeside(c, r, v, m) ==      \* mutant: the reference stays
  [c EXCEPT !.secrets[r] = v, !.literals[r] = m]
Upserted(c, r, v, m) ==
  [c EXCEPT !.secrets[r] = v, !.literals[r] = m, !.imports[r] = NoImport]

\* register_secret_references_at, import_secret_references_at_with_programs.
Referenced(c, r, l, v, m) ==
  [Without(c, {r}) EXCEPT !.imports[r] = [locator |-> l, value |-> v, meta |-> m]]

\* store_item_exposure_policy; None as the custom policy inherits.
StoreItemPolicy(m, default, custom) ==
  [m EXCEPT !.policy = IF custom = None THEN default ELSE custom,
            !.default = default,
            !.mode = IF custom = None THEN "inherit" ELSE "custom"]

\* assign_field_to_target keeps the effective policy of a field that moves.
CustomWhenMovedInheriting(m, default) ==        \* mutant: the new default counts
  IF Inherits(m) THEN None ELSE Effective(m)
CustomWhenMoved(m, default) ==
  IF ~Inherits(m) \/ Effective(m) # default THEN Effective(m) ELSE None

Assigned(c, S, id, item, default) ==
  WithMeta(c, [r \in S |->
    LET m == Meta(c, r)
        d == IF default = None THEN ItemDefault(m) ELSE default IN
    [StoreItemPolicy(m, d, CustomWhenMoved(m, d)) EXCEPT !.record = id, !.item = item]])

-----------------------------------------------------------------------------
\* Commands of the desktop, on the file.
Step == steps < MaxSteps /\ steps' = steps + 1
Writes(c) == file' = c /\ draft' = c /\ UNCHANGED <<editing, source>>
Command == Step /\ ~editing /\ op' = None

Given == [item : Item \cup {None}, policy : Policy \cup {None}]
MetaOf(g) == [NoMeta EXCEPT !.item = g.item, !.policy = g.policy]

Upsert(r, v, g) == Command /\ Writes(Upserted(file, r, v, MetaOf(g)))
Import(r, l, g) ==
  Command /\ source[l] # None /\ Writes(Referenced(file, r, l, source[l], MetaOf(g)))
Register(r, l, g) == Command /\ Writes(Referenced(file, r, l, None, MetaOf(g)))

\* update_imported_secret_reference_at replaces the metadata.
UpdateReference(r, g) ==
  /\ Command /\ Imported(file, r)
  /\ Writes([file EXCEPT !.imports[r].meta = MetaOf(g)])

\* refresh_imported_secret_reference_at, update_imported_secret_snapshots_at.
Refresh(r) ==
  /\ Command /\ Imported(file, r) /\ source[file.imports[r].locator] # None
  /\ Writes([file EXCEPT !.imports[r].value = source[file.imports[r].locator]])
Snapshot(r, v) ==
  Command /\ Imported(file, r) /\ Writes([file EXCEPT !.imports[r].value = v])

Delete(S) == Command /\ S \cap Known(file) # {} /\ Writes(Without(file, S))
RenameEntry(r, n) ==
  /\ Command /\ r # n /\ r \in Known(file) /\ n \notin Known(file)
  /\ Writes(Renamed(file, r, n))

\* The item is edited in its own backend, or the backend is locked.
SourceChanges(l, v) ==
  Command /\ source[l] # v /\ source' = [source EXCEPT ![l] = v]
  /\ UNCHANGED <<file, draft, editing>>

-----------------------------------------------------------------------------
\* Operations of a change set, on its copy (apply_operations).
Edits(c) == draft' = c /\ editing' = TRUE /\ UNCHANGED <<file, source>>
Performs(name) == Step /\ op' = name

UpdateItem(id, next, replace) ==
  /\ Performs("update") /\ id \in Records(draft)
  /\ Edits(WithMeta(draft, [r \in Members(draft, id) |->
       [Meta(draft, r) EXCEPT !.record = id,
          !.item = IF next # None THEN next ELSE IF replace THEN None ELSE @,
          !.label = IF replace THEN None ELSE @]]))

RenameUnchecked(r, n) ==            \* mutant: an existing name is taken over
  Performs("rename") /\ r # n /\ r \in Fields(draft) /\ Edits(Renamed(draft, r, n))
RenameResource(r, n) ==
  /\ Performs("rename") /\ r # n /\ r \in Fields(draft) /\ n \notin Fields(draft)
  /\ Edits(Renamed(draft, r, n))

LabelFree(r, label) ==
  \A q \in Members(draft, RecordId(draft, r)) \ {r} : LabelOf(draft, q) # label
Labelled(c, r, label) ==
  WithMeta(c, [q \in {r} |-> [Meta(c, q) EXCEPT !.label = label]])
RenameFieldLabel(r, label) ==
  /\ Performs("label") /\ r \in Fields(draft) /\ LabelOf(draft, r) # label /\ LabelFree(r, label)
  /\ Edits(Labelled(draft, r, label))

Custom(c, r, p) ==
  WithMeta(c, [q \in {r} |-> [Meta(c, q) EXCEPT !.policy = p, !.mode = "custom"]])
SetFieldPolicy(r, p) ==
  Performs("policy") /\ r \in Fields(draft) /\ Edits(Custom(draft, r, p))
UpdateField(r, label, p) ==
  /\ Performs("policy") /\ r \in Fields(draft) /\ (LabelOf(draft, r) = label \/ LabelFree(r, label))
  /\ Edits(Custom(Labelled(draft, r, label), r, p))

SetItemPolicy(id, p) ==
  /\ Performs("item policy") /\ id \in Records(draft)
  /\ Edits(WithMeta(draft, [r \in Members(draft, id) |->
       LET m == Meta(draft, r) IN
       StoreItemPolicy(m, p, IF Inherits(m) THEN None ELSE Effective(m))]))

InheritFieldPolicy(r) ==
  /\ Performs("policy") /\ r \in Fields(draft)
  /\ \E head \in Heads(draft, RecordId(draft, r)) :
       Edits(WithMeta(draft, [q \in {r} |->
         StoreItemPolicy(Meta(draft, q), ItemDefault(Meta(draft, head)), None)]))

\* field_target: an item there is, or a new one with a title.
MoveField(r, id) ==
  /\ Performs("move") /\ r \in Fields(draft) /\ id # RecordId(draft, r) /\ id \in Records(draft)
  /\ LabelOf(draft, r) \notin Labels(draft, id)
  /\ \E head \in Heads(draft, id) :
       Edits(Assigned(draft, {r}, id, ItemId(draft, head), ItemDefault(Meta(draft, head))))
MoveToNewItem(r, i) ==
  /\ Performs("move") /\ r \in Fields(draft) /\ <<"item", i>> # RecordId(draft, r)
  /\ \A q \in Fields(draft) : ItemId(draft, q) # i
  /\ Edits(Assigned(draft, {r}, <<"item", i>>, i, None))

MergeItems(from, to) ==
  /\ Performs("move") /\ {from, to} \subseteq Records(draft) /\ from # to
  /\ Labels(draft, from) \cap Labels(draft, to) = {}
  /\ \E head \in Heads(draft, to) :
       Edits(Assigned(draft, Members(draft, from), to, ItemId(draft, head),
                      ItemDefault(Meta(draft, head))))

DeleteField(r) == Performs("delete") /\ r \in Fields(draft) /\ Edits(Without(draft, {r}))
DeleteItem(id) ==
  Performs("delete") /\ id \in Records(draft) /\ Edits(Without(draft, Members(draft, id)))
DuplicatesUncompared(r, q) == r # q                   \* mutant
Duplicates(r, q) ==
  r # q /\ Comparable(draft, r) = Comparable(draft, q) /\ Comparable(draft, r) # None
DeleteDuplicateField(r, q) ==
  /\ Performs("duplicate") /\ {r, q} \subseteq Fields(draft) /\ Duplicates(r, q)
  /\ Edits(Without(draft, {r}))

RefreshItem(id) ==
  /\ Performs("refresh") /\ id \in Records(draft)
  /\ LET stale == {r \in Members(draft, id) : Imported(draft, r)} IN
     /\ \A r \in stale : source[draft.imports[r].locator] # None
     /\ Edits([draft EXCEPT !.imports = [r \in Resource |->
                 IF r \in stale
                   THEN [draft.imports[r] EXCEPT !.value = source[draft.imports[r].locator]]
                   ELSE draft.imports[r]]])

\* Every operation succeeded, or one did not.
Commit == editing /\ file' = draft /\ editing' = FALSE /\ UNCHANGED <<draft, source, op, steps>>
Abandon == editing /\ draft' = file /\ editing' = FALSE /\ UNCHANGED <<file, source, op, steps>>

-----------------------------------------------------------------------------
\* catalog_diff, as far as it is about policies: an item that both sides have is
\* compared, and in it the fields that both sides have there.
DiffedItems == Records(file) \cap Records(draft)
PolicyEntries(id) ==
  {r \in Members(file, id) \cap Members(draft, id) :
     Effective(Meta(file, r)) # Effective(Meta(draft, r))}
DiffShowsPolicy(r) == \E id \in DiffedItems : r \in PolicyEntries(id)

Commands ==
  \/ \E r \in Resource, g \in Given :
       \/ \E v \in Value : Upsert(r, v, g)
       \/ \E l \in Locator : Import(r, l, g) \/ Register(r, l, g)
       \/ UpdateReference(r, g)
  \/ \E r \in Resource : Refresh(r) \/ (\E v \in Value : Snapshot(r, v))
  \/ \E S \in SUBSET Resource : Delete(S)
  \/ \E r, n \in Resource : RenameEntry(r, n)
  \/ \E l \in Locator, v \in Value \cup {None} : SourceChanges(l, v)

Operations ==
  \/ \E id \in Records(draft) :
       \/ \E next \in Item \cup {None}, replace \in BOOLEAN : UpdateItem(id, next, replace)
       \/ \E p \in Policy : SetItemPolicy(id, p)
       \/ \E r \in Resource : MoveField(r, id)
       \/ \E to \in Records(draft) : MergeItems(id, to)
       \/ DeleteItem(id) \/ RefreshItem(id)
  \/ \E r \in Resource :
       \/ \E q \in Resource : RenameResource(r, q) \/ DeleteDuplicateField(r, q)
       \/ \E label \in Label :
            RenameFieldLabel(r, label) \/ (\E p \in Policy : UpdateField(r, label, p))
       \/ \E p \in Policy : SetFieldPolicy(r, p)
       \/ InheritFieldPolicy(r) \/ DeleteField(r)
       \/ \E i \in Item : MoveToNewItem(r, i)

Next == Commands \/ Operations \/ Commit \/ Abandon
Spec == Init /\ [][Next]_vars

-----------------------------------------------------------------------------
\* A password has one home, and leaves no metadata behind that a later password of
\* the same name would take over, its exposure policy included.
HasOneHome(c) ==
  \A r \in Resource :
    /\ ~(Literal(c, r) /\ Imported(c, r))
    /\ c.literals[r] # NoMeta => Literal(c, r)
OneHome == HasOneHome(file) /\ HasOneHome(draft)

\* The exposure policy of a field changes by an operation about policies and by no
\* other: moving it to an item with another default, merging items, replacing their
\* metadata or relabelling keep it (assign_field_to_target, apply_metadata_update).
AboutPolicy(r) == op' = "policy" \/ (op' = "item policy" /\ Inherits(Meta(draft, r)))
KeepsPolicies ==
  (editing' /\ draft' # draft) =>
    \A r \in Fields(draft) :
      (r \in Fields(draft)' /\ Effective(Meta(draft, r))' # Effective(Meta(draft, r)))
        => AboutPolicy(r)
PolicyKept == [][KeepsPolicies]_vars

\* A change set loses a password only by deleting it: after a rename, a move, a merge
\* or the removal of a duplicate somebody can still read every value.
Readable(c) == {Read(c, r) : r \in Fields(c)}
KeepsSecrets ==
  (editing' /\ ~Readable(draft) \subseteq Readable(draft)') => op' \in {"delete", "refresh"}
SecretsSurvive == [][KeepsSecrets]_vars

\* What a change set does to an exposure policy is in the diff that is confirmed: the
\* operations of one change identifier form "one cumulative diff" (cli main.rs 482).
PolicyChangeIsShown ==
  \A r \in Fields(file) \cap Fields(draft) :
    Effective(Meta(file, r)) # Effective(Meta(draft, r)) => DiffShowsPolicy(r)

-----------------------------------------------------------------------------
(* What the two files and the backends hold, for the proofs.               *)
Absence == None \notin Value \cup Locator \cup Policy \cup {Default}

Policies == Policy \cup {Default, None}
Names == Item \cup Locator \cup Resource \cup {None}
MetaType ==
  [item : Names, record : {"source", "literal", "item", None} \X Names,
   label : Label \cup {None}, policy : Policies, default : Policies,
   mode : {"inherit", "custom", None}]
ImportType ==
  [locator : Locator \cup {None}, value : Value \cup {None}, meta : MetaType]
CatalogType ==
  [secrets : [Resource -> Value \cup {None}], literals : [Resource -> MetaType],
   imports : [Resource -> ImportType]]
TypeOK ==
  /\ file \in CatalogType /\ draft \in CatalogType
  /\ source \in [Locator -> Value \cup {None}]

IInv == TypeOK /\ OneHome
=============================================================================
