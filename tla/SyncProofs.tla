----------------------------- MODULE SyncProofs -----------------------------
(***************************************************************************)
(* The synchronisation of vaults (VaultSync) and the Git checkout it pushes*)
(* through (GitCheckout) as parts of the desktop application (Desktop), for*)
(* any number of devices, edits, connections, branches and commits.  The   *)
(* inductive invariants stand beside the properties of the two components. *)
(***************************************************************************)
EXTENDS Desktop, FiniteSetTheorems, TLAPS

\* A step of one device leaves what the others have to them.
OnlyOf(d) ==
  /\ \A x \in Device \ {d} :
       /\ vault'[x] = vault[x] /\ aside'[x] = aside[x] /\ editor'[x] = editor[x]
       /\ job'[x] = job[x] /\ record'[x] = record[x] /\ branch'[x] = branch[x]

\* What is known with a revision stays known: the remote moves on by counting up.
LEMMA HeldStays ==
  ASSUME Sync!Setting, meta.version \in Sync!Counts, meta'.version \in Sync!Counts,
         RemoteKind # "git" => \/ meta' = meta /\ published' = published
                         \/ Sync!Count(meta.version) < Sync!Count(meta'.version)
  PROVE  \A version \in Sync!Revisions : \A v : Sync!Held(version, v) => Sync!Held(version, v)'
<1> SUFFICES ASSUME NEW version \in Sync!Revisions, NEW v, Sync!Held(version, v)
             PROVE  Sync!Held(version, v)'
  OBVIOUS
<1>1. CASE RemoteKind = "git"
  BY <1>1 DEF Sync!Held, Sync!Changes
<1>2. CASE RemoteKind # "git" /\ meta' = meta /\ published' = published
  BY <1>2 DEF Sync!Held, Sync!Changes, Sync!Count
<1>3. CASE RemoteKind # "git" /\ Sync!Count(meta.version) < Sync!Count(meta'.version)
  <2>1. /\ Sync!Count(version) \in Nat /\ Sync!Count(meta.version) \in Nat
        /\ Sync!Count(meta'.version) \in Nat
    BY <1>3 DEF Sync!Count, Sync!Counts, Sync!Revisions
  <2>2. Sync!Count(version) <= Sync!Count(meta.version)
    BY <1>3 DEF Sync!Held
  <2>3. version # meta'.version /\ Sync!Count(version) <= Sync!Count(meta'.version)
    BY <1>3, <2>1, <2>2
  <2>4. QED
    BY <1>3, <2>3 DEF Sync!Held, Sync!Count
<1>4. QED
  BY <1>1, <1>2, <1>3

\* What the other devices know survives a step that publishes: their revisions fall behind,
\* and none of them holds the lock or is about to push the branch that moved.
LEMMA OthersKeep ==
  ASSUME Sync!IInv, NEW d \in Device, NEW x \in Device \ {d}, OnlyOf(d),
         published \subseteq published', meta'.version \in Sync!Counts,
         RemoteKind # "git" => \/ meta' = meta /\ published' = published
                         \/ Sync!Count(meta.version) < Sync!Count(meta'.version),
         job[x].pc \in {"locked", "written"} =>
           lock' = lock /\ blob' = blob /\ meta' = meta /\ published' = published,
         job[x].pc = "committed" /\ branch[x] = head' => head' = head /\ blob' = blob,
         Sync!Setting
  PROVE  Sync!DeviceKeeps(x)'
<1>1. /\ vault'[x] = vault[x] /\ aside'[x] = aside[x] /\ editor'[x] = editor[x]
      /\ job'[x] = job[x] /\ record'[x] = record[x] /\ branch'[x] = branch[x]
  BY DEF OnlyOf
<1>2. Sync!DeviceKeeps(x) /\ Sync!TypeOK
  BY DEF Sync!IInv
<1>3. /\ job[x].version \in Sync!Revisions /\ record[x].revision \in Sync!Revisions
      /\ meta.version \in Sync!Counts
  BY <1>2 DEF Sync!TypeOK, Sync!Jobs
<1>4. \A version \in Sync!Revisions : \A v : Sync!Held(version, v) => Sync!Held(version, v)'
  BY <1>3, HeldStays
<1>5. Sync!BaselineIsKept(x)'
  BY <1>1, <1>2, <1>3, <1>4 DEF Sync!DeviceKeeps, Sync!BaselineIsKept, Sync!Relied, Sync!Kept,
     Sync!Changes
<1>6. Sync!EditKeeps(x)'
  BY <1>1, <1>2 DEF Sync!DeviceKeeps, Sync!EditKeeps, Sync!Relied, Sync!Changes
<1>7. Sync!RunKnowsVault(x)'
  BY <1>1, <1>2 DEF Sync!DeviceKeeps, Sync!RunKnowsVault
<1>8. Sync!RunKnowsRemote(x)'
  BY <1>1, <1>2, <1>3, <1>4 DEF Sync!DeviceKeeps, Sync!RunKnowsRemote, Sync!Changes
<1>9. Sync!RunLosesNothing(x)'
  BY <1>1, <1>2, <1>3, <1>4 DEF Sync!DeviceKeeps, Sync!RunLosesNothing, Sync!Changes
<1>10. QED
  BY <1>5, <1>6, <1>7, <1>8, <1>9 DEF Sync!DeviceKeeps

\* What a device relies on grows by what its vault holds.
GrowsInPlace(d) == Sync!Relied(d)' \subseteq Sync!Relied(d) \cup Sync!Changes(vault[d])

\* Where a run keeps its direction and its outcome, a device relies on the same.
LEMMA ReliesOnTheSame ==
  ASSUME NEW d \in Device, record' = record, job'[d].pc # "save",
         job'[d].dir = job[d].dir, job'[d].out = job[d].out
  PROVE  GrowsInPlace(d)
  BY DEF GrowsInPlace, Sync!Relied, Sync!Changes

\* What the vault of a device or a backup of it holds: a step that leaves both as they were
\* keeps them, when what is relied on grows by what is in the vault.
LEMMA StaysKept ==
  ASSUME Sync!TypeOK, NEW d \in Device, Sync!DeviceKeeps(d), GrowsInPlace(d),
         UNCHANGED <<vault, aside, editor, record>>,
         job[d].pc # "installing", job'[d].pc # "installing",
         published \subseteq published',
         Sync!Held(record[d].revision, record[d].base)'
  PROVE  Sync!BaselineIsKept(d)' /\ Sync!EditKeeps(d)'
<1>1. Sync!BaselineIsKept(d) /\ Sync!EditKeeps(d)
  BY DEF Sync!DeviceKeeps
<1>2. /\ vault[d] # NoVault => Sync!Relied(d)' \subseteq vault[d]
      /\ Sync!Relied(d)' \subseteq Sync!Kept(d)
      /\ vault[d] = NoVault => Sync!Relied(d)' \subseteq Sync!Relied(d)
  <2>1. CASE vault[d] = NoVault
    BY <1>1, <2>1 DEF GrowsInPlace, Sync!BaselineIsKept, Sync!Changes
  <2>2. CASE vault[d] # NoVault
    BY <1>1, <2>2 DEF GrowsInPlace, Sync!BaselineIsKept, Sync!Changes, Sync!Kept
  <2>3. QED
    BY <2>1, <2>2
<1>3. Sync!Kept(d)' = Sync!Kept(d)
  BY DEF Sync!Kept
<1>4. Sync!BaselineIsKept(d)'
  BY <1>1, <1>2, <1>3 DEF Sync!BaselineIsKept
<1>5. Sync!EditKeeps(d)'
  BY <1>1, <1>2 DEF Sync!EditKeeps
<1>6. QED
  BY <1>4, <1>5

\* A step that only takes a run further leaves the rest of its device as it was.
LEMMA RunGoesOn ==
  ASSUME Sync!Setting, Sync!IInv, NEW d \in Device, NEW j \in Sync!Jobs,
         job' = [job EXCEPT ![d] = j],
         UNCHANGED <<Sync!files, editor, record, blob, meta, lock, head, branch, published>>,
         job[d].pc # "installing", j.pc # "installing", GrowsInPlace(d),
         Sync!RunKnowsVault(d)', Sync!RunKnowsRemote(d)', Sync!RunLosesNothing(d)'
  PROVE  Sync!IInv'
<1>1. /\ Sync!TypeOK /\ Sync!RemoteIsPublished /\ Sync!EditsAreNew /\ Sync!DeviceKeeps(d)
      /\ vault' = vault /\ aside' = aside /\ saved' = saved
  BY DEF Sync!IInv, Sync!files
<1>2. job'[d] = j /\ \A x \in Device \ {d} : job'[x] = job[x]
  BY <1>1 DEF Sync!TypeOK
<1>3. Sync!TypeOK'
  BY <1>1 DEF Sync!TypeOK
<1>4. Sync!RemoteIsPublished' /\ Sync!EditsAreNew'
  BY <1>1 DEF Sync!RemoteIsPublished, Sync!EditsAreNew
<1>5. ASSUME NEW x \in Device \ {d} PROVE Sync!DeviceKeeps(x)'
  <2>1. OnlyOf(d)
    BY <1>1, <1>2 DEF OnlyOf
  <2>2. meta'.version \in Sync!Counts
    BY <1>3 DEF Sync!TypeOK
  <2>3. QED
    BY <2>1, <2>2, OthersKeep
<1>6. Sync!Held(record[d].revision, record[d].base)'
  BY <1>1 DEF Sync!DeviceKeeps, Sync!BaselineIsKept, Sync!Held
<1>7. Sync!BaselineIsKept(d)' /\ Sync!EditKeeps(d)'
  BY <1>1, <1>2, <1>6, StaysKept
<1>8. QED
  BY <1>3, <1>4, <1>5, <1>7 DEF Sync!IInv, Sync!DeviceKeeps

\* A run that ends, or starts over, knows nothing.
Over == {Sync!IdleJob, [Sync!IdleJob EXCEPT !.pc = "read", !.dir = "sync", !.retried = TRUE]}

\* Such a run has nothing to lose.
LEMMA OverIsOver ==
  ASSUME Sync!Setting, Sync!TypeOK, NEW d \in Device, NEW j \in Over, job'[d] = j

  PROVE  /\ j \in Sync!Jobs /\ Sync!RunKnowsVault(d)' /\ Sync!RunKnowsRemote(d)'
         /\ Sync!RunLosesNothing(d)'
         /\ j.pc # "installing" /\ (record' = record => GrowsInPlace(d))
<1>0. \/ j = Sync!IdleJob
      \/ j = [pc |-> "read", dir |-> "sync", local |-> NoVault, seen |-> NoVault,
                          version |-> NoVault, out |-> NoVault, retried |-> TRUE, at |-> 0]
  BY DEF Over, Sync!IdleJob
<1>1. /\ j.dir \in {"none", "sync"} /\ j.local = NoVault /\ j.seen = NoVault
      /\ j.version = NoVault /\ j.out = NoVault
      /\ j.pc # "idle" => j.pc = "read" /\ j.dir = "sync"
      /\ j.pc = "idle" => j = Sync!IdleJob
  BY <1>0 DEF Sync!IdleJob
<1>2. j \in Sync!Jobs
  <2>1. NoVault \in Sync!Vaults /\ NoVault \in Sync!Revisions
    BY DEF Sync!Vaults, Sync!Revisions, Sync!Counts
  <2>2. ASSUME NEW place \in {"idle", "read"}, NEW dir \in {"none", "sync"},
               NEW again \in BOOLEAN
        PROVE  [pc |-> place, dir |-> dir, local |-> NoVault, seen |-> NoVault,
                version |-> NoVault, out |-> NoVault, retried |-> again, at |-> 0] \in Sync!Jobs
    BY <2>1 DEF Sync!Jobs, Sync!Reading
  <2>3. QED
    BY <1>0, <2>2 DEF Sync!IdleJob
<1>3. Sync!RunKnowsVault(d)'
  BY <1>1 DEF Sync!RunKnowsVault, Sync!Planned, Sync!Pushing
<1>4. Sync!RunKnowsRemote(d)' /\ Sync!RunLosesNothing(d)'
  BY <1>1 DEF Sync!RunKnowsRemote, Sync!RunLosesNothing, Sync!Planned, Sync!Pushing,
     Sync!Ending
<1>5. record' = record => GrowsInPlace(d)
  BY <1>1 DEF GrowsInPlace, Sync!Relied
<1>6. QED
  BY <1>1, <1>2, <1>3, <1>4, <1>5

\* A run that failed is over, unless it starts once more: either leaves its device as it was.
LEMMA FailsOver ==
  ASSUME NEW d \in Device, Sync!Fails(d) \/ Sync!FailsOrRetries(d)
  PROVE  \E j \in Over : job' = [job EXCEPT ![d] = j]
  BY DEF Sync!Fails, Sync!FailsOrRetries, Over

\* So a failure leaves everything as it was.
LEMMA RunFails ==
  ASSUME Sync!Setting, Sync!IInv, NEW d \in Device, Sync!Fails(d) \/ Sync!FailsOrRetries(d),
         UNCHANGED <<Sync!files, editor, record, blob, meta, lock, head, branch, published>>,
         job[d].pc \notin {"idle", "installing"}
  PROVE  Sync!IInv'
<1>1. PICK j \in Over : job' = [job EXCEPT ![d] = j]
  BY FailsOver
<1>2. Sync!TypeOK
  BY DEF Sync!IInv
<1>3. job'[d] = j
  BY <1>1, <1>2 DEF Sync!TypeOK
<1>4. QED
  BY <1>1, <1>2, <1>3, OverIsOver, RunGoesOn

\* What plan_sync concludes from the two vaults and the baseline.
LEMMA PlanIsRight ==
  ASSUME NEW ours, NEW seen, NEW base
  PROVE  LET plan == Sync!Plan(ours, seen, base)
         IN  /\ plan \in {"nothing", "upload", "download", "current", "merge"}
             /\ plan \in {"upload", "merge", "current"} => ours # NoVault
             /\ plan \in {"download", "merge"} => seen # NoVault
             /\ plan = "upload" => seen \in {NoVault, base}
             /\ plan = "download" => ours \in {NoVault, base}
             /\ plan = "current" => ours = seen
  BY DEF Sync!Plan

\* A run that has seen a vault of the remote, or that there is none, plans on it.
LEMMA FetchedKeeps ==
  ASSUME Sync!Setting, Sync!IInv, NEW d \in Device, NEW seen \in Sync!Vaults,
         NEW version \in Sync!Revisions,
         job[d].pc \in {"fetch", "metadata"}, Sync!Fetched(d, seen, version),
         UNCHANGED <<Sync!files, editor, record, blob, meta, lock, head, branch, published>>,
         seen = NoVault \/ Sync!Changes(record[d].base) \subseteq seen,
         Sync!Changes(seen) \subseteq published, Sync!Held(version, seen)
  PROVE  Sync!IInv'
<1> DEFINE plan == IF job[d].dir = "sync" THEN Sync!Plan(job[d].local, seen, record[d].base)
                   ELSE IF seen = NoVault THEN "nothing" ELSE "replace"
           j == [job[d] EXCEPT !.pc = plan, !.seen = seen, !.version = version, !.at = head]
<1>1. Sync!TypeOK /\ Sync!DeviceKeeps(d)
  BY DEF Sync!IInv
<1>2. CASE plan = "nothing"
  BY <1>2, RunFails DEF Sync!Fetched
<1>3. CASE plan # "nothing"
  <2>1. /\ plan \in Sync!Planned \cup {"replace"}
        /\ plan \in {"upload", "merge", "current"} => job[d].local # NoVault
        /\ plan \in {"download", "merge", "replace"} => seen # NoVault
        /\ plan = "upload" => seen \in {NoVault, record[d].base}
        /\ plan = "download" => job[d].local \in {NoVault, record[d].base}
        /\ plan = "current" => job[d].local = seen
        /\ plan \in Sync!Planned <=> job[d].dir = "sync"
    BY <1>3, PlanIsRight DEF Sync!Planned
  <2>2. job[d] \in Sync!Jobs /\ head \in Nat
    BY <1>1 DEF Sync!TypeOK
  <2>3. job' = [job EXCEPT ![d] = j]
    BY <1>1, <1>3, <2>2 DEF Sync!Fetched, Sync!TypeOK, Sync!Jobs
  <2>4. /\ j \in Sync!Jobs /\ j.pc = plan /\ j.seen = seen /\ j.version = version
        /\ j.dir = job[d].dir /\ j.local = job[d].local /\ j.out = job[d].out
    BY <2>1, <2>2 DEF Sync!Jobs
  <2>5. job'[d] = j /\ vault' = vault /\ record' = record /\ meta' = meta
        /\ published' = published
    BY <1>1, <2>3 DEF Sync!TypeOK, Sync!files
  <2> HIDE DEF plan, j
  <2>6. /\ job[d].dir \in {"pull", "sync"}
        /\ job[d].dir = "sync" =>
             job[d].local = NoVault \/ Sync!Changes(record[d].base) \subseteq job[d].local
    BY <1>1 DEF Sync!DeviceKeeps, Sync!RunKnowsVault
  <2>7. Sync!RunKnowsVault(d)' /\ GrowsInPlace(d)
    BY <2>1, <2>4, <2>5, <2>6 DEF Sync!RunKnowsVault, Sync!Planned, Sync!Pushing,
       GrowsInPlace, Sync!Relied
  <2>8. Sync!RunKnowsRemote(d)' /\ Sync!RunLosesNothing(d)'
    BY <2>1, <2>4, <2>5 DEF Sync!RunKnowsRemote, Sync!RunLosesNothing, Sync!Planned,
       Sync!Pushing, Sync!Ending, Sync!Held, Sync!Changes
  <2>9. QED
    BY <1>1, <2>1, <2>3, <2>4, <2>6, <2>7, <2>8, RunGoesOn DEF Sync!Planned
<1>4. QED
  BY <1>2, <1>3

\* The vault of the remote is published, and so is what a folder's hash stands for.
LEMMA FetchKeeps ==
  ASSUME Sync!Setting, Sync!IInv, NEW d \in Device,
         Sync!FetchBlob(d) \/ Sync!FetchMetadata(d) \/ Sync!FetchGit(d) \/ Sync!FetchHttp(d)
  PROVE  Sync!IInv'
<1>1. Sync!TypeOK /\ Sync!RemoteIsPublished /\ Sync!DeviceKeeps(d)
  BY DEF Sync!IInv
<1>2. /\ UNCHANGED <<Sync!files, editor, record, blob, meta, lock, head, branch, published>>
      /\ job[d].pc \in {"fetch", "metadata"} /\ job[d].dir \in {"pull", "sync"}
  BY <1>1 DEF Sync!FetchBlob, Sync!FetchMetadata, Sync!FetchGit, Sync!FetchHttp, Sync!remote,
     Sync!DeviceKeeps, Sync!RunKnowsVault
<1>3. /\ Sync!Changes(record[d].base) \subseteq published
      /\ published \subseteq Sync!Changes(blob)
      /\ NoVault \in Sync!Vaults /\ NoVault \in Sync!Revisions /\ blob \in Sync!Vaults
      /\ blob # NoVault => Sync!Changes(record[d].base) \subseteq blob
      /\ job[d] \in Sync!Jobs /\ meta.version \in Sync!Counts
  BY <1>1 DEF Sync!DeviceKeeps, Sync!BaselineIsKept, Sync!RemoteIsPublished, Sync!Vaults,
     Sync!Revisions, Sync!Counts, Sync!TypeOK,
     Sync!Changes
<1>4. Sync!Held(NoVault, NoVault) \/ RemoteKind = "http"
  BY <1>1 DEF Sync!RemoteIsPublished, Sync!Held, Sync!Changes, Sync!Count, Sync!NoMeta,
     Sync!TypeOK, Sync!Counts, Sync!Setting
<1>5. CASE Sync!FetchBlob(d) /\ blob = NoVault
  BY <1>2, <1>3, <1>4, <1>5, FetchedKeeps DEF Sync!FetchBlob, Sync!Changes
<1>6. CASE Sync!FetchBlob(d) /\ blob # NoVault
  <2> DEFINE j == [job[d] EXCEPT !.seen = blob, !.pc = "metadata"]
  <2>1. job' = [job EXCEPT ![d] = j]
    BY <1>1, <1>3, <1>6 DEF Sync!FetchBlob, Sync!TypeOK, Sync!Jobs
  <2>2. /\ j \in Sync!Jobs /\ j.pc = "metadata" /\ j.seen = blob /\ j.dir = job[d].dir
        /\ j.local = job[d].local
    BY <1>3 DEF Sync!Jobs, Sync!Reading
  <2>3. job'[d] = j /\ vault' = vault /\ record' = record
    BY <1>1, <1>2, <2>1 DEF Sync!TypeOK, Sync!files
  <2> HIDE DEF j
  <2>4. RemoteKind = "folder" /\ job[d].pc = "fetch"
    BY <1>6 DEF Sync!FetchBlob
  <2>5. Sync!RunKnowsVault(d)' /\ GrowsInPlace(d)
    BY <1>1, <1>2, <2>2, <2>3, <2>4 DEF Sync!DeviceKeeps, Sync!RunKnowsVault, Sync!Planned,
       Sync!Pushing, GrowsInPlace, Sync!Relied
  <2>6. Sync!RunKnowsRemote(d)' /\ Sync!RunLosesNothing(d)'
    BY <1>3, <1>6, <2>2, <2>3, <2>4 DEF Sync!RunKnowsRemote, Sync!RunLosesNothing,
       Sync!Planned, Sync!Pushing,
       Sync!Ending
  <2>7. QED
    BY <1>2, <2>1, <2>2, <2>4, <2>5, <2>6, RunGoesOn
<1>7. CASE Sync!FetchMetadata(d)
  <2>1. CASE meta = Sync!NoMeta
    <3>1. RemoteKind = "folder"
      BY <1>1, <1>7 DEF Sync!FetchMetadata, Sync!DeviceKeeps, Sync!RunKnowsRemote
    <3>2. QED
      BY <1>2, <1>3, <1>4, <1>7, <2>1, <3>1, FetchedKeeps DEF Sync!FetchMetadata, Sync!Changes
  <2>2. CASE meta # Sync!NoMeta /\ meta.sha # job[d].seen
    BY <1>2, <1>7, <2>2, RunFails DEF Sync!FetchMetadata
  <2>3. CASE meta # Sync!NoMeta /\ meta.sha = job[d].seen
    <3>1. RemoteKind = "folder" /\ job[d].seen # NoVault /\ job[d].seen \in Sync!Vaults
          /\ Sync!Changes(record[d].base) \subseteq job[d].seen
      BY <1>1, <1>3, <1>7 DEF Sync!FetchMetadata, Sync!DeviceKeeps, Sync!RunKnowsRemote,
         Sync!Jobs
    <3>2. published = Sync!Changes(job[d].seen)
      BY <1>1, <2>3, <3>1 DEF Sync!RemoteIsPublished
    <3>3. meta.version \in Sync!Revisions /\ Sync!Held(meta.version, job[d].seen)
      BY <1>3, <3>1, <3>2 DEF Sync!Held, Sync!Revisions, Sync!Count, Sync!Counts
    <3>4. QED
      BY <1>2, <1>7, <2>3, <3>1, <3>2, <3>3, FetchedKeeps DEF Sync!FetchMetadata
  <2>4. QED
    BY <2>1, <2>2, <2>3
<1>8. CASE Sync!FetchGit(d)
  <2>1. RemoteKind = "git" /\ published = Sync!Changes(blob)
    BY <1>1, <1>8 DEF Sync!FetchGit, Sync!RemoteIsPublished
  <2>2. blob \in Sync!Revisions /\ Sync!Held(blob, blob)
    BY <1>3, <2>1 DEF Sync!Revisions, Sync!Held
  <2>3. QED
    BY <1>2, <1>3, <1>8, <2>1, <2>2, FetchedKeeps DEF Sync!FetchGit
<1>9. CASE Sync!FetchHttp(d)
  <2>1. RemoteKind = "http" /\ published = Sync!Changes(blob)
    BY <1>1, <1>9 DEF Sync!FetchHttp, Sync!RemoteIsPublished, Sync!Setting
  <2>2. CASE blob = NoVault
    BY <1>2, <1>9, <2>2, RunFails DEF Sync!FetchHttp
  <2>3. CASE blob # NoVault
    <3>1. meta.version \in Sync!Revisions /\ Sync!Held(meta.version, blob)
      BY <1>3, <2>1 DEF Sync!Revisions, Sync!Held, Sync!Count, Sync!Counts
    <3>2. QED
      BY <1>2, <1>3, <1>9, <2>1, <2>3, <3>1, FetchedKeeps DEF Sync!FetchHttp
  <2>4. QED
    BY <2>2, <2>3
<1>10. QED
  BY <1>5, <1>6, <1>7, <1>8, <1>9

\* A run that begins knows nothing.
LEMMA BeginKeeps ==
  ASSUME Sync!Setting, Sync!IInv, NEW d \in Device, NEW dir \in Direction,
         Sync!Begin(d, dir)
  PROVE  Sync!IInv'
<1> DEFINE j == [job[d] EXCEPT !.pc = IF dir = "pull" THEN "guard" ELSE "read", !.dir = dir]
<1>1. Sync!TypeOK /\ dir \in {"push", "pull", "sync"}
  BY DEF Sync!IInv, Sync!Setting
<1>2. /\ UNCHANGED <<Sync!files, editor, record, blob, meta, lock, head, branch, published>>
      /\ job[d].pc = "idle" /\ job[d] \in Sync!Jobs /\ job[d] = Sync!IdleJob
      /\ job' = [job EXCEPT ![d] = j]
  BY <1>1 DEF Sync!Begin, Sync!remote, Sync!TypeOK, Sync!Jobs, Sync!IInv, Sync!DeviceKeeps,
     Sync!RunKnowsVault
<1>3. /\ j \in Sync!Jobs /\ j.dir = dir /\ j.out = NoVault /\ j.local = NoVault
      /\ j.pc = IF dir = "pull" THEN "guard" ELSE "read"
  <2>1. job[d].out = NoVault /\ job[d].local = NoVault
    BY <1>2 DEF Sync!IdleJob
  <2>2. QED
    BY <1>1, <1>2, <2>1 DEF Sync!Jobs, Sync!Reading
<1>4. job'[d] = j
  BY <1>1, <1>2 DEF Sync!TypeOK
<1> HIDE DEF j
<1>5. Sync!RunKnowsVault(d)' /\ Sync!RunKnowsRemote(d)' /\ Sync!RunLosesNothing(d)'
  BY <1>1, <1>3, <1>4 DEF Sync!RunKnowsVault, Sync!RunKnowsRemote, Sync!RunLosesNothing,
     Sync!Planned, Sync!Pushing,
     Sync!Ending
<1>6. GrowsInPlace(d)
  BY <1>1, <1>2, <1>3, <1>4 DEF GrowsInPlace, Sync!Relied, Sync!Changes
<1>7. QED
  BY <1>2, <1>3, <1>5, <1>6, RunGoesOn

\* What it reads holds the baseline, and its revision goes with it.
LEMMA ReadKeeps ==
  ASSUME Sync!Setting, Sync!IInv, NEW d \in Device, Sync!ReadLocal(d) \/ Sync!GuardPull(d)
  PROVE  Sync!IInv'
<1>1. Sync!TypeOK /\ Sync!DeviceKeeps(d)
  BY DEF Sync!IInv
<1>2. /\ UNCHANGED <<Sync!files, editor, record, blob, meta, lock, head, branch, published>>
      /\ job[d].pc \in {"read", "guard"}
      /\ job[d] \in Sync!Jobs /\ vault[d] \in Sync!Vaults
      /\ record[d].revision \in Sync!Revisions /\ head \in Nat
  BY <1>1 DEF Sync!ReadLocal, Sync!GuardPull, Sync!remote, Sync!TypeOK
<1>3. /\ vault' = vault /\ record' = record
      /\ vault[d] # NoVault => Sync!Changes(record[d].base) \subseteq vault[d]
  BY <1>1, <1>2 DEF Sync!files, Sync!DeviceKeeps, Sync!BaselineIsKept, Sync!Relied
<1>4. CASE Sync!ReadLocal(d) /\ job[d].dir = "sync"
  <2> DEFINE j == [job[d] EXCEPT !.local = vault[d], !.pc = "fetch"]
  <2>1. job' = [job EXCEPT ![d] = j]
    BY <1>1, <1>2, <1>4 DEF Sync!ReadLocal, Sync!TypeOK, Sync!Jobs
  <2>2. j \in Sync!Jobs /\ j.pc = "fetch" /\ j.dir = "sync" /\ j.local = vault[d]
    BY <1>2, <1>4 DEF Sync!Jobs, Sync!Reading
  <2>3. job'[d] = j
    BY <1>1, <2>1 DEF Sync!TypeOK
  <2> HIDE DEF j
  <2>4. Sync!RunKnowsVault(d)' /\ Sync!RunKnowsRemote(d)' /\ Sync!RunLosesNothing(d)'
    BY <1>3, <2>2, <2>3 DEF Sync!RunKnowsVault, Sync!RunKnowsRemote, Sync!RunLosesNothing,
       Sync!Planned, Sync!Pushing,
       Sync!Ending
  <2>5. GrowsInPlace(d)
    BY <1>3, <2>2, <2>3 DEF GrowsInPlace, Sync!Relied
  <2>6. QED
    BY <1>2, <2>1, <2>2, <2>4, <2>5, RunGoesOn
<1>5. CASE Sync!ReadLocal(d) /\ job[d].dir # "sync" /\ vault[d] = NoVault
  BY <1>2, <1>5, RunFails DEF Sync!ReadLocal
<1>6. CASE Sync!ReadLocal(d) /\ job[d].dir # "sync" /\ vault[d] # NoVault
  <2> DEFINE j == [job[d] EXCEPT !.out = vault[d], !.version = record[d].revision, !.at = head,
                                 !.pc = "push"]
  <2>1. job' = [job EXCEPT ![d] = j]
    BY <1>1, <1>2, <1>6 DEF Sync!ReadLocal, Sync!TypeOK, Sync!Jobs
  <2>2. /\ j \in Sync!Jobs /\ j.pc = "push" /\ j.dir = "push" /\ j.out = vault[d]
        /\ j.version = record[d].revision
    <3>1. job[d].dir = "push"
      BY <1>1, <1>6 DEF Sync!ReadLocal, Sync!DeviceKeeps, Sync!RunKnowsVault
    <3>2. QED
      BY <1>2, <3>1 DEF Sync!Jobs, Sync!Pushing
  <2>3. job'[d] = j
    BY <1>1, <2>1 DEF Sync!TypeOK
  <2> HIDE DEF j
  <2>4. /\ Sync!Changes(record[d].base) \subseteq vault[d]
        /\ Sync!Held(record[d].revision, record[d].base)
    BY <1>1, <1>3, <1>6 DEF Sync!DeviceKeeps, Sync!BaselineIsKept
  <2>5. Sync!Held(record[d].revision, vault[d])'
    BY <1>2, <1>3, <1>6, <2>4 DEF Sync!Held, Sync!Changes, Sync!files
  <2>6. Sync!RunKnowsVault(d)' /\ Sync!RunKnowsRemote(d)'
    BY <1>3, <2>2, <2>3 DEF Sync!RunKnowsVault, Sync!RunKnowsRemote, Sync!Planned, Sync!Pushing
  <2>7. Sync!RunLosesNothing(d)'
    BY <1>3, <1>6, <2>2, <2>3, <2>4, <2>5 DEF Sync!RunLosesNothing, Sync!Pushing, Sync!Ending
  <2>8. GrowsInPlace(d)
    BY <1>3, <2>2, <2>3 DEF GrowsInPlace, Sync!Relied
  <2>9. QED
    BY <1>2, <2>1, <2>2, <2>6, <2>7, <2>8, RunGoesOn
<1>7. CASE Sync!GuardPull(d) /\ vault[d] \in {NoVault, record[d].base}
  <2> DEFINE j == [job[d] EXCEPT !.pc = "fetch"]
  <2>1. job' = [job EXCEPT ![d] = j]
    BY <1>1, <1>2, <1>7 DEF Sync!GuardPull, Sync!Goes, Sync!TypeOK, Sync!Jobs
  <2>2. j \in Sync!Jobs /\ j.pc = "fetch" /\ j.dir = "pull"
    <3>1. job[d].dir = "pull"
      BY <1>1, <1>7 DEF Sync!GuardPull, Sync!DeviceKeeps, Sync!RunKnowsVault
    <3>2. QED
      BY <1>2, <3>1 DEF Sync!Jobs, Sync!Reading
  <2>3. job'[d] = j
    BY <1>1, <2>1 DEF Sync!TypeOK
  <2> HIDE DEF j
  <2>4. Sync!RunKnowsVault(d)' /\ Sync!RunKnowsRemote(d)' /\ Sync!RunLosesNothing(d)'
    BY <1>3, <1>7, <2>2, <2>3 DEF Sync!RunKnowsVault, Sync!RunKnowsRemote,
       Sync!RunLosesNothing, Sync!Planned,
       Sync!Pushing, Sync!Ending
  <2>5. GrowsInPlace(d)
    BY <1>3, <2>2, <2>3 DEF GrowsInPlace, Sync!Relied
  <2>6. QED
    BY <1>2, <2>1, <2>2, <2>4, <2>5, RunGoesOn
<1>8. CASE Sync!GuardPull(d) /\ vault[d] \notin {NoVault, record[d].base}
  BY <1>2, <1>8, RunFails DEF Sync!GuardPull
<1>9. QED
  BY <1>4, <1>5, <1>6, <1>7, <1>8

\* What the plan makes of the two vaults holds both.
LEMMA CheckKeeps ==
  ASSUME Sync!Setting, Sync!IInv, NEW d \in Device, Sync!CheckLocal(d) \/ Sync!VerifyFails(d)
  PROVE  Sync!IInv'
<1>1. Sync!TypeOK /\ Sync!DeviceKeeps(d)
  BY DEF Sync!IInv
<1>2. /\ UNCHANGED <<Sync!files, editor, record, blob, meta, lock, head, branch, published>>
      /\ job[d].pc \in Sync!Planned /\ job[d] \in Sync!Jobs
      /\ job[d].dir = "sync"
  BY <1>1 DEF Sync!CheckLocal, Sync!VerifyFails, Sync!remote, Sync!DeviceKeeps,
     Sync!RunKnowsVault, Sync!TypeOK, Sync!Planned
<1>3. vault' = vault /\ record' = record
  BY <1>2 DEF Sync!files
<1>4. CASE Sync!VerifyFails(d) \/ vault[d] # job[d].local
  BY <1>2, <1>4, RunFails DEF Sync!VerifyFails, Sync!CheckLocal, Sync!Planned
<1>5. CASE Sync!CheckLocal(d) /\ vault[d] = job[d].local
  <2> DEFINE out == CASE job[d].pc = "download" -> job[d].seen
                      [] job[d].pc = "merge"    -> job[d].local \cup job[d].seen
                      [] OTHER                  -> job[d].local
             next == CASE job[d].pc = "download" -> "install"
                       [] job[d].pc = "current"  -> "save"
                       [] OTHER                  -> "push"
             j == [job[d] EXCEPT !.out = out, !.pc = next]
  <2>1. job' = [job EXCEPT ![d] = j]
    BY <1>1, <1>2, <1>5 DEF Sync!CheckLocal, Sync!TypeOK, Sync!Jobs
  <2>2. /\ Sync!Changes(job[d].seen) \subseteq published
        /\ Sync!Held(job[d].version, job[d].seen)
        /\ job[d].seen = NoVault \/ Sync!Changes(record[d].base) \subseteq job[d].seen
        /\ job[d].pc \in {"download", "merge"} => job[d].seen # NoVault
        /\ job[d].pc \in {"upload", "merge", "current"} => job[d].local # NoVault
        /\ job[d].pc = "upload" => job[d].seen \in {NoVault, record[d].base}
        /\ job[d].pc = "download" => job[d].local \in {NoVault, record[d].base}
        /\ job[d].pc = "current" => job[d].local = job[d].seen
    BY <1>1, <1>2 DEF Sync!DeviceKeeps, Sync!RunKnowsRemote
  <2>3. job[d].local # NoVault => Sync!Changes(record[d].base) \subseteq job[d].local
    BY <1>1, <1>2 DEF Sync!DeviceKeeps, Sync!RunKnowsVault, Sync!Changes
  <2>4. /\ out \in Sync!Vault /\ out # NoVault
        /\ Sync!Changes(record[d].base) \subseteq out
        /\ Sync!Changes(job[d].local) \subseteq out
        /\ Sync!Changes(job[d].seen) \subseteq out
        /\ job[d].pc \in {"download", "current"} => out \subseteq published
        /\ job[d].pc = "current" => out = vault[d]
    <3>1. job[d].local \in Sync!Vaults /\ job[d].seen \in Sync!Vaults
      BY <1>2 DEF Sync!Jobs
    <3>2. CASE job[d].pc = "download"
      BY <2>2, <2>3, <3>1, <3>2 DEF Sync!Changes, Sync!Vaults
    <3>3. CASE job[d].pc = "merge"
      BY <2>2, <2>3, <3>1, <3>3 DEF Sync!Changes, Sync!Vaults, Sync!Vault, Sync!Setting
    <3>4. CASE job[d].pc \in {"upload", "current"}
      BY <1>5, <2>2, <2>3, <3>1, <3>4 DEF Sync!Changes, Sync!Vaults
    <3>5. QED
      BY <1>2, <3>2, <3>3, <3>4 DEF Sync!Planned
  <2>5. /\ next \in {"install", "save", "push"}
        /\ next = "install" <=> job[d].pc = "download"
        /\ next = "save" <=> job[d].pc = "current"
    BY DEF Sync!Planned
  <2> HIDE DEF out, next
  <2>6. /\ j \in Sync!Jobs /\ j.pc = next /\ j.out = out /\ j.dir = "sync"
        /\ j.local = job[d].local /\ j.version = job[d].version
    BY <1>2, <2>4, <2>5 DEF Sync!Jobs, Sync!Vaults, Sync!Pushing, Sync!Ending
  <2>7. job'[d] = j
    BY <1>1, <2>1 DEF Sync!TypeOK
  <2> HIDE DEF j
  <2>8. Sync!Held(job[d].version, job[d].out)'
    <3>1. job'[d].version = job[d].version /\ job'[d].out = out
      BY <2>6, <2>7
    <3>2. meta' = meta /\ published' = published
      BY <1>2
    <3>3. QED
      BY <2>2, <2>4, <3>1, <3>2 DEF Sync!Held, Sync!Changes
  <2>9. Sync!RunKnowsVault(d)' /\ Sync!RunKnowsRemote(d)'
    BY <1>3, <1>5, <2>4, <2>5, <2>6, <2>7 DEF Sync!RunKnowsVault, Sync!RunKnowsRemote,
       Sync!Planned, Sync!Pushing
  <2>10. Sync!RunLosesNothing(d)'
    BY <1>2, <1>3, <2>4, <2>5, <2>6, <2>7, <2>8 DEF Sync!RunLosesNothing, Sync!Pushing,
       Sync!Ending, Sync!Changes
  <2>11. GrowsInPlace(d)
    BY <1>2, <1>3, <2>4, <2>5, <2>6, <2>7 DEF GrowsInPlace, Sync!Relied, Sync!Changes
  <2>12. QED
    BY <1>2, <2>1, <2>5, <2>6, <2>9, <2>10, <2>11, RunGoesOn DEF Sync!Planned
<1>6. QED
  BY <1>4, <1>5

\* A step of a run that publishes: what it left of the remote is what the devices rely on.
LEMMA RunPublishes ==
  ASSUME Sync!Setting, Sync!IInv, NEW d \in Device, NEW j \in Sync!Jobs,
         job' = [job EXCEPT ![d] = j],
         UNCHANGED <<Sync!files, editor, record>>, GrowsInPlace(d),
         job[d].pc # "installing", j.pc # "installing",
         blob' \in Sync!Vaults, meta' \in [version : Sync!Counts, sha : Sync!Vaults],
         published' \in Sync!Vault,
         lock' \subseteq Device, head' \in Nat, branch' \in [Device -> Nat],
         \A x \in Device \ {d} : branch'[x] = branch[x],
         published \subseteq published',
         RemoteKind # "git" => \/ meta' = meta /\ published' = published
                         \/ Sync!Count(meta.version) < Sync!Count(meta'.version),
         \A x \in Device \ {d} :
           /\ job[x].pc \in {"locked", "written"} =>
                lock' = lock /\ blob' = blob /\ meta' = meta /\ published' = published
           /\ job[x].pc = "committed" /\ branch[x] = head' => head' = head /\ blob' = blob,
         Sync!RemoteIsPublished', Sync!RunKnowsVault(d)', Sync!RunKnowsRemote(d)',
         Sync!RunLosesNothing(d)'
  PROVE  Sync!IInv'
<1>1. /\ Sync!TypeOK /\ Sync!RemoteIsPublished /\ Sync!EditsAreNew /\ Sync!DeviceKeeps(d)
      /\ vault' = vault /\ aside' = aside /\ saved' = saved
  BY DEF Sync!IInv, Sync!files
<1>2. job'[d] = j /\ \A x \in Device \ {d} : job'[x] = job[x]
  BY <1>1 DEF Sync!TypeOK
<1>3. Sync!TypeOK'
  BY <1>1 DEF Sync!TypeOK
<1>4. Sync!EditsAreNew'
  BY <1>1 DEF Sync!EditsAreNew
<1>5. OnlyOf(d)
  BY <1>1, <1>2 DEF OnlyOf
<1>6. /\ meta.version \in Sync!Counts /\ meta'.version \in Sync!Counts
      /\ record[d].revision \in Sync!Revisions
  BY <1>1 DEF Sync!TypeOK
<1>7. ASSUME NEW x \in Device \ {d} PROVE Sync!DeviceKeeps(x)'
  BY <1>5, <1>6, OthersKeep
<1>8. \A version \in Sync!Revisions : \A v : Sync!Held(version, v) => Sync!Held(version, v)'
  BY <1>6, HeldStays
<1>9. Sync!Held(record[d].revision, record[d].base)'
  <2>1. Sync!Held(record[d].revision, record[d].base)
    BY <1>1 DEF Sync!DeviceKeeps, Sync!BaselineIsKept
  <2>2. QED
    BY <1>6, <1>8, <2>1
<1>10. Sync!BaselineIsKept(d)' /\ Sync!EditKeeps(d)'
  BY <1>1, <1>2, <1>9, StaysKept
<1>11. QED
  BY <1>3, <1>4, <1>7, <1>10 DEF Sync!IInv, Sync!DeviceKeeps

\* The lock of a folder is one device's.
LEMMA LockKeeps ==
  ASSUME Sync!Setting, Sync!IInv, NEW d \in Device, Sync!TakeLock(d)
  PROVE  Sync!IInv'
<1>1. /\ Sync!TypeOK /\ Sync!RemoteIsPublished /\ Sync!DeviceKeeps(d)
      /\ \A x \in Device : Sync!RunLosesNothing(x)
  BY DEF Sync!IInv, Sync!DeviceKeeps
<1>2. /\ UNCHANGED <<Sync!files, editor, record, blob, meta, head, branch, published>>
      /\ job[d].pc = "push" /\ job[d] \in Sync!Jobs
      /\ RemoteKind = "folder"
  BY <1>1 DEF Sync!TakeLock, Sync!DeviceKeeps, Sync!EditKeeps, Sync!TypeOK
<1>3. CASE lock # {}
  BY <1>2, <1>3, RunFails DEF Sync!TakeLock
<1>4. CASE lock = {}
  <2> DEFINE j == [job[d] EXCEPT !.pc = "locked"]
  <2>1. job' = [job EXCEPT ![d] = j] /\ lock' = {d}
    BY <1>1, <1>2, <1>4 DEF Sync!TakeLock, Sync!Goes, Sync!TypeOK, Sync!Jobs
  <2>2. /\ j \in Sync!Jobs /\ j.pc = "locked" /\ j.out = job[d].out /\ j.dir = job[d].dir
        /\ j.local = job[d].local /\ j.version = job[d].version
    BY <1>2 DEF Sync!Jobs, Sync!Pushing
  <2>3. job'[d] = j /\ vault' = vault /\ record' = record /\ meta' = meta
        /\ published' = published
    BY <1>1, <1>2, <2>1 DEF Sync!TypeOK, Sync!files
  <2> HIDE DEF j
  <2>4. Sync!RunKnowsVault(d)' /\ Sync!RunKnowsRemote(d)'
    BY <1>1, <1>2, <2>2, <2>3 DEF Sync!DeviceKeeps, Sync!RunKnowsVault, Sync!RunKnowsRemote,
       Sync!Planned, Sync!Pushing
  <2>5. Sync!RunLosesNothing(d)'
    BY <1>1, <1>2, <2>1, <2>2, <2>3 DEF Sync!RunLosesNothing, Sync!Pushing, Sync!Ending,
       Sync!Held, Sync!Changes
  <2>6. Sync!RemoteIsPublished'
    BY <1>1, <1>2 DEF Sync!RemoteIsPublished
  <2>7. \A x \in Device \ {d} : job[x].pc \notin {"locked", "written"}
    BY <1>1, <1>4 DEF Sync!RunLosesNothing
  <2>8. /\ blob' \in Sync!Vaults /\ meta' \in [version : Sync!Counts, sha : Sync!Vaults]
        /\ published' \in Sync!Vault
        /\ lock' \subseteq Device /\ head' \in Nat /\ branch' \in [Device -> Nat]
    BY <1>1, <1>2, <2>1 DEF Sync!TypeOK
  <2>9. GrowsInPlace(d)
    BY <2>2, <2>3, ReliesOnTheSame
  <2>10. QED
    BY <1>2, <2>1, <2>2, <2>4, <2>5, <2>6, <2>7, <2>8, <2>9, RunPublishes
<1>5. QED
  BY <1>3, <1>4

\* The vault is written only over the version it came from ...
LEMMA BlobKeeps ==
  ASSUME Sync!Setting, Sync!IInv, NEW d \in Device, Sync!WriteBlob(d)
  PROVE  Sync!IInv'
<1>1. /\ Sync!TypeOK /\ Sync!RemoteIsPublished /\ Sync!DeviceKeeps(d)
      /\ \A x \in Device : Sync!RunLosesNothing(x)
  BY DEF Sync!IInv, Sync!DeviceKeeps
<1>2. /\ UNCHANGED <<Sync!files, editor, record, meta, head, branch, published>>
      /\ job[d].pc = "locked" /\ job[d] \in Sync!Jobs
      /\ lock = {d} /\ RemoteKind = "folder"
      /\ vault' = vault /\ record' = record
  BY <1>1 DEF Sync!WriteBlob, Sync!DeviceKeeps, Sync!EditKeeps, Sync!RunLosesNothing,
     Sync!TypeOK, Sync!files
<1>3. \A x \in Device \ {d} : job[x].pc \notin {"locked", "written"}
  BY <1>1, <1>2 DEF Sync!RunLosesNothing
<1>4. \A x \in Device \ {d} : job[x].pc # "committed"
  BY <1>1, <1>2 DEF Sync!RunLosesNothing
<1>5. CASE Sync!Expected(d)
  <2> DEFINE j == [job[d] EXCEPT !.pc = "written"]
  <2>1. job' = [job EXCEPT ![d] = j] /\ lock' = lock /\ blob' = job[d].out
    BY <1>1, <1>2, <1>5 DEF Sync!WriteBlob, Sync!Goes, Sync!TypeOK, Sync!Jobs
  <2>2. /\ j \in Sync!Jobs /\ j.pc = "written" /\ j.out = job[d].out /\ j.dir = job[d].dir
        /\ j.local = job[d].local /\ j.version = job[d].version
    BY <1>2 DEF Sync!Jobs, Sync!Pushing
  <2>3. job'[d] = j /\ meta' = meta /\ published' = published
    BY <1>1, <1>2, <2>1 DEF Sync!TypeOK
  <2> HIDE DEF j
  <2>4. job[d].out # NoVault /\ published \subseteq job[d].out /\ meta.version = job[d].version
    BY <1>1, <1>2, <1>5 DEF Sync!RunLosesNothing, Sync!Held, Sync!Expected, Sync!Pushing,
       Sync!Changes
  <2>5. Sync!RunKnowsVault(d)' /\ Sync!RunKnowsRemote(d)'
    BY <1>1, <1>2, <2>2, <2>3 DEF Sync!DeviceKeeps, Sync!RunKnowsVault, Sync!RunKnowsRemote,
       Sync!Planned, Sync!Pushing
  <2>6. Sync!RunLosesNothing(d)'
    BY <1>1, <1>2, <2>1, <2>2, <2>3, <2>4 DEF Sync!RunLosesNothing, Sync!Pushing,
       Sync!Ending, Sync!Held, Sync!Changes
  <2>7. Sync!RemoteIsPublished'
    BY <1>1, <1>2, <2>1, <2>4 DEF Sync!RemoteIsPublished, Sync!Changes
  <2>8. /\ blob' \in Sync!Vaults /\ meta' \in [version : Sync!Counts, sha : Sync!Vaults]
        /\ published' \in Sync!Vault
        /\ lock' \subseteq Device /\ head' \in Nat /\ branch' \in [Device -> Nat]
    BY <1>1, <1>2, <2>1 DEF Sync!TypeOK, Sync!Jobs
  <2>9. GrowsInPlace(d)
    BY <1>2, <2>2, <2>3, ReliesOnTheSame
  <2>10. QED
    BY <1>2, <1>3, <1>4, <2>1, <2>2, <2>5, <2>6, <2>7, <2>8, <2>9, RunPublishes
<1>6. CASE ~Sync!Expected(d)
  <2>1. PICK j \in Over : job' = [job EXCEPT ![d] = j]
    BY <1>6, FailsOver DEF Sync!WriteBlob
  <2>2. job'[d] = j /\ lock' = {} /\ blob' = blob
    BY <1>1, <1>6, <2>1 DEF Sync!WriteBlob, Sync!LockAfterConflict, Sync!TypeOK
  <2>3. /\ j \in Sync!Jobs /\ Sync!RunKnowsVault(d)' /\ Sync!RunKnowsRemote(d)'
        /\ Sync!RunLosesNothing(d)'
        /\ j.pc # "installing" /\ GrowsInPlace(d)
    BY <1>1, <1>2, <2>2, OverIsOver
  <2>4. Sync!RemoteIsPublished'
    BY <1>1, <1>2, <2>2 DEF Sync!RemoteIsPublished
  <2>5. /\ blob' \in Sync!Vaults /\ meta' \in [version : Sync!Counts, sha : Sync!Vaults]
        /\ published' \in Sync!Vault
        /\ lock' \subseteq Device /\ head' \in Nat /\ branch' \in [Device -> Nat]
    BY <1>1, <1>2, <2>2 DEF Sync!TypeOK
  <2>6. QED
    BY <1>2, <1>3, <1>4, <2>1, <2>2, <2>3, <2>4, <2>5, RunPublishes
<1>7. QED
  BY <1>5, <1>6

\* ... and its metadata counts the version up.
LEMMA MetadataKeeps ==
  ASSUME Sync!Setting, Sync!IInv, NEW d \in Device, Sync!WriteMetadata(d)
  PROVE  Sync!IInv'
<1> DEFINE j == [job[d] EXCEPT !.version = Sync!Successor(job[d].version), !.pc = "pushed"]
<1>1. /\ Sync!TypeOK /\ Sync!RemoteIsPublished /\ Sync!DeviceKeeps(d)
      /\ \A x \in Device : Sync!RunLosesNothing(x)
  BY DEF Sync!IInv, Sync!DeviceKeeps
<1>2. /\ UNCHANGED <<Sync!files, editor, record, blob, head, branch>>
      /\ job[d].pc = "written" /\ job[d] \in Sync!Jobs
      /\ lock = {d} /\ RemoteKind = "folder"
      /\ vault' = vault /\ record' = record
      /\ meta' = [version |-> Sync!Successor(job[d].version), sha |-> job[d].out]
      /\ published' = published \cup job[d].out /\ lock' = {}
      /\ job' = [job EXCEPT ![d] = j]
  BY <1>1 DEF Sync!WriteMetadata, Sync!DeviceKeeps, Sync!EditKeeps, Sync!RunLosesNothing,
     Sync!TypeOK, Sync!files, Sync!Jobs
<1>3. /\ job[d].out # NoVault /\ job[d].out \in Sync!Vault /\ published \subseteq job[d].out
      /\ meta.version = job[d].version /\ blob = job[d].out /\ job[d].dir \in {"push", "sync"}
      /\ Sync!Changes(record[d].base) \subseteq job[d].out
  BY <1>1, <1>2 DEF Sync!DeviceKeeps, Sync!RunLosesNothing, Sync!RunKnowsVault, Sync!Pushing,
     Sync!Jobs, Sync!Vaults
<1>4. /\ Sync!Successor(job[d].version) \in Nat \ {0}
      /\ Sync!Count(meta.version) < Sync!Count(Sync!Successor(job[d].version))
  BY <1>1, <1>2, <1>3 DEF Sync!Successor, Sync!Count, Sync!TypeOK, Sync!Counts, Sync!Setting
<1>5. /\ j \in Sync!Jobs /\ j.pc = "pushed" /\ j.out = job[d].out /\ j.dir = job[d].dir
      /\ j.local = job[d].local /\ j.version = Sync!Successor(job[d].version)
  BY <1>2, <1>4 DEF Sync!Jobs, Sync!Ending, Sync!Revisions, Sync!Counts
<1>6. job'[d] = j
  BY <1>1, <1>2 DEF Sync!TypeOK
<1> HIDE DEF j
<1>7. Sync!RunKnowsVault(d)' /\ Sync!RunKnowsRemote(d)'
  BY <1>1, <1>2, <1>5, <1>6 DEF Sync!DeviceKeeps, Sync!RunKnowsVault, Sync!RunKnowsRemote,
     Sync!Planned, Sync!Pushing
<1>8. Sync!RunLosesNothing(d)'
  <2>1. published' = job[d].out
    BY <1>2, <1>3
  <2>2. job[d].dir = "sync" => Sync!Changes(job[d].local) \subseteq job[d].out
    BY <1>1, <1>2 DEF Sync!RunLosesNothing, Sync!Pushing
  <2>3. /\ meta'.version \in Nat /\ meta'.version = Sync!Successor(job[d].version)
        /\ NoVault \notin Nat
    BY <1>2, <1>4 DEF Sync!Setting
  <2>4. QED
    BY <1>2, <1>3, <1>5, <1>6, <2>1, <2>2, <2>3 DEF Sync!RunLosesNothing, Sync!Pushing,
       Sync!Ending, Sync!Held,
       Sync!Changes, Sync!Count
<1>9. Sync!RemoteIsPublished'
  BY <1>1, <1>2, <1>3, <1>4 DEF Sync!RemoteIsPublished, Sync!Changes, Sync!Setting
<1>10. \A x \in Device \ {d} : job[x].pc \notin {"locked", "written", "committed"}
  BY <1>1, <1>2 DEF Sync!RunLosesNothing
<1>11. /\ blob' \in Sync!Vaults /\ meta' \in [version : Sync!Counts, sha : Sync!Vaults]
       /\ published' \in Sync!Vault
       /\ lock' \subseteq Device /\ head' \in Nat /\ branch' \in [Device -> Nat]
       /\ Sync!Count(meta.version) < Sync!Count(meta'.version)
  BY <1>1, <1>2, <1>3, <1>4 DEF Sync!TypeOK, Sync!Jobs, Sync!Counts, Sync!Vault, Sync!Vaults
<1>12. GrowsInPlace(d)
  BY <1>2, <1>5, <1>6, ReliesOnTheSame
<1>13. QED
  BY <1>2, <1>5, <1>7, <1>8, <1>9, <1>10, <1>11, <1>12, RunPublishes

\* A service stores a vault over the version it came from.
LEMMA ServedIsPublished ==
  ASSUME Sync!Setting, Sync!IInv, NEW d \in Device, RemoteKind = "http", job[d].pc = "push",
         Sync!Matches(d), Sync!Serves(d)
  PROVE  /\ Sync!RemoteIsPublished' /\ published \subseteq published' /\ published' = job[d].out
         /\ meta'.version = Sync!Successor(meta.version)
         /\ Sync!Successor(meta.version) \in Nat \ {0}
         /\ Sync!Count(meta.version) < Sync!Count(meta'.version)
         /\ blob' \in Sync!Vaults /\ meta' \in [version : Sync!Counts, sha : Sync!Vaults]
         /\ published' \in Sync!Vault
         /\ lock' \subseteq Device /\ head' \in Nat /\ branch' \in [Device -> Nat]
         /\ UNCHANGED <<vault, record, lock, head, branch>>
         /\ \A x \in Device : job[x].pc \notin {"locked", "written", "committed"}
<1>1. Sync!TypeOK /\ Sync!RemoteIsPublished /\ \A x \in Device : Sync!RunLosesNothing(x)
  BY DEF Sync!IInv, Sync!DeviceKeeps
<1>2. /\ blob' = job[d].out
      /\ meta' = [version |-> Sync!Successor(meta.version), sha |-> job[d].out]
      /\ published' = published \cup job[d].out
      /\ UNCHANGED <<vault, record, lock, head, branch>>
  BY DEF Sync!Serves, Sync!files
<1>3. job[d].out # NoVault /\ job[d].out \in Sync!Vault /\ Sync!Held(job[d].version, job[d].out)
  BY <1>1 DEF Sync!RunLosesNothing, Sync!Pushing, Sync!TypeOK, Sync!Jobs, Sync!Vaults
<1>4. published \subseteq job[d].out
  <2>1. CASE job[d].version = meta.version
    BY <1>3, <2>1 DEF Sync!Held, Sync!Changes
  <2>2. CASE meta = Sync!NoMeta
    BY <1>1, <1>3, <2>2 DEF Sync!NoMeta, Sync!RemoteIsPublished, Sync!Held, Sync!Changes,
       Sync!Matches
  <2>3. QED
    BY <2>1, <2>2 DEF Sync!Matches
<1>5. /\ Sync!Successor(meta.version) \in Nat \ {0}
      /\ Sync!Count(meta.version) < Sync!Count(Sync!Successor(meta.version))
  BY <1>1 DEF Sync!Successor, Sync!Count, Sync!TypeOK, Sync!Counts, Sync!Setting
<1>6. Sync!RemoteIsPublished'
  BY <1>1, <1>2, <1>3, <1>4, <1>5 DEF Sync!RemoteIsPublished, Sync!Changes, Sync!Setting
<1>7. \A x \in Device : job[x].pc \notin {"locked", "written", "committed"}
  BY <1>1 DEF Sync!RunLosesNothing
<1>8. /\ blob' \in Sync!Vaults /\ meta' \in [version : Sync!Counts, sha : Sync!Vaults]
      /\ published' \in Sync!Vault
      /\ lock' \subseteq Device /\ head' \in Nat /\ branch' \in [Device -> Nat]
  BY <1>1, <1>2, <1>3, <1>5 DEF Sync!TypeOK, Sync!Counts, Sync!Vault, Sync!Vaults
<1>9. QED
  BY <1>2, <1>4, <1>5, <1>6, <1>7, <1>8

\* A push over HTTP, whether its answer comes back, says no or is lost.
LEMMA HttpKeeps ==
  ASSUME Sync!Setting, Sync!IInv, NEW d \in Device,
         Sync!PushHttp(d) \/ Sync!RefusedHttp(d) \/ Sync!AnswerLost(d)
  PROVE  Sync!IInv'
<1>1. Sync!TypeOK /\ Sync!RemoteIsPublished /\ Sync!DeviceKeeps(d)
  BY DEF Sync!IInv
<1>2. /\ UNCHANGED <<Sync!files, editor, record>> /\ RemoteKind = "http"
      /\ job[d].pc = "push" /\ job[d] \in Sync!Jobs
      /\ vault' = vault /\ record' = record
  BY <1>1 DEF Sync!PushHttp, Sync!RefusedHttp, Sync!AnswerLost, Sync!Serves,
     Sync!DeviceKeeps, Sync!EditKeeps, Sync!TypeOK, Sync!files,
     Sync!Setting
<1>3. /\ job[d].out # NoVault /\ job[d].out \in Sync!Vault /\ job[d].dir \in {"push", "sync"}
      /\ Sync!Changes(record[d].base) \subseteq job[d].out
      /\ job[d].dir = "sync" => Sync!Changes(job[d].local) \subseteq job[d].out
  BY <1>1, <1>2 DEF Sync!DeviceKeeps, Sync!RunLosesNothing, Sync!RunKnowsVault, Sync!Pushing,
     Sync!Jobs, Sync!Vaults
<1>4. CASE Sync!PushHttp(d)
  <2> DEFINE j == [job[d] EXCEPT !.version = Sync!Successor(meta.version), !.pc = "pushed"]
  <2>1. Sync!Matches(d) /\ Sync!Serves(d) /\ job' = [job EXCEPT ![d] = j]
    BY <1>1, <1>2, <1>4 DEF Sync!PushHttp, Sync!TypeOK, Sync!Jobs
  <2>2. /\ Sync!RemoteIsPublished' /\ published \subseteq published' /\ published' = job[d].out
        /\ meta'.version = Sync!Successor(meta.version)
        /\ Sync!Successor(meta.version) \in Nat \ {0}
        /\ Sync!Count(meta.version) < Sync!Count(meta'.version)
        /\ blob' \in Sync!Vaults /\ meta' \in [version : Sync!Counts, sha : Sync!Vaults]
        /\ published' \in Sync!Vault
        /\ lock' \subseteq Device /\ head' \in Nat /\ branch' \in [Device -> Nat]
        /\ UNCHANGED <<lock, head, branch>>
        /\ \A x \in Device : job[x].pc \notin {"locked", "written", "committed"}
    BY <1>2, <2>1, ServedIsPublished
  <2>3. /\ j \in Sync!Jobs /\ j.pc = "pushed" /\ j.out = job[d].out /\ j.dir = job[d].dir
        /\ j.local = job[d].local /\ j.version = Sync!Successor(meta.version)
    BY <1>2, <2>2 DEF Sync!Jobs, Sync!Ending, Sync!Revisions, Sync!Counts
  <2>4. job'[d] = j
    BY <1>1, <2>1 DEF Sync!TypeOK
  <2> HIDE DEF j
  <2>5. Sync!RunKnowsVault(d)' /\ Sync!RunKnowsRemote(d)'
    BY <1>1, <1>2, <2>3, <2>4 DEF Sync!DeviceKeeps, Sync!RunKnowsVault, Sync!RunKnowsRemote,
       Sync!Planned, Sync!Pushing
  <2>6. Sync!RunLosesNothing(d)'
    <3>1. meta'.version \in Nat /\ NoVault \notin Nat
      BY <2>2 DEF Sync!Setting
    <3>2. QED
      BY <1>2, <1>3, <2>2, <2>3, <2>4, <3>1 DEF Sync!RunLosesNothing, Sync!Pushing,
         Sync!Ending, Sync!Held, Sync!Changes,
         Sync!Count
  <2>7. GrowsInPlace(d)
    BY <1>2, <2>3, <2>4, ReliesOnTheSame
  <2>8. QED
    BY <1>2, <2>1, <2>2, <2>3, <2>5, <2>6, <2>7, RunPublishes
<1>5. CASE Sync!RefusedHttp(d)
  BY <1>2, <1>5, RunFails DEF Sync!RefusedHttp, Sync!remote
<1>6. CASE Sync!AnswerLost(d)
  <2>1. Sync!Matches(d) /\ Sync!Serves(d) /\ (job' = job \/ Sync!Fails(d))
    BY <1>2, <1>6 DEF Sync!AnswerLost
  <2>2. /\ Sync!RemoteIsPublished' /\ published \subseteq published'
        /\ Sync!Count(meta.version) < Sync!Count(meta'.version)
        /\ blob' \in Sync!Vaults /\ meta' \in [version : Sync!Counts, sha : Sync!Vaults]
        /\ published' \in Sync!Vault
        /\ lock' \subseteq Device /\ head' \in Nat /\ branch' \in [Device -> Nat]
        /\ UNCHANGED <<lock, head, branch>>
        /\ \A x \in Device : job[x].pc \notin {"locked", "written", "committed"}
    BY <1>2, <2>1, ServedIsPublished
  <2>3. CASE Sync!Fails(d)
    <3>1. PICK j \in Over : job' = [job EXCEPT ![d] = j]
      BY <2>3, FailsOver
    <3>2. job'[d] = j
      BY <1>1, <3>1 DEF Sync!TypeOK
    <3>3. /\ j \in Sync!Jobs /\ Sync!RunKnowsVault(d)' /\ Sync!RunKnowsRemote(d)'
          /\ Sync!RunLosesNothing(d)'
          /\ j.pc # "installing" /\ GrowsInPlace(d)
      BY <1>1, <1>2, <3>2, OverIsOver
    <3>4. QED
      BY <1>2, <2>2, <3>1, <3>3, RunPublishes
  <2>4. CASE job' = job
    <3>1. job' = [job EXCEPT ![d] = job[d]]
      BY <1>1, <2>4 DEF Sync!TypeOK
    <3>2. Sync!RunKnowsVault(d)' /\ Sync!RunKnowsRemote(d)'
      BY <1>1, <1>2, <2>4 DEF Sync!DeviceKeeps, Sync!RunKnowsVault, Sync!RunKnowsRemote,
         Sync!Planned, Sync!Pushing
    <3>3. Sync!Held(job[d].version, job[d].out)'
      <4>1. \A version \in Sync!Revisions : \A v : Sync!Held(version, v) =>
                 Sync!Held(version, v)'
        BY <1>1, <2>2, HeldStays DEF Sync!TypeOK
      <4>2. Sync!Held(job[d].version, job[d].out) /\ job[d].version \in Sync!Revisions
        BY <1>1, <1>2 DEF Sync!DeviceKeeps, Sync!RunLosesNothing, Sync!Pushing, Sync!Jobs
      <4>3. QED
        BY <2>4, <4>1, <4>2
    <3>4. Sync!RunLosesNothing(d)'
      BY <1>2, <1>3, <2>4, <3>3 DEF Sync!RunLosesNothing, Sync!Pushing, Sync!Ending
    <3>5. GrowsInPlace(d)
      BY <1>2, <2>4, ReliesOnTheSame
    <3>6. QED
      BY <1>2, <2>2, <3>1, <3>2, <3>4, <3>5, RunPublishes
  <2>5. QED
    BY <2>1, <2>3, <2>4
<1>7. QED
  BY <1>4, <1>5, <1>6

\* A branch is pushed only where nobody pushed since it was compared.
LEMMA GitKeeps ==
  ASSUME Sync!Setting, Sync!IInv, NEW d \in Device, Sync!CommitGit(d) \/ Sync!PushGit(d)
  PROVE  Sync!IInv'
<1>1. /\ Sync!TypeOK /\ Sync!RemoteIsPublished /\ Sync!DeviceKeeps(d)
      /\ \A x \in Device : Sync!RunLosesNothing(x)
  BY DEF Sync!IInv, Sync!DeviceKeeps
<1>2. /\ UNCHANGED <<Sync!files, editor, record, meta, lock>> /\ RemoteKind = "git"
      /\ job[d].pc \in {"push", "committed"} /\ job[d] \in Sync!Jobs
      /\ vault' = vault /\ record' = record
  BY <1>1 DEF Sync!CommitGit, Sync!PushGit, Sync!DeviceKeeps, Sync!EditKeeps,
     Sync!RunLosesNothing, Sync!TypeOK, Sync!files
<1>3. /\ job[d].out # NoVault /\ job[d].out \in Sync!Vault /\ job[d].dir \in {"push", "sync"}
      /\ Sync!Changes(record[d].base) \subseteq job[d].out
      /\ job[d].dir = "sync" => Sync!Changes(job[d].local) \subseteq job[d].out
      /\ Sync!Changes(job[d].version) \subseteq job[d].out
  BY <1>1, <1>2 DEF Sync!DeviceKeeps, Sync!RunLosesNothing, Sync!RunKnowsVault, Sync!Pushing,
     Sync!Jobs, Sync!Vaults, Sync!Held,
     Sync!Changes
<1>4. CASE Sync!CommitGit(d) /\ blob = job[d].version
  <2> DEFINE j == [job[d] EXCEPT !.pc = "committed"]
  <2>1. job' = [job EXCEPT ![d] = j] /\ UNCHANGED <<blob, head, branch, published>>
    BY <1>1, <1>2, <1>4 DEF Sync!CommitGit, Sync!Goes, Sync!TypeOK, Sync!Jobs
  <2>2. /\ j \in Sync!Jobs /\ j.pc = "committed" /\ j.out = job[d].out /\ j.dir = job[d].dir
        /\ j.local = job[d].local /\ j.version = job[d].version
    BY <1>2 DEF Sync!Jobs, Sync!Pushing
  <2>3. job'[d] = j
    BY <1>1, <2>1 DEF Sync!TypeOK
  <2> HIDE DEF j
  <2>4. Sync!RunKnowsVault(d)' /\ Sync!RunKnowsRemote(d)'
    BY <1>1, <1>2, <1>4, <2>2, <2>3 DEF Sync!CommitGit, Sync!DeviceKeeps, Sync!RunKnowsVault,
       Sync!RunKnowsRemote,
       Sync!Planned, Sync!Pushing
  <2>5. Sync!RunLosesNothing(d)'
    BY <1>2, <1>3, <1>4, <2>1, <2>2, <2>3 DEF Sync!RunLosesNothing, Sync!Pushing,
       Sync!Ending, Sync!Held, Sync!Changes
  <2>6. GrowsInPlace(d)
    BY <1>2, <2>2, <2>3, ReliesOnTheSame
  <2>7. QED
    BY <1>2, <2>1, <2>2, <2>4, <2>5, <2>6, RunGoesOn
<1>5. CASE Sync!CommitGit(d) /\ blob # job[d].version
  BY <1>2, <1>5, RunFails DEF Sync!CommitGit, Sync!Conflicts
<1>6. CASE Sync!PushGit(d) /\ ~Sync!FastForward(d)
  BY <1>2, <1>6, RunFails DEF Sync!PushGit, Sync!Conflicts
<1>7. CASE Sync!PushGit(d) /\ Sync!FastForward(d)
  <2> DEFINE j == [job[d] EXCEPT !.version = job[d].out, !.pc = "pushed"]
  <2>1. /\ job' = [job EXCEPT ![d] = j]
        /\ head' = (IF blob = job[d].out THEN head ELSE head + 1)
        /\ branch' = [branch EXCEPT ![d] = head'] /\ blob' = job[d].out
        /\ published' = published \cup job[d].out
    BY <1>1, <1>2, <1>7 DEF Sync!PushGit, Sync!TypeOK, Sync!Jobs
  <2>2. /\ j \in Sync!Jobs /\ j.pc = "pushed" /\ j.out = job[d].out /\ j.dir = job[d].dir
        /\ j.local = job[d].local /\ j.version = job[d].out
    BY <1>2, <1>3 DEF Sync!Jobs, Sync!Ending, Sync!Revisions
  <2>3. job'[d] = j
    BY <1>1, <2>1 DEF Sync!TypeOK
  <2> HIDE DEF j
  <2>4. blob = job[d].version /\ published = Sync!Changes(blob)
    BY <1>1, <1>2, <1>7 DEF Sync!PushGit, Sync!FastForward, Sync!RunLosesNothing,
       Sync!RemoteIsPublished
  <2>5. published' = job[d].out /\ published \subseteq published'
    BY <1>3, <2>1, <2>4
  <2>6. Sync!RunKnowsVault(d)' /\ Sync!RunKnowsRemote(d)'
    BY <1>1, <1>2, <1>7, <2>2, <2>3 DEF Sync!PushGit, Sync!DeviceKeeps, Sync!RunKnowsVault,
       Sync!RunKnowsRemote,
       Sync!Planned, Sync!Pushing
  <2>7. Sync!RunLosesNothing(d)'
    BY <1>2, <1>3, <2>2, <2>3, <2>5 DEF Sync!RunLosesNothing, Sync!Pushing, Sync!Ending,
       Sync!Held, Sync!Changes
  <2>8. /\ head \in Nat /\ head' \in Nat /\ head <= head' /\ branch \in [Device -> Nat]
        /\ \A x \in Device : branch[x] <= head
    BY <1>1, <1>2, <2>1 DEF Sync!TypeOK, Sync!RemoteIsPublished
  <2>9. /\ branch' \in [Device -> Nat] /\ branch'[d] = head'
        /\ \A x \in Device \ {d} : branch'[x] = branch[x]
    BY <2>1, <2>8
  <2>10. \A x \in Device \ {d} : branch[x] = head' => head' = head /\ blob' = blob
    BY <2>1, <2>8
  <2>11. Sync!RemoteIsPublished'
    <3>1. \A x \in Device : branch'[x] <= head'
      BY <2>8, <2>9
    <3>2. QED
      BY <1>1, <1>2, <1>3, <2>1, <2>5, <3>1 DEF Sync!RemoteIsPublished, Sync!Changes
  <2>12. \A x \in Device : job[x].pc \notin {"locked", "written"}
    BY <1>1, <1>2 DEF Sync!RunLosesNothing
  <2>13. /\ blob' \in Sync!Vaults /\ meta' \in [version : Sync!Counts, sha : Sync!Vaults]
         /\ published' \in Sync!Vault /\ lock' \subseteq Device
    BY <1>1, <1>2, <1>3, <2>1, <2>5 DEF Sync!TypeOK, Sync!Vaults
  <2>14. GrowsInPlace(d)
    BY <1>2, <2>2, <2>3, ReliesOnTheSame
  <2>15. QED
    BY <1>2, <2>1, <2>2, <2>5, <2>6, <2>7, <2>8, <2>9, <2>10, <2>11, <2>12, <2>13, <2>14,
       RunPublishes
<1>8. QED
  BY <1>4, <1>5, <1>6, <1>7

\* A step on a device that leaves the remote alone.
LEMMA OnOneDevice ==
  ASSUME Sync!Setting, Sync!IInv, NEW d \in Device, OnlyOf(d),
         UNCHANGED <<blob, meta, lock, head, branch, published>>,
         Sync!TypeOK', Sync!EditsAreNew', Sync!DeviceKeeps(d)'
  PROVE  Sync!IInv'
<1>1. Sync!RemoteIsPublished /\ Sync!RemoteIsPublished' /\ meta'.version \in Sync!Counts
  BY DEF Sync!IInv, Sync!RemoteIsPublished, Sync!TypeOK
<1>2. ASSUME NEW x \in Device \ {d} PROVE Sync!DeviceKeeps(x)'
  BY <1>1, OthersKeep
<1>3. QED
  BY <1>1, <1>2 DEF Sync!IInv

\* After a push the vault is still the one that was sent.
LEMMA CheckAgainKeeps ==
  ASSUME Sync!Setting, Sync!IInv, NEW d \in Device, Sync!CheckAgain(d)
  PROVE  Sync!IInv'
<1>1. Sync!TypeOK /\ Sync!DeviceKeeps(d)
  BY DEF Sync!IInv
<1>2. /\ UNCHANGED <<Sync!files, editor, record, blob, meta, lock, head, branch, published>>
      /\ job[d].pc = "pushed" /\ job[d] \in Sync!Jobs
      /\ vault' = vault /\ record' = record
  BY <1>1 DEF Sync!CheckAgain, Sync!remote, Sync!files, Sync!DeviceKeeps, Sync!EditKeeps,
     Sync!TypeOK
<1>3. job[d].dir \in {"push", "sync"}
  BY <1>1, <1>2 DEF Sync!DeviceKeeps, Sync!RunKnowsVault
<1>4. CASE job[d].dir = "sync" /\ vault[d] # job[d].local
  BY <1>2, <1>4, RunFails DEF Sync!CheckAgain
<1>5. CASE job[d].dir = "push" \/ vault[d] = job[d].local
  <2> DEFINE next == IF job[d].dir = "push" \/ job[d].out = job[d].local
                     THEN "save" ELSE "install"
             j == [job[d] EXCEPT !.pc = next]
  <2>1. job' = [job EXCEPT ![d] = j]
    BY <1>1, <1>2, <1>3, <1>5 DEF Sync!CheckAgain, Sync!Goes, Sync!TypeOK, Sync!Jobs
  <2>2. /\ next \in {"save", "install"}
        /\ next = "save" => job[d].dir = "push" \/ job[d].out = job[d].local
        /\ next = "install" => job[d].dir = "sync"
    BY <1>3
  <2> HIDE DEF next
  <2>3. /\ j \in Sync!Jobs /\ j.pc = next /\ j.out = job[d].out /\ j.dir = job[d].dir
        /\ j.local = job[d].local /\ j.version = job[d].version
    BY <1>2, <2>2 DEF Sync!Jobs, Sync!Ending
  <2>4. job'[d] = j
    BY <1>1, <2>1 DEF Sync!TypeOK
  <2> HIDE DEF j
  <2>5. GrowsInPlace(d)
    BY <1>2, <1>3, <1>5, <2>2, <2>3, <2>4 DEF GrowsInPlace, Sync!Relied, Sync!Changes
  <2>6. Sync!RunKnowsVault(d)' /\ Sync!RunKnowsRemote(d)'
    BY <1>2, <1>3, <2>2, <2>3, <2>4 DEF Sync!RunKnowsVault, Sync!RunKnowsRemote,
       Sync!Planned, Sync!Pushing
  <2>7. Sync!RunLosesNothing(d)'
    BY <1>1, <1>2, <2>2, <2>3, <2>4 DEF Sync!DeviceKeeps, Sync!RunLosesNothing, Sync!Pushing,
       Sync!Ending, Sync!Held,
       Sync!Changes
  <2>8. QED
    BY <1>2, <2>1, <2>2, <2>3, <2>5, <2>6, <2>7, RunGoesOn
<1>6. QED
  BY <1>3, <1>4, <1>5

\* A pull replaces nothing but the baseline.
LEMMA ReplaceKeeps ==
  ASSUME Sync!Setting, Sync!IInv, NEW d \in Device, Sync!Replace(d),
         raced' = {}
  PROVE  Sync!IInv'
<1> DEFINE j == [job[d] EXCEPT !.out = job[d].seen, !.pc = "save"]
<1>1. Sync!TypeOK /\ Sync!DeviceKeeps(d) /\ Sync!EditsAreNew
  BY DEF Sync!IInv
<1>2. /\ UNCHANGED <<aside, saved, editor, record, blob, meta, lock, head, branch, published>>
      /\ job[d].pc = "replace" /\ job[d] \in Sync!Jobs
      /\ job' = [job EXCEPT ![d] = j] /\ vault' = [vault EXCEPT ![d] = job[d].seen]
      /\ vault[d] \in {NoVault, record[d].base}
  BY <1>1 DEF Sync!Replace, Sync!Races, Sync!remote, Sync!TypeOK, Sync!Jobs
<1>3. /\ j \in Sync!Jobs /\ j.pc = "save" /\ j.out = job[d].seen /\ j.dir = job[d].dir
      /\ j.local = job[d].local /\ j.version = job[d].version
  BY <1>2 DEF Sync!Jobs, Sync!Ending
<1>4. job'[d] = j /\ vault'[d] = job[d].seen /\ OnlyOf(d)
  BY <1>1, <1>2 DEF Sync!TypeOK, OnlyOf
<1> HIDE DEF j
<1>5. Sync!TypeOK'
  BY <1>1, <1>2, <1>3 DEF Sync!TypeOK, Sync!Jobs
<1>6. Sync!EditsAreNew'
  BY <1>1, <1>2 DEF Sync!EditsAreNew
<1>7. /\ job[d].seen # NoVault /\ Sync!Changes(record[d].base) \subseteq job[d].seen
      /\ job[d].seen \subseteq published /\ Sync!Held(job[d].version, job[d].seen)
      /\ job[d].dir = "pull"
  BY <1>1, <1>2 DEF Sync!DeviceKeeps, Sync!RunKnowsRemote, Sync!RunKnowsVault, Sync!Changes
<1>8. Sync!BaselineIsKept(d)'
  <2>1. Sync!Relied(d)' = job[d].seen
    BY <1>2, <1>3, <1>4, <1>7 DEF Sync!Relied, Sync!Changes
  <2>2. QED
    BY <1>1, <1>2, <1>3, <1>4, <1>7, <2>1 DEF Sync!DeviceKeeps, Sync!BaselineIsKept, Sync!Kept,
       Sync!Held, Sync!Changes
<1>9. Sync!EditKeeps(d)'
  <2>1. editor[d].pc = "registering" => editor[d].copy \subseteq job[d].seen
    BY <1>1, <1>2, <1>7 DEF Sync!DeviceKeeps, Sync!EditKeeps, Sync!Changes
  <2>2. QED
    BY <1>1, <1>2, <1>4, <1>7, <2>1 DEF Sync!DeviceKeeps, Sync!EditKeeps
<1>10. Sync!RunKnowsVault(d)' /\ Sync!RunKnowsRemote(d)'
  BY <1>2, <1>3, <1>4, <1>7 DEF Sync!RunKnowsVault, Sync!RunKnowsRemote, Sync!Planned,
     Sync!Pushing
<1>11. Sync!RunLosesNothing(d)'
  BY <1>2, <1>3, <1>4, <1>7 DEF Sync!RunLosesNothing, Sync!Pushing, Sync!Ending, Sync!Held,
     Sync!Changes
<1>12. QED
  BY <1>2, <1>4, <1>5, <1>6, <1>8, <1>9, <1>10, <1>11, OnOneDevice DEF Sync!DeviceKeeps

\* While a vault is installed the one before waits in a backup.
LEMMA InstallKeeps ==
  ASSUME Sync!Setting, Sync!IInv, NEW d \in Device, Sync!Install(d) \/ Sync!FinishInstall(d),
         raced' = {}
  PROVE  Sync!IInv'
<1>1. Sync!TypeOK /\ Sync!DeviceKeeps(d) /\ Sync!EditsAreNew
  BY DEF Sync!IInv
<1>2. /\ UNCHANGED <<aside, saved, editor, record, blob, meta, lock, head, branch, published>>
      /\ job[d].pc \in {"install", "installing"} /\ job[d] \in Sync!Jobs
      /\ vault[d] \in Sync!Vaults
      /\ Sync!EditKeeps(d) /\ Sync!BaselineIsKept(d)
  BY <1>1 DEF Sync!Install, Sync!FinishInstall, Sync!remote, Sync!TypeOK, Sync!DeviceKeeps
<1>3. /\ job[d].out # NoVault /\ Sync!Held(job[d].version, job[d].out) /\ job[d].dir = "sync"
      /\ Sync!Changes(record[d].base) \subseteq job[d].out /\ job[d].out \subseteq published
      /\ Sync!Changes(job[d].local) \subseteq job[d].out /\ job[d].out \in Sync!Vaults
  BY <1>1, <1>2 DEF Sync!DeviceKeeps, Sync!RunLosesNothing, Sync!RunKnowsVault, Sync!Ending,
     Sync!Jobs
<1>4. Sync!EditsAreNew'
  BY <1>1, <1>2 DEF Sync!EditsAreNew
<1>5. CASE Sync!Install(d)
  <2> DEFINE j == [job[d] EXCEPT !.pc = "installing", !.local = vault[d]]
  <2>1. job' = [job EXCEPT ![d] = j] /\ vault' = [vault EXCEPT ![d] = NoVault]
    BY <1>1, <1>2, <1>5 DEF Sync!Install, Sync!TypeOK, Sync!Jobs
  <2>2. /\ j \in Sync!Jobs /\ j.pc = "installing" /\ j.out = job[d].out /\ j.dir = "sync"
        /\ j.local = vault[d] /\ j.version = job[d].version
    BY <1>2, <1>3 DEF Sync!Jobs, Sync!Ending
  <2>3. job'[d] = j /\ vault'[d] = NoVault /\ OnlyOf(d) /\ vault[d] = job[d].local
    BY <1>1, <1>2, <1>3, <1>5, <2>1 DEF Sync!Install, Sync!Races, Sync!TypeOK, OnlyOf
  <2> HIDE DEF j
  <2>4. Sync!TypeOK'
    BY <1>1, <1>2, <2>1, <2>2 DEF Sync!TypeOK, Sync!Vaults
  <2>5. Sync!BaselineIsKept(d)'
    <3>1. Sync!Relied(d)' \subseteq Sync!Relied(d)
      BY <1>2, <2>2, <2>3 DEF Sync!Relied
    <3>2. Sync!Kept(d) \subseteq Sync!Kept(d)'
      BY <1>2, <1>5, <2>2, <2>3 DEF Sync!Install, Sync!Kept
    <3>3. QED
      BY <1>2, <2>3, <3>1, <3>2 DEF Sync!BaselineIsKept, Sync!Held
  <2>6. Sync!EditKeeps(d)'
    BY <1>2, <1>5, <2>2, <2>3 DEF Sync!Install, Sync!EditKeeps, Sync!Changes
  <2>7. Sync!RunKnowsVault(d)' /\ Sync!RunKnowsRemote(d)'
    BY <1>2, <1>3, <2>2, <2>3 DEF Sync!RunKnowsVault, Sync!RunKnowsRemote, Sync!Planned,
       Sync!Pushing
  <2>8. Sync!RunLosesNothing(d)'
    BY <1>2, <1>3, <2>2, <2>3 DEF Sync!RunLosesNothing, Sync!Pushing, Sync!Ending, Sync!Held,
       Sync!Changes
  <2>9. QED
    BY <1>2, <1>4, <2>3, <2>4, <2>5, <2>6, <2>7, <2>8, OnOneDevice DEF Sync!DeviceKeeps
<1>6. CASE Sync!FinishInstall(d)
  <2> DEFINE j == [job[d] EXCEPT !.pc = "save"]
  <2>1. job' = [job EXCEPT ![d] = j] /\ vault' = [vault EXCEPT ![d] = job[d].out]
    BY <1>1, <1>2, <1>6 DEF Sync!FinishInstall, Sync!Goes, Sync!TypeOK, Sync!Jobs
  <2>2. /\ j \in Sync!Jobs /\ j.pc = "save" /\ j.out = job[d].out /\ j.dir = "sync"
        /\ j.version = job[d].version
    BY <1>2, <1>3 DEF Sync!Jobs, Sync!Ending
  <2>3. job'[d] = j /\ vault'[d] = job[d].out /\ OnlyOf(d)
    BY <1>1, <1>2, <2>1 DEF Sync!TypeOK, OnlyOf
  <2> HIDE DEF j
  <2>4. Sync!TypeOK'
    BY <1>1, <1>2, <1>3, <2>1, <2>2 DEF Sync!TypeOK
  <2>5. Sync!BaselineIsKept(d)'
    <3>1. Sync!Relied(d)' = job[d].out /\ job[d].out \subseteq Sync!Kept(d)'
      BY <1>2, <1>3, <2>2, <2>3 DEF Sync!Relied, Sync!Kept, Sync!Changes
    <3>2. QED
      BY <1>2, <1>3, <2>3, <3>1 DEF Sync!BaselineIsKept, Sync!Held
  <2>6. Sync!EditKeeps(d)'
    <3>1. vault[d] = NoVault
      BY <1>1, <1>6 DEF Sync!FinishInstall, Sync!DeviceKeeps, Sync!RunKnowsVault
    <3>2. QED
      BY <1>2, <1>3, <2>2, <2>3, <3>1 DEF Sync!EditKeeps
  <2>7. Sync!RunKnowsVault(d)' /\ Sync!RunKnowsRemote(d)'
    BY <1>2, <1>3, <2>2, <2>3 DEF Sync!RunKnowsVault, Sync!RunKnowsRemote, Sync!Planned,
       Sync!Pushing
  <2>8. Sync!RunLosesNothing(d)'
    BY <1>2, <1>3, <2>2, <2>3 DEF Sync!RunLosesNothing, Sync!Pushing, Sync!Ending, Sync!Held,
       Sync!Changes
  <2>9. QED
    BY <1>2, <1>4, <2>3, <2>4, <2>5, <2>6, <2>7, <2>8, OnOneDevice DEF Sync!DeviceKeeps
<1>7. QED
  BY <1>5, <1>6

\* What is remembered was published, and the device relied on it already.
LEMMA RecordKeeps ==
  ASSUME Sync!Setting, Sync!IInv, NEW d \in Device, Sync!SaveRecord(d)
  PROVE  Sync!IInv'
<1>1. Sync!TypeOK /\ Sync!DeviceKeeps(d) /\ Sync!EditsAreNew
  BY DEF Sync!IInv
<1>2. /\ UNCHANGED <<Sync!files, editor, blob, meta, lock, head, branch, published>>
      /\ job[d].pc = "save" /\ job[d] \in Sync!Jobs
      /\ job' = [job EXCEPT ![d] = Sync!IdleJob]
      /\ record' = [record EXCEPT ![d] = [base |-> job[d].out, revision |-> job[d].version]]
      /\ Sync!EditKeeps(d) /\ Sync!BaselineIsKept(d)
  BY <1>1 DEF Sync!SaveRecord, Sync!remote, Sync!DeviceKeeps, Sync!TypeOK
<1>3. /\ vault' = vault /\ aside' = aside /\ saved' = saved /\ job'[d] = Sync!IdleJob
      /\ OnlyOf(d)
      /\ record'[d].base = job[d].out /\ record'[d].revision = job[d].version
  BY <1>1, <1>2 DEF Sync!TypeOK, Sync!files, OnlyOf
<1>4. /\ job[d].out # NoVault /\ Sync!Held(job[d].version, job[d].out)
      /\ job[d].out \subseteq published
      /\ Sync!Relied(d)' \subseteq Sync!Relied(d) /\ Sync!Kept(d) = Sync!Kept(d)'
  BY <1>1, <1>2, <1>3 DEF Sync!DeviceKeeps, Sync!RunLosesNothing, Sync!Ending, Sync!Relied,
     Sync!Kept, Sync!IdleJob
<1>5. Sync!IdleJob \in Over
  BY DEF Over
<1>6. /\ Sync!IdleJob \in Sync!Jobs /\ Sync!RunKnowsVault(d)' /\ Sync!RunKnowsRemote(d)'
      /\ Sync!RunLosesNothing(d)'
  BY <1>1, <1>3, <1>5, OverIsOver
<1>7. Sync!TypeOK'
  BY <1>1, <1>2, <1>3, <1>6 DEF Sync!TypeOK, Sync!Jobs
<1>8. Sync!EditsAreNew'
  BY <1>1, <1>2, <1>3 DEF Sync!EditsAreNew
<1>9. Sync!BaselineIsKept(d)'
  BY <1>2, <1>3, <1>4 DEF Sync!BaselineIsKept, Sync!Held, Sync!Changes
<1>10. Sync!EditKeeps(d)'
  BY <1>2, <1>3, <1>4 DEF Sync!EditKeeps, Sync!IdleJob
<1>11. QED
  BY <1>2, <1>3, <1>6, <1>7, <1>8, <1>9, <1>10, OnOneDevice DEF Sync!DeviceKeeps

\* A step of an edit leaves its run as it was, and the other devices.
LEMMA EditLeavesRun ==
  ASSUME Sync!IInv, NEW d \in Device,
         \/ Sync!Stage(d) \/ Sync!MoveAside(d) \/ Sync!SwapIn(d) \/ Sync!Register(d)
         \/ Sync!Rollback(d),
         job[d].pc = "installing" => vault'[d] = NoVault
  PROVE  /\ OnlyOf(d)
         /\ UNCHANGED <<job, record, blob, meta, lock, head, branch, published>>
         /\ Sync!Relied(d)' = Sync!Relied(d)
         /\ Sync!RunKnowsVault(d)' /\ Sync!RunKnowsRemote(d)' /\ Sync!RunLosesNothing(d)'
<1>1. Sync!TypeOK /\ Sync!DeviceKeeps(d)
  BY DEF Sync!IInv
<1>2. UNCHANGED <<job, record, blob, meta, lock, head, branch, published>>
  BY DEF Sync!Stage, Sync!MoveAside, Sync!SwapIn, Sync!Register, Sync!Rollback, Sync!remote
<1>3. OnlyOf(d)
  <2>1. CASE Sync!Stage(d) \/ Sync!MoveAside(d) \/ Sync!SwapIn(d) \/ Sync!Register(d)
    BY <1>1, <1>2, <2>1 DEF OnlyOf, Sync!TypeOK, Sync!Stage, Sync!MoveAside, Sync!SwapIn,
       Sync!Register, Sync!files
  <2>2. CASE Sync!Rollback(d)
    BY <1>1, <1>2, <2>2 DEF OnlyOf, Sync!TypeOK, Sync!Rollback
  <2>3. QED
    BY <2>1, <2>2
<1>4. Sync!Relied(d)' = Sync!Relied(d)
  BY <1>2 DEF Sync!Relied, Sync!Changes
<1>5. Sync!RunKnowsVault(d)'
  BY <1>1, <1>2 DEF Sync!DeviceKeeps, Sync!RunKnowsVault, Sync!Changes
<1>6. Sync!RunKnowsRemote(d)' /\ Sync!RunLosesNothing(d)'
  BY <1>1, <1>2 DEF Sync!DeviceKeeps, Sync!RunKnowsRemote, Sync!RunLosesNothing, Sync!Held,
     Sync!Changes
<1>7. QED
  BY <1>2, <1>3, <1>4, <1>5, <1>6

\* What a step of an edit leaves to its device is the invariant, if it is kept there.
LEMMA EditsOneDevice ==
  ASSUME Sync!Setting, Sync!IInv, NEW d \in Device,
         \/ Sync!Stage(d) \/ Sync!MoveAside(d) \/ Sync!SwapIn(d) \/ Sync!Register(d)
         \/ Sync!Rollback(d),
         job[d].pc = "installing" => vault'[d] = NoVault,
         vault' \in [Device -> Sync!Vaults], aside' \in [Device -> Sync!Vault],
         saved' \in Sync!Vault, editor' \in [Device -> Sync!Editors],
         Sync!EditsAreNew', Sync!EditKeeps(d)',
         vault'[d] # NoVault => Sync!Relied(d) \subseteq vault'[d],
         Sync!Relied(d) \subseteq Sync!Kept(d)'
  PROVE  Sync!IInv'
<1>1. Sync!TypeOK /\ Sync!BaselineIsKept(d)
  BY DEF Sync!IInv, Sync!DeviceKeeps
<1>2. /\ OnlyOf(d)
      /\ UNCHANGED <<job, record, blob, meta, lock, head, branch, published>>
      /\ Sync!Relied(d)' = Sync!Relied(d)
      /\ Sync!RunKnowsVault(d)' /\ Sync!RunKnowsRemote(d)' /\ Sync!RunLosesNothing(d)'
  BY EditLeavesRun
<1>3. Sync!TypeOK'
  BY <1>1, <1>2 DEF Sync!TypeOK
<1>4. Sync!BaselineIsKept(d)'
  BY <1>1, <1>2 DEF Sync!BaselineIsKept, Sync!Held, Sync!Changes
<1>5. QED
  BY <1>2, <1>3, <1>4, OnOneDevice DEF Sync!DeviceKeeps

\* A copy is made of the vault that is there, or where nothing is left of one ...
LEMMA StageKeeps ==
  ASSUME Sync!Setting, Sync!IInv, NEW d \in Device, Sync!Stage(d) PROVE Sync!IInv'
<1>1. /\ Sync!TypeOK /\ Sync!EditsAreNew /\ Sync!BaselineIsKept(d) /\ Sync!RunKnowsVault(d)
      /\ vault' = vault /\ aside' = aside /\ saved' = saved /\ job' = job
      /\ editor[d].pc = "idle"
      /\ vault[d] = NoVault => aside[d] = {}
  BY DEF Sync!IInv, Sync!DeviceKeeps, Sync!Stage, Sync!files
<1>2. PICK e \in Edit \ (saved \cup UNION {editor[x].edit : x \in Device}) :
        editor' = [editor EXCEPT ![d] =
                     [pc |-> "staged", copy |-> Sync!Changes(vault[d]) \cup {e},
                      old |-> vault[d], edit |-> {e}]]
  BY DEF Sync!Stage
<1>3. /\ editor'[d] = [pc |-> "staged", copy |-> Sync!Changes(vault[d]) \cup {e},
                       old |-> vault[d], edit |-> {e}]
      /\ \A x \in Device \ {d} : editor'[x] = editor[x]
  BY <1>1, <1>2 DEF Sync!TypeOK
<1>4. Sync!Changes(vault[d]) \cup {e} \in Sync!Vault /\ {e} \in Sync!Vault
  BY <1>1 DEF Sync!TypeOK, Sync!Changes, Sync!Vaults, Sync!Vault
<1>5. editor' \in [Device -> Sync!Editors]
  BY <1>1, <1>2, <1>4 DEF Sync!TypeOK, Sync!Editors, Sync!Vaults
<1>6. Sync!EditsAreNew'
  <2>1. \A x \in Device : e \notin editor[x].edit
    OBVIOUS
  <2>2. QED
    BY <1>1, <1>3, <2>1 DEF Sync!EditsAreNew
<1>7. Sync!Changes(vault[d]) \cup {e} # NoVault
  BY <1>4 DEF Sync!Setting
<1>8. Sync!EditKeeps(d)'
  BY <1>1, <1>3, <1>7 DEF Sync!EditKeeps
<1>9. Sync!Kept(d)' = Sync!Kept(d)
  BY <1>1, <1>3 DEF Sync!Kept, Sync!Changes
<1>10. /\ vault[d] # NoVault => Sync!Relied(d) \subseteq vault[d]
       /\ Sync!Relied(d) \subseteq Sync!Kept(d)
       /\ job[d].pc = "installing" => vault[d] = NoVault
  BY <1>1 DEF Sync!BaselineIsKept, Sync!RunKnowsVault
<1>11. QED
  BY <1>1, <1>5, <1>6, <1>8, <1>9, <1>10, EditsOneDevice DEF Sync!TypeOK

\* ... the vault that is moved aside is the one it was made of ...
LEMMA MoveAsideKeeps ==
  ASSUME Sync!Setting, Sync!IInv, NEW d \in Device, Sync!MoveAside(d), raced' = {}
  PROVE  Sync!IInv'
<1>1. /\ Sync!TypeOK /\ Sync!EditsAreNew /\ Sync!BaselineIsKept(d) /\ Sync!EditKeeps(d)
      /\ aside' = aside /\ saved' = saved /\ job' = job
      /\ editor[d].pc = "staged" /\ vault[d] = editor[d].old
  BY DEF Sync!IInv, Sync!DeviceKeeps, Sync!MoveAside, Sync!Races
<1>2. /\ editor' = [editor EXCEPT ![d] = [editor[d] EXCEPT !.pc = "swapping", !.old = vault[d]]]
      /\ vault' = [vault EXCEPT ![d] = NoVault]
  BY <1>1 DEF Sync!MoveAside, Sync!TypeOK, Sync!Editors
<1>3. /\ editor[d] \in Sync!Editors /\ vault[d] \in Sync!Vaults /\ NoVault \in Sync!Vaults
      /\ editor'[d] = [editor[d] EXCEPT !.pc = "swapping", !.old = vault[d]]
      /\ \A x \in Device \ {d} : editor'[x] = editor[x]
      /\ vault'[d] = NoVault
  BY <1>1, <1>2 DEF Sync!TypeOK, Sync!Vaults
<1>4. /\ editor'[d].pc = "swapping" /\ editor'[d].old = vault[d]
      /\ editor'[d].copy = editor[d].copy /\ editor'[d].edit = editor[d].edit
      /\ editor'[d] \in Sync!Editors
  BY <1>3 DEF Sync!Editors
<1>5. editor' \in [Device -> Sync!Editors] /\ vault' \in [Device -> Sync!Vaults]
  BY <1>1, <1>2, <1>3, <1>4 DEF Sync!TypeOK
<1>6. Sync!EditsAreNew'
  <2>1. \A x \in Device : editor'[x].edit = editor[x].edit
    BY <1>3, <1>4
  <2>2. QED
    BY <1>1, <2>1 DEF Sync!EditsAreNew
<1>7. Sync!Kept(d)' = Sync!Kept(d)
  BY <1>1, <1>3, <1>4 DEF Sync!Kept, Sync!Changes
<1>8. job[d].pc # "installing" => Sync!Relied(d) \subseteq Sync!Changes(vault[d])
  <2>1. CASE vault[d] # NoVault
    BY <1>1, <2>1 DEF Sync!BaselineIsKept, Sync!Changes
  <2>2. CASE vault[d] = NoVault
    BY <1>1, <2>2 DEF Sync!BaselineIsKept, Sync!EditKeeps, Sync!Kept, Sync!Changes
  <2>3. QED
    BY <2>1, <2>2
<1>9. Sync!Relied(d)' = Sync!Relied(d)
  BY <1>3, EditLeavesRun
<1>10. Sync!EditKeeps(d)'
  BY <1>1, <1>4, <1>8, <1>9 DEF Sync!EditKeeps, Sync!Changes
<1>11. Sync!Relied(d) \subseteq Sync!Kept(d)
  BY <1>1 DEF Sync!BaselineIsKept
<1>12. QED
  BY <1>1, <1>3, <1>5, <1>6, <1>7, <1>10, <1>11, EditsOneDevice DEF Sync!TypeOK

\* ... and the copy takes a place that is free.
LEMMA SwapInKeeps ==
  ASSUME Sync!Setting, Sync!IInv, NEW d \in Device, Sync!SwapIn(d), raced' = {}
  PROVE  Sync!IInv'
<1>1. /\ Sync!TypeOK /\ Sync!EditsAreNew /\ Sync!BaselineIsKept(d) /\ Sync!EditKeeps(d)
      /\ aside' = aside /\ saved' = saved /\ job' = job
      /\ editor[d].pc = "swapping" /\ vault[d] = NoVault /\ job[d].pc # "installing"
  BY DEF Sync!IInv, Sync!DeviceKeeps, Sync!SwapIn, Sync!Races
<1>2. /\ editor' = [editor EXCEPT ![d] = [editor[d] EXCEPT !.pc = "registering"]]
      /\ vault' = [vault EXCEPT ![d] = editor[d].copy]
  BY <1>1 DEF Sync!SwapIn, Sync!TypeOK, Sync!Editors
<1>3. /\ editor[d] \in Sync!Editors
      /\ editor'[d] = [editor[d] EXCEPT !.pc = "registering"]
      /\ \A x \in Device \ {d} : editor'[x] = editor[x]
      /\ vault'[d] = editor[d].copy
  BY <1>1, <1>2 DEF Sync!TypeOK
<1>4. /\ editor'[d].pc = "registering" /\ editor'[d].old = editor[d].old
      /\ editor'[d].copy = editor[d].copy /\ editor'[d].edit = editor[d].edit
      /\ editor'[d] \in Sync!Editors /\ editor[d].copy \in Sync!Vaults
  BY <1>3 DEF Sync!Editors
<1>5. editor' \in [Device -> Sync!Editors] /\ vault' \in [Device -> Sync!Vaults]
  BY <1>1, <1>2, <1>3, <1>4 DEF Sync!TypeOK
<1>6. Sync!EditsAreNew'
  <2>1. \A x \in Device : editor'[x].edit = editor[x].edit
    BY <1>3, <1>4
  <2>2. QED
    BY <1>1, <2>1 DEF Sync!EditsAreNew
<1>7. Sync!Relied(d) \subseteq editor[d].copy /\ editor[d].copy # NoVault
  BY <1>1 DEF Sync!EditKeeps
<1>8. Sync!Relied(d) \subseteq Sync!Kept(d)'
  BY <1>3, <1>7 DEF Sync!Kept, Sync!Changes
<1>9. Sync!EditKeeps(d)'
  BY <1>1, <1>3, <1>4, <1>7 DEF Sync!EditKeeps, Sync!Changes
<1>10. QED
  BY <1>1, <1>3, <1>5, <1>6, <1>7, <1>8, <1>9, EditsOneDevice DEF Sync!TypeOK

\* An edit that ends leaves the copy, in the vault or in the backup of an installation, or what
\* was there before it.
LEMMA EditEndsWell ==
  ASSUME Sync!Setting, Sync!IInv, NEW d \in Device, Sync!Register(d) \/ Sync!Rollback(d),
         raced' = {}
  PROVE  Sync!IInv'
<1>1. /\ Sync!TypeOK /\ Sync!EditsAreNew /\ Sync!BaselineIsKept(d) /\ Sync!EditKeeps(d)
      /\ Sync!RunKnowsVault(d)
      /\ editor[d] \in Sync!Editors /\ vault[d] \in Sync!Vaults
  BY DEF Sync!IInv, Sync!DeviceKeeps, Sync!TypeOK
<1>2. /\ editor[d].pc = "registering" /\ editor' = [editor EXCEPT ![d] = Sync!IdleEditor]
      /\ job' = job /\ (saved' = saved \/ saved' = saved \cup editor[d].edit)
  BY DEF Sync!Register, Sync!Rollback
<1>3. /\ Sync!IdleEditor \in Sync!Editors /\ Sync!IdleEditor.pc = "idle"
      /\ Sync!IdleEditor.edit = {}
  BY DEF Sync!IdleEditor, Sync!Editors, Sync!Vaults, Sync!Vault
<1>4. /\ editor'[d] = Sync!IdleEditor /\ \A x \in Device \ {d} : editor'[x] = editor[x]
      /\ editor' \in [Device -> Sync!Editors] /\ saved' \in Sync!Vault
  BY <1>1, <1>2, <1>3 DEF Sync!TypeOK, Sync!Editors, Sync!Vault
<1>5. Sync!EditsAreNew' /\ Sync!EditKeeps(d)'
  <2>1. \A x \in Device \ {d} : editor[x].edit \cap editor[d].edit = {}
    BY <1>1 DEF Sync!EditsAreNew
  <2>2. QED
    BY <1>1, <1>2, <1>3, <1>4, <2>1 DEF Sync!EditsAreNew, Sync!EditKeeps
<1>6. /\ Sync!Changes(editor[d].old) \subseteq editor[d].copy
      /\ Sync!Changes(editor[d].old) \in Sync!Vault /\ editor[d].old \in Sync!Vaults
      /\ vault[d] = NoVault =>
           job[d].pc = "installing" /\ editor[d].copy \subseteq Sync!Changes(job[d].local)
      /\ vault[d] # NoVault => job[d].pc # "installing"
      /\ vault[d] # NoVault => Sync!Relied(d) \subseteq vault[d]
      /\ Sync!Relied(d) \subseteq Sync!Kept(d)
  BY <1>1, <1>2 DEF Sync!EditKeeps, Sync!BaselineIsKept, Sync!RunKnowsVault, Sync!Editors,
     Sync!Changes, Sync!Vaults, Sync!Vault
<1>7. CASE Sync!Register(d) \/ vault[d] = NoVault
  <2>1. /\ vault' = vault /\ aside' \in [Device -> Sync!Vault] /\ aside[d] \subseteq aside'[d]
    <3>1. CASE Sync!Register(d)
      BY <1>1, <3>1 DEF Sync!Register, Sync!TypeOK
    <3>2. CASE Sync!Rollback(d) /\ vault[d] = NoVault
      <4>1. /\ aside' = [aside EXCEPT ![d] = aside[d] \cup Sync!Changes(editor[d].old)]
            /\ vault' = vault /\ aside \in [Device -> Sync!Vault]
        BY <1>1, <3>2 DEF Sync!Rollback, Sync!TypeOK
      <4>2. QED
        BY <1>6, <4>1 DEF Sync!Vault
    <3>3. QED
      BY <1>7, <3>1, <3>2
  <2>2. Sync!Relied(d) \subseteq Sync!Kept(d)'
    <3>1. CASE vault[d] # NoVault
      BY <1>6, <2>1, <3>1 DEF Sync!Kept, Sync!Changes
    <3>2. CASE vault[d] = NoVault
      BY <1>2, <1>6, <2>1, <3>2 DEF Sync!Kept, Sync!Changes
    <3>3. QED
      BY <3>1, <3>2
  <2>3. QED
    BY <1>1, <1>4, <1>5, <1>6, <2>1, <2>2, EditsOneDevice DEF Sync!TypeOK
<1>8. CASE Sync!Rollback(d) /\ vault[d] # NoVault
  <2>1. /\ vault' = [vault EXCEPT ![d] = editor[d].old] /\ aside' = aside
        /\ Sync!Relied(d) \subseteq Sync!Changes(editor[d].old)
    BY <1>8 DEF Sync!Rollback, Sync!Races
  <2>2. /\ vault' \in [Device -> Sync!Vaults] /\ aside' \in [Device -> Sync!Vault]
        /\ vault'[d] = editor[d].old
    BY <1>1, <1>6, <2>1 DEF Sync!TypeOK
  <2>3. Sync!Relied(d) \subseteq Sync!Kept(d)'
    BY <2>1, <2>2 DEF Sync!Kept, Sync!Changes
  <2>4. vault'[d] # NoVault => Sync!Relied(d) \subseteq vault'[d]
    BY <2>1, <2>2 DEF Sync!Changes
  <2>5. QED
    BY <1>4, <1>5, <1>6, <1>8, <2>2, <2>3, <2>4, EditsOneDevice
<1>9. QED
  BY <1>7, <1>8

\* A crash leaves the vault, or the backup that was made of it.
LEMMA CrashKeeps ==
  ASSUME Sync!Setting, Sync!IInv, NEW d \in Device, Sync!Crash(d)
  PROVE  Sync!IInv'
<1>1. Sync!TypeOK /\ Sync!DeviceKeeps(d) /\ Sync!EditsAreNew
  BY DEF Sync!IInv
<1>2. /\ UNCHANGED <<vault, saved, record, blob, meta, lock, head, branch, published>>
      /\ job' = [job EXCEPT ![d] = Sync!IdleJob]
      /\ editor' = [editor EXCEPT ![d] = Sync!IdleEditor]
  BY DEF Sync!Crash, Sync!remote
<1>3. /\ aside' \in [Device -> Sync!Vault] /\ \A x \in Device \ {d} : aside'[x] = aside[x]
      /\ aside'[d] = aside[d]
           \cup (IF editor[d].pc \in {"swapping", "registering"} THEN Sync!Changes(editor[d].old)
                 ELSE {})
           \cup (IF job[d].pc = "installing" THEN Sync!Changes(job[d].local) ELSE {})
  <2> DEFINE rescued ==
        (IF editor[d].pc \in {"swapping", "registering"} THEN Sync!Changes(editor[d].old) ELSE {})
          \cup (IF job[d].pc = "installing" THEN Sync!Changes(job[d].local) ELSE {})
  <2>1. rescued \in Sync!Vault
    BY <1>1 DEF Sync!TypeOK, Sync!Jobs, Sync!Editors, Sync!Changes, Sync!Vaults, Sync!Vault
  <2>2. aside' = [aside EXCEPT ![d] = aside[d] \cup rescued]
    BY DEF Sync!Crash
  <2>3. aside \in [Device -> Sync!Vault]
    BY <1>1 DEF Sync!TypeOK
  <2> HIDE DEF rescued
  <2>4. /\ aside' \in [Device -> Sync!Vault] /\ \A x \in Device \ {d} : aside'[x] = aside[x]
        /\ aside'[d] = aside[d] \cup rescued
    BY <2>1, <2>2, <2>3 DEF Sync!Vault
  <2>5. QED
    BY <2>4 DEF rescued
<1>4. job'[d] = Sync!IdleJob /\ editor'[d] = Sync!IdleEditor /\ OnlyOf(d)
  BY <1>1, <1>2, <1>3 DEF Sync!TypeOK, OnlyOf
<1>5. Sync!IdleEditor \in Sync!Editors /\ Sync!IdleJob \in Over
  BY DEF Sync!IdleEditor, Sync!Editors, Sync!Vaults, Sync!Vault, Over
<1>6. /\ Sync!IdleJob \in Sync!Jobs /\ Sync!RunKnowsVault(d)' /\ Sync!RunKnowsRemote(d)'
      /\ Sync!RunLosesNothing(d)'
  BY <1>1, <1>4, <1>5, OverIsOver
<1>7. Sync!TypeOK'
  BY <1>1, <1>2, <1>3, <1>5, <1>6 DEF Sync!TypeOK
<1>8. Sync!EditsAreNew'
  <2>1. /\ editor'[d].edit = {} /\ saved' = saved
        /\ \A x \in Device \ {d} : editor'[x].edit = editor[x].edit
    BY <1>2, <1>4 DEF OnlyOf, Sync!IdleEditor
  <2>2. QED
    BY <1>1, <2>1 DEF Sync!EditsAreNew
<1>9. Sync!BaselineIsKept(d)'
  <2>1. Sync!Relied(d)' \subseteq Sync!Relied(d)
    BY <1>2, <1>4 DEF Sync!Relied, Sync!IdleJob, Sync!Changes
  <2>2. Sync!Kept(d) \subseteq Sync!Kept(d)'
    BY <1>2, <1>3 DEF Sync!Kept, Sync!Changes
  <2>3. QED
    BY <1>1, <1>2, <2>1, <2>2 DEF Sync!DeviceKeeps, Sync!BaselineIsKept, Sync!Held, Sync!Changes
<1>10. Sync!EditKeeps(d)'
  BY <1>4 DEF Sync!EditKeeps, Sync!IdleEditor
<1>11. QED
  BY <1>2, <1>4, <1>6, <1>7, <1>8, <1>9, <1>10, OnOneDevice DEF Sync!DeviceKeeps

\* A lock that is removed belongs to no run.
LEMMA RemovalKeeps == ASSUME Sync!Setting, Sync!IInv, Sync!RemoveLock PROVE Sync!IInv'
<1>1. /\ UNCHANGED <<vault, aside, saved, editor, job, record, blob, meta, head, branch,
                     published>>
      /\ lock' = {}
  BY DEF Sync!RemoveLock, Sync!files
<1>2. Sync!TypeOK' /\ Sync!RemoteIsPublished' /\ Sync!EditsAreNew'
  BY <1>1 DEF Sync!IInv, Sync!TypeOK, Sync!RemoteIsPublished, Sync!EditsAreNew
<1>3. ASSUME NEW x \in Device PROVE Sync!DeviceKeeps(x)'
  <2>1. Sync!DeviceKeeps(x)
    BY DEF Sync!IInv
  <2>2. job[x].pc \notin {"locked", "written"}
    BY <2>1 DEF Sync!DeviceKeeps, Sync!RunLosesNothing, Sync!RemoveLock
  <2>3. Sync!BaselineIsKept(x)' /\ Sync!EditKeeps(x)' /\ Sync!RunKnowsVault(x)'
    BY <1>1, <2>1 DEF Sync!DeviceKeeps, Sync!BaselineIsKept, Sync!EditKeeps,
       Sync!RunKnowsVault, Sync!Relied, Sync!Kept, Sync!Held, Sync!Changes
  <2>4. Sync!RunKnowsRemote(x)'
    BY <1>1, <2>1 DEF Sync!DeviceKeeps, Sync!RunKnowsRemote, Sync!Held
  <2>5. Sync!RunLosesNothing(x)'
    BY <1>1, <2>1, <2>2 DEF Sync!DeviceKeeps, Sync!RunLosesNothing, Sync!Held
  <2>6. QED
    BY <2>3, <2>4, <2>5 DEF Sync!DeviceKeeps
<1>4. QED
  BY <1>2, <1>3 DEF Sync!IInv

\* Before anything is written nothing is known.
LEMMA SyncInit == ASSUME Sync!Setting, Sync!Init PROVE Sync!IInv
<1>1. /\ NoVault \in Sync!Vaults /\ NoVault \in Sync!Revisions /\ NoVault \in Sync!Counts
      /\ {} \in Sync!Vault
      /\ Sync!IdleEditor \in Sync!Editors /\ Sync!IdleJob \in Over /\ NoVault # 0
  BY DEF Sync!Vaults, Sync!Revisions, Sync!Counts, Sync!Vault, Sync!IdleEditor, Sync!Editors,
     Over, Sync!Setting
<1>2. Sync!IdleJob \in Sync!Jobs
  BY <1>1 DEF Sync!IdleJob, Sync!Jobs
<1>3. Sync!TypeOK
  BY <1>1, <1>2 DEF Sync!Init, Sync!TypeOK, Sync!NoMeta
<1>4. Sync!RemoteIsPublished /\ Sync!EditsAreNew
  BY <1>1 DEF Sync!Init, Sync!RemoteIsPublished, Sync!EditsAreNew, Sync!NoMeta, Sync!Changes,
     Sync!IdleEditor
<1>5. ASSUME NEW d \in Device PROVE Sync!DeviceKeeps(d)
  <2>1. /\ vault[d] = NoVault /\ editor[d] = Sync!IdleEditor /\ job[d] = Sync!IdleJob
        /\ record[d].base = NoVault /\ record[d].revision = NoVault /\ published = {}
        /\ meta = Sync!NoMeta
    BY DEF Sync!Init
  <2>2. Sync!BaselineIsKept(d) /\ Sync!EditKeeps(d)
    <3>1. Sync!Held(NoVault, NoVault)
      BY <2>1 DEF Sync!Held, Sync!Count, Sync!Changes, Sync!NoMeta
    <3>2. QED
      BY <2>1, <3>1 DEF Sync!BaselineIsKept, Sync!EditKeeps, Sync!Relied, Sync!Changes,
         Sync!IdleEditor, Sync!IdleJob
  <2>3. Sync!RunKnowsVault(d) /\ Sync!RunKnowsRemote(d) /\ Sync!RunLosesNothing(d)
    BY <2>1 DEF Sync!IdleJob, Sync!RunKnowsVault, Sync!RunKnowsRemote, Sync!RunLosesNothing,
       Sync!Planned, Sync!Pushing,
       Sync!Ending
  <2>4. QED
    BY <2>2, <2>3 DEF Sync!DeviceKeeps
<1>6. QED
  BY <1>3, <1>4, <1>5 DEF Sync!IInv

\* The invariant is kept by every step that meets with the vault it was made for.
LEMMA SyncInductive ==
  ASSUME Sync!Setting, Sync!IInv, [Sync!Next]_(Sync!vars), raced' = {}
  PROVE  Sync!IInv'
<1>1. ASSUME NEW d \in Device,
             \/ Sync!Stage(d) \/ Sync!MoveAside(d) \/ Sync!SwapIn(d) \/ Sync!Register(d)
             \/ Sync!Rollback(d)
      PROVE  Sync!IInv'
  BY <1>1, StageKeeps, MoveAsideKeeps, SwapInKeeps, EditEndsWell
<1>2. ASSUME NEW d \in Device, NEW dir \in Direction, Sync!Begin(d, dir) PROVE Sync!IInv'
  BY <1>2, BeginKeeps
<1>3. ASSUME NEW d \in Device, Sync!ReadLocal(d) \/ Sync!GuardPull(d) PROVE Sync!IInv'
  BY <1>3, ReadKeeps
<1>4. ASSUME NEW d \in Device,
             Sync!FetchBlob(d) \/ Sync!FetchMetadata(d) \/ Sync!FetchGit(d) \/ Sync!FetchHttp(d)
      PROVE  Sync!IInv'
  BY <1>4, FetchKeeps
<1>5. ASSUME NEW d \in Device, Sync!CheckLocal(d) \/ Sync!VerifyFails(d) PROVE Sync!IInv'
  BY <1>5, CheckKeeps
<1>6. ASSUME NEW d \in Device, Sync!TakeLock(d) \/ Sync!WriteBlob(d) \/ Sync!WriteMetadata(d)
      PROVE  Sync!IInv'
  BY <1>6, LockKeeps, BlobKeeps, MetadataKeeps
<1>7. ASSUME NEW d \in Device, Sync!CommitGit(d) \/ Sync!PushGit(d) PROVE Sync!IInv'
  BY <1>7, GitKeeps
<1>8. ASSUME NEW d \in Device, Sync!PushHttp(d) \/ Sync!RefusedHttp(d) \/ Sync!AnswerLost(d)
      PROVE  Sync!IInv'
  BY <1>8, HttpKeeps
<1>9. ASSUME NEW d \in Device, Sync!Replace(d) \/ Sync!CheckAgain(d) \/ Sync!SaveRecord(d)
      PROVE  Sync!IInv'
  BY <1>9, ReplaceKeeps, CheckAgainKeeps, RecordKeeps
<1>10. ASSUME NEW d \in Device, Sync!Install(d) \/ Sync!FinishInstall(d) PROVE Sync!IInv'
  BY <1>10, InstallKeeps
<1>11. ASSUME NEW d \in Device, Sync!Crash(d) PROVE Sync!IInv'
  BY <1>11, CrashKeeps
<1>12. CASE Sync!RemoveLock
  BY <1>12, RemovalKeeps
<1>13. CASE UNCHANGED Sync!vars
  <2>1. UNCHANGED <<vault, aside, saved, editor, job, record, blob, meta, lock, head, branch,
                    published>>
    BY <1>13 DEF Sync!vars, Sync!files, Sync!remote
  <2>2. Sync!TypeOK' /\ Sync!RemoteIsPublished' /\ Sync!EditsAreNew'
    BY <2>1 DEF Sync!IInv, Sync!TypeOK, Sync!RemoteIsPublished, Sync!EditsAreNew
  <2>3. ASSUME NEW x \in Device PROVE Sync!DeviceKeeps(x)'
    <3>1. Sync!DeviceKeeps(x)
      BY DEF Sync!IInv
    <3>2. Sync!BaselineIsKept(x)' /\ Sync!EditKeeps(x)' /\ Sync!RunKnowsVault(x)'
      BY <2>1, <3>1 DEF Sync!DeviceKeeps, Sync!BaselineIsKept, Sync!EditKeeps,
         Sync!RunKnowsVault, Sync!Relied, Sync!Kept, Sync!Held, Sync!Changes
    <3>3. Sync!RunKnowsRemote(x)' /\ Sync!RunLosesNothing(x)'
      BY <2>1, <3>1 DEF Sync!DeviceKeeps, Sync!RunKnowsRemote, Sync!RunLosesNothing, Sync!Held
    <3>4. QED
      BY <3>2, <3>3 DEF Sync!DeviceKeeps
  <2>4. QED
    BY <2>2, <2>3 DEF Sync!IInv
<1>14. QED
  BY <1>1, <1>2, <1>3, <1>4, <1>5, <1>6, <1>7, <1>8, <1>9, <1>10, <1>11, <1>12, <1>13
     DEF Sync!Next, Sync!EditorStep, Sync!SyncStep

\* A device that raced stays among those that did.
LEMMA RacedStays == ASSUME [Sync!Next]_(Sync!vars) PROVE raced \subseteq raced'
<1>1. ASSUME NEW d \in Device,
             \/ Sync!Stage(d) \/ Sync!MoveAside(d) \/ Sync!SwapIn(d) \/ Sync!Register(d)
             \/ Sync!Rollback(d) \/ Sync!Crash(d)
      PROVE  raced \subseteq raced'
  BY <1>1 DEF Sync!Stage, Sync!MoveAside, Sync!SwapIn, Sync!Register, Sync!Rollback, Sync!Crash,
     Sync!Races, Sync!files
<1>2. ASSUME NEW d \in Device,
             \/ (\E dir \in Direction : Sync!Begin(d, dir)) \/ Sync!ReadLocal(d)
             \/ Sync!GuardPull(d) \/ Sync!FetchBlob(d) \/ Sync!FetchMetadata(d)
             \/ Sync!FetchGit(d) \/ Sync!FetchHttp(d)
      PROVE  raced \subseteq raced'
  BY <1>2 DEF Sync!Begin, Sync!ReadLocal, Sync!GuardPull, Sync!FetchBlob, Sync!FetchMetadata,
     Sync!FetchGit, Sync!FetchHttp, Sync!files
<1>3. ASSUME NEW d \in Device,
             \/ Sync!Replace(d) \/ Sync!CheckLocal(d) \/ Sync!VerifyFails(d)
             \/ Sync!CheckAgain(d) \/ Sync!Install(d) \/ Sync!FinishInstall(d)
             \/ Sync!SaveRecord(d)
      PROVE  raced \subseteq raced'
  BY <1>3 DEF Sync!Replace, Sync!CheckLocal, Sync!VerifyFails, Sync!CheckAgain, Sync!Install,
     Sync!FinishInstall, Sync!SaveRecord, Sync!Races, Sync!files
<1>4. ASSUME NEW d \in Device,
             \/ Sync!TakeLock(d) \/ Sync!WriteBlob(d) \/ Sync!WriteMetadata(d)
             \/ Sync!CommitGit(d) \/ Sync!PushGit(d) \/ Sync!PushHttp(d)
             \/ Sync!RefusedHttp(d) \/ Sync!AnswerLost(d)
      PROVE  raced \subseteq raced'
  BY <1>4 DEF Sync!TakeLock, Sync!WriteBlob, Sync!WriteMetadata, Sync!CommitGit, Sync!PushGit,
     Sync!PushHttp, Sync!RefusedHttp, Sync!AnswerLost, Sync!Serves, Sync!files
<1>5. CASE Sync!RemoveLock \/ UNCHANGED Sync!vars
  BY <1>5 DEF Sync!RemoveLock, Sync!vars, Sync!files
<1>6. QED
  BY <1>1, <1>2, <1>3, <1>4, <1>5 DEF Sync!Next, Sync!EditorStep, Sync!SyncStep

\* So the invariant holds until a device raced.
LEMMA HoldsUntilRaced ==
  ASSUME Sync!Setting PROVE Sync!Spec => [](raced # {} \/ Sync!IInv)
<1>1. (raced # {} \/ Sync!IInv) /\ [Sync!Next]_(Sync!vars) => (raced # {} \/ Sync!IInv)'
  BY SyncInductive, RacedStays
<1>2. QED
  BY <1>1, SyncInit, PTL DEF Sync!Spec

\* What a remote has confirmed stays there, and every baseline was confirmed: for any number of
\* devices and edits, over a folder, a Git branch or a service that honours if-match.
LEMMA RemoteKeeps ==
  ASSUME Sync!Setting PROVE Sync!Spec => []Sync!SyncLosesNothing
<1>1. Sync!IInv => Sync!SyncLosesNothing
  BY DEF Sync!IInv, Sync!RemoteIsPublished, Sync!DeviceKeeps, Sync!BaselineIsKept,
     Sync!SyncLosesNothing,
     Sync!PublishedEditsStay, Sync!BaselineWasPublished
<1>2. raced # {} => Sync!SyncLosesNothing
  BY DEF Sync!SyncLosesNothing
<1>3. QED
  BY <1>1, <1>2, HoldsUntilRaced, PTL

\* Where a step leaves a device with all it had, for a run that is not installing.
LEMMA KeptInPlace ==
  ASSUME NEW d \in Device, vault' = vault, aside' = aside, editor' = editor,
         job[d].pc # "installing"
  PROVE  Sync!Kept(d) \subseteq Sync!Kept(d)'
  BY DEF Sync!Kept

\* Where a step is another device's, a device keeps what it had.
LEMMA KeptElsewhere ==
  ASSUME NEW d \in Device, OnlyOf(d), NEW x \in Device \ {d}
  PROVE  Sync!Kept(x) \subseteq Sync!Kept(x)'
  BY DEF Sync!Kept, OnlyOf

\* An edit takes away only what was not reported as saved yet.
LEMMA EditRemovesNothing ==
  ASSUME Sync!Setting, Sync!IInv, NEW d \in Device, raced' = {},
         \/ Sync!Stage(d) \/ Sync!MoveAside(d) \/ Sync!SwapIn(d) \/ Sync!Register(d)
         \/ Sync!Rollback(d)
  PROVE  OnlyOf(d) /\ Sync!Kept(d) \cap saved \subseteq Sync!Kept(d)'
<1>1. /\ Sync!TypeOK /\ Sync!EditKeeps(d) /\ Sync!EditsAreNew /\ Sync!RunKnowsVault(d)
      /\ editor[d] \in Sync!Editors
  BY DEF Sync!IInv, Sync!DeviceKeeps, Sync!TypeOK
<1>2. job' = job /\ UNCHANGED <<record, branch>>
  BY DEF Sync!Stage, Sync!MoveAside, Sync!SwapIn, Sync!Register, Sync!Rollback, Sync!remote
<1>3. CASE Sync!Stage(d)
  <2>1. /\ vault' = vault /\ aside' = aside /\ editor[d].pc = "idle" /\ OnlyOf(d)
    BY <1>1, <1>2, <1>3 DEF Sync!Stage, Sync!TypeOK, Sync!files, OnlyOf
  <2>2. QED
    BY <1>2, <2>1 DEF Sync!Kept
<1>4. CASE Sync!MoveAside(d)
  <2>1. /\ vault'[d] = NoVault /\ editor'[d].pc = "swapping" /\ editor'[d].old = vault[d]
        /\ editor[d].pc = "staged" /\ aside' = aside /\ OnlyOf(d)
    BY <1>1, <1>2, <1>4 DEF Sync!MoveAside, Sync!TypeOK, Sync!Editors, OnlyOf
  <2>2. QED
    BY <1>2, <2>1 DEF Sync!Kept
<1>5. CASE Sync!SwapIn(d)
  <2>1. /\ editor'[d].pc = "registering" /\ vault[d] = NoVault
        /\ editor'[d].old = editor[d].old /\ editor[d].pc = "swapping"
        /\ aside' = aside /\ OnlyOf(d)
    BY <1>1, <1>2, <1>5 DEF Sync!SwapIn, Sync!Races, Sync!TypeOK, Sync!Editors, OnlyOf
  <2>2. QED
    BY <1>2, <2>1 DEF Sync!Kept, Sync!Changes
<1>6. ASSUME editor[d].pc = "registering"
      PROVE  /\ editor[d].copy = Sync!Changes(editor[d].old) \cup editor[d].edit
             /\ editor[d].edit \cap saved = {}
             /\ IF vault[d] # NoVault
                THEN editor[d].copy \subseteq vault[d] /\ job[d].pc # "installing"
                ELSE job[d].pc = "installing" /\ editor[d].copy \subseteq Sync!Changes(job[d].local)
  BY <1>1, <1>6 DEF Sync!EditKeeps, Sync!EditsAreNew, Sync!RunKnowsVault
<1>7. CASE Sync!Register(d) \/ (Sync!Rollback(d) /\ vault[d] = NoVault)
  <2>1. /\ vault' = vault /\ editor[d].pc = "registering" /\ aside[d] \subseteq aside'[d]
        /\ OnlyOf(d)
    <3>1. CASE Sync!Register(d)
      BY <1>1, <1>2, <3>1 DEF Sync!Register, Sync!TypeOK, OnlyOf
    <3>2. CASE Sync!Rollback(d) /\ vault[d] = NoVault
      BY <1>1, <1>2, <3>2 DEF Sync!Rollback, Sync!TypeOK, OnlyOf
    <3>3. QED
      BY <1>7, <3>1, <3>2
  <2>2. Sync!Changes(editor[d].old) \subseteq
          Sync!Changes(vault[d])
            \cup (IF job[d].pc = "installing" THEN Sync!Changes(job[d].local) ELSE {})
    BY <1>6, <2>1 DEF Sync!Changes
  <2>3. QED
    BY <1>2, <2>1, <2>2 DEF Sync!Kept
<1>8. CASE Sync!Rollback(d) /\ vault[d] # NoVault
  <2>1. /\ vault'[d] = editor[d].old /\ vault[d] = editor[d].copy
        /\ editor[d].pc = "registering" /\ aside' = aside /\ OnlyOf(d)
    BY <1>1, <1>2, <1>8 DEF Sync!Rollback, Sync!Races, Sync!TypeOK, OnlyOf
  <2>2. /\ Sync!Changes(vault[d]) = Sync!Changes(vault'[d]) \cup editor[d].edit
        /\ editor[d].edit \cap saved = {}
    BY <1>6, <1>8, <2>1 DEF Sync!Changes
  <2>3. QED
    BY <1>2, <2>1, <2>2 DEF Sync!Kept
<1>9. QED
  BY <1>3, <1>4, <1>5, <1>7, <1>8

\* A run puts in the place of the vault only what holds it.
LEMMA RunRemovesNothing ==
  ASSUME Sync!Setting, Sync!IInv, NEW d \in Device, raced' = {},
         Sync!Replace(d) \/ Sync!Install(d) \/ Sync!FinishInstall(d) \/ Sync!Crash(d)
  PROVE  OnlyOf(d) /\ Sync!Kept(d) \subseteq Sync!Kept(d)'
<1>1. Sync!TypeOK /\ Sync!DeviceKeeps(d)
  BY DEF Sync!IInv
<1>2. OnlyOf(d)
  BY <1>1 DEF Sync!Replace, Sync!Install, Sync!FinishInstall, Sync!Crash, Sync!Goes, OnlyOf,
     Sync!TypeOK, Sync!remote, Sync!files
<1>3. CASE Sync!Replace(d)
  <2>1. /\ vault'[d] = job[d].seen /\ aside' = aside /\ editor' = editor
        /\ job[d].pc = "replace"
        /\ vault[d] \in {NoVault, record[d].base}
        /\ Sync!Changes(record[d].base) \subseteq job[d].seen
        /\ job[d].seen # NoVault
    BY <1>1, <1>3 DEF Sync!Replace, Sync!Races, Sync!TypeOK, Sync!DeviceKeeps,
       Sync!RunKnowsRemote
  <2>2. QED
    BY <1>2, <2>1 DEF Sync!Kept, Sync!Changes
<1>4. CASE Sync!Install(d)
  <2>1. /\ vault'[d] = NoVault /\ job'[d].pc = "installing" /\ job'[d].local = vault[d]
        /\ aside' = aside /\ editor' = editor /\ job[d].pc = "install"
    BY <1>1, <1>4 DEF Sync!Install, Sync!TypeOK, Sync!Jobs
  <2>2. QED
    BY <1>2, <2>1 DEF Sync!Kept
<1>5. CASE Sync!FinishInstall(d)
  <2>1. /\ vault'[d] = job[d].out /\ job[d].pc = "installing" /\ vault[d] = NoVault
        /\ aside' = aside /\ editor' = editor
        /\ Sync!Changes(job[d].local) \subseteq job[d].out /\ job[d].out # NoVault
    BY <1>1, <1>5 DEF Sync!FinishInstall, Sync!TypeOK, Sync!DeviceKeeps, Sync!RunKnowsVault,
       Sync!RunLosesNothing, Sync!Ending
  <2>2. QED
    BY <1>2, <2>1 DEF Sync!Kept, Sync!Changes
<1>6. CASE Sync!Crash(d)
  <2>1. /\ vault' = vault /\ aside \in [Device -> Sync!Vault]
        /\ aside'[d] = aside[d]
             \cup (IF editor[d].pc \in {"swapping", "registering"}
                   THEN Sync!Changes(editor[d].old) ELSE {})
             \cup (IF job[d].pc = "installing" THEN Sync!Changes(job[d].local) ELSE {})
    BY <1>1, <1>6 DEF Sync!Crash, Sync!TypeOK
  <2>2. QED
    BY <1>2, <2>1 DEF Sync!Kept
<1>7. QED
  BY <1>3, <1>4, <1>5, <1>6

\* No step of an edit, a run or a crash removes a saved change from its device.
LEMMA NothingIsForgotten ==
  ASSUME Sync!Setting, raced # {} \/ Sync!IInv, [Sync!Next]_(Sync!vars)
  PROVE  ~Sync!ForgetsSaved
<1> SUFFICES ASSUME Sync!IInv, raced' = {}, NEW x \in Device
             PROVE  Sync!Kept(x) \cap saved \subseteq Sync!Kept(x)'
  BY RacedStays DEF Sync!ForgetsSaved
<1>1. Sync!TypeOK /\ Sync!DeviceKeeps(x)
  BY DEF Sync!IInv
<1>2. ASSUME NEW d \in Device,
             \/ Sync!Stage(d) \/ Sync!MoveAside(d) \/ Sync!SwapIn(d) \/ Sync!Register(d)
             \/ Sync!Rollback(d)
      PROVE  Sync!Kept(x) \cap saved \subseteq Sync!Kept(x)'
  BY <1>2, EditRemovesNothing, KeptElsewhere
<1>3. ASSUME NEW d \in Device,
             Sync!Replace(d) \/ Sync!Install(d) \/ Sync!FinishInstall(d) \/ Sync!Crash(d)
      PROVE  Sync!Kept(x) \cap saved \subseteq Sync!Kept(x)'
  BY <1>3, RunRemovesNothing, KeptElsewhere
<1>4. ASSUME vault' = vault, aside' = aside, editor' = editor,
             job'[x] = job[x] \/ job[x].pc # "installing"
      PROVE  Sync!Kept(x) \cap saved \subseteq Sync!Kept(x)'
  BY <1>4, KeptInPlace DEF Sync!Kept
<1>5. ASSUME NEW d \in Device,
             \/ \E dir \in Direction : Sync!Begin(d, dir)
             \/ Sync!ReadLocal(d) \/ Sync!GuardPull(d) \/ Sync!FetchBlob(d)
             \/ Sync!FetchMetadata(d) \/ Sync!FetchGit(d)
             \/ Sync!FetchHttp(d) \/ Sync!CheckLocal(d) \/ Sync!VerifyFails(d)
      PROVE  Sync!Kept(x) \cap saved \subseteq Sync!Kept(x)'
  <2>1. /\ vault' = vault /\ aside' = aside /\ editor' = editor /\ job[d].pc # "installing"
        /\ \A y \in Device \ {d} : job'[y] = job[y]
    <3>1. CASE \/ (\E dir \in Direction : Sync!Begin(d, dir)) \/ Sync!ReadLocal(d)
               \/ Sync!GuardPull(d)
      BY <1>1, <3>1 DEF Sync!Begin, Sync!ReadLocal, Sync!GuardPull, Sync!Fails, Sync!Goes,
         Sync!files, Sync!TypeOK
    <3>2. ASSUME NEW seen, NEW version, Sync!Fetched(d, seen, version)
          PROVE  \A y \in Device \ {d} : job'[y] = job[y]
      BY <1>1, <3>2 DEF Sync!Fetched, Sync!Fails, Sync!TypeOK
    <3>3. CASE \/ Sync!FetchBlob(d) \/ Sync!FetchMetadata(d) \/ Sync!FetchGit(d)
               \/ Sync!FetchHttp(d)
      <4>1. vault' = vault /\ aside' = aside /\ editor' = editor /\ job[d].pc # "installing"
        BY <3>3 DEF Sync!FetchBlob, Sync!FetchMetadata, Sync!FetchGit, Sync!FetchHttp,
           Sync!files
      <4>2. \A y \in Device \ {d} : job'[y] = job[y]
        BY <1>1, <3>2, <3>3 DEF Sync!FetchBlob, Sync!FetchMetadata, Sync!FetchGit,
           Sync!FetchHttp, Sync!Fails, Sync!TypeOK
      <4>3. QED
        BY <4>1, <4>2
    <3>4. CASE Sync!CheckLocal(d) \/ Sync!VerifyFails(d)
      BY <1>1, <3>4 DEF Sync!CheckLocal, Sync!VerifyFails, Sync!FailsOrRetries, Sync!Fails,
         Sync!files, Sync!TypeOK
    <3>5. QED
      BY <1>5, <3>1, <3>3, <3>4
  <2>2. job'[x] = job[x] \/ job[x].pc # "installing"
    BY <2>1
  <2>3. QED
    BY <1>4, <2>1, <2>2
<1>6. ASSUME NEW d \in Device,
             \/ Sync!TakeLock(d) \/ Sync!WriteBlob(d) \/ Sync!WriteMetadata(d)
             \/ Sync!CommitGit(d) \/ Sync!PushGit(d)
             \/ Sync!PushHttp(d) \/ Sync!RefusedHttp(d) \/ Sync!AnswerLost(d)
             \/ Sync!CheckAgain(d) \/ Sync!SaveRecord(d)
      PROVE  Sync!Kept(x) \cap saved \subseteq Sync!Kept(x)'
  <2>1. /\ vault' = vault /\ aside' = aside /\ editor' = editor /\ job[d].pc # "installing"
        /\ job' = job \/ \E j : job' = [job EXCEPT ![d] = j]
    BY <1>1, <1>6 DEF Sync!TakeLock, Sync!WriteBlob, Sync!WriteMetadata, Sync!CommitGit,
       Sync!PushGit, Sync!PushHttp,
       Sync!RefusedHttp, Sync!AnswerLost, Sync!CheckAgain, Sync!SaveRecord, Sync!Serves,
       Sync!Conflicts, Sync!FailsOrRetries, Sync!Fails,
       Sync!Goes, Sync!files
  <2>2. job'[x] = job[x] \/ job[x].pc # "installing"
    BY <1>1, <2>1 DEF Sync!TypeOK
  <2>3. QED
    BY <1>4, <2>1, <2>2
<1>7. CASE Sync!RemoveLock \/ UNCHANGED Sync!vars
  BY <1>4, <1>7 DEF Sync!RemoveLock, Sync!vars, Sync!files
<1>8. QED
  BY <1>2, <1>3, <1>5, <1>6, <1>7 DEF Sync!Next, Sync!EditorStep, Sync!SyncStep

\* A change reported as saved stays on its device: no download, no installed merge, no failed
\* edit and no crash in the middle of a swap removes it, over each kind of remote.
LEMMA SavedKept == ASSUME Sync!Setting PROVE Sync!Spec => Sync!SavedEditsStay
<1>1. (raced # {} \/ Sync!IInv) /\ [Sync!Next]_(Sync!vars) => [~Sync!ForgetsSaved]_(Sync!vars)
  BY NothingIsForgotten
<1>2. QED
  BY <1>1, HoldsUntilRaced, PTL DEF Sync!Spec, Sync!SavedEditsStay

-----------------------------------------------------------------------------
(* GitCheckout                                                             *)

\* Nothing is saved or pushed before the first clone.
LEMMA CheckoutInit == ASSUME Checkout!Named, Checkout!Init PROVE Checkout!IInv
<1>1. Checkout!TypeOK
  BY DEF Checkout!Init, Checkout!TypeOK, Checkout!Named, Checkout!Quiet
<1>2. /\ Checkout!Cloned /\ Checkout!PushesTheirOwn /\ Checkout!ReportsCommits
      /\ Checkout!PushedIsPublished
  BY DEF Checkout!Init, Checkout!Cloned, Checkout!PushesTheirOwn,
     Checkout!ReportsCommits, Checkout!PushedIsPublished, Checkout!Quiet
<1>3. QED
  BY <1>1, <1>2 DEF Checkout!IInv

\* A step of a push, or its end, is a step of no other push.
LEMMA PushOf ==
  ASSUME Checkout!TypeOK, NEW c \in Connection,
         \/ \E place : push' = [push EXCEPT ![c].pc = place]
         \/ \E q : push' = [push EXCEPT ![c] = q]
  PROVE  /\ DOMAIN push' = Connection
         /\ \A d \in Connection \ {c} : push'[d] = push[d]
         /\ \A q : push' = [push EXCEPT ![c] = q] => push'[c] = q
         /\ \A place : push' = [push EXCEPT ![c].pc = place] =>
              push'[c]
                   = [pc |-> place, number |-> push[c].number, expected |-> push[c].expected]
<1>1. DOMAIN push = Connection
  BY DEF Checkout!TypeOK
<1>2. ASSUME NEW q, push' = [push EXCEPT ![c] = q]
      PROVE  /\ DOMAIN push' = Connection
             /\ \A d \in Connection \ {c} : push'[d] = push[d]
             /\ push'[c] = q
  BY <1>1, <1>2
<1>3. ASSUME NEW place, push' = [push EXCEPT ![c].pc = place]
      PROVE  push' = [push EXCEPT ![c] = [pc |-> place, number |-> push[c].number,
                                          expected |-> push[c].expected]]
  <2>1. push[c] = [pc |-> push[c].pc, number |-> push[c].number, expected |-> push[c].expected]
    BY DEF Checkout!TypeOK
  <2>2. [push[c] EXCEPT !.pc = place]
          = [pc |-> place, number |-> push[c].number, expected |-> push[c].expected]
    BY <2>1
  <2>3. QED
    BY <1>3, <2>2
<1>4. QED
  BY <1>2, <1>3

\* A preparation and its end: once the clone is there they take nothing from a branch.
LEMMA PreparationKeeps ==
  ASSUME Checkout!Named, Checkout!IInv,
         \/ (\E c \in Connection : Checkout!Prepare(c)) \/ Checkout!Switch \/ Checkout!Save
         \/ Checkout!Cancel
  PROVE  Checkout!IInv'
<1> USE DEF Checkout!Named
<1>1. /\ Checkout!TypeOK /\ Checkout!Cloned /\ Checkout!PushesTheirOwn
      /\ Checkout!ReportsCommits /\ Checkout!PushedIsPublished
  BY DEF Checkout!IInv
<1>2. UNCHANGED <<remote, staged, push, reported, strayed, commits>>
  BY DEF Checkout!Prepare, Checkout!Switch, Checkout!Save, Checkout!Cancel
<1>3. (Checkout!ReportsCommits /\ Checkout!PushedIsPublished)'
  BY <1>1, <1>2 DEF Checkout!ReportsCommits, Checkout!PushedIsPublished
<1>4. ASSUME NEW c \in Connection, Checkout!Prepare(c) PROVE Checkout!IInv'
  <2>1. /\ preparing' = [connection |-> c, branch |-> preparing'.branch, pc |-> "switch"]
        /\ preparing'.branch \in Branch /\ connection' = connection
    BY <1>4 DEF Checkout!Prepare
  <2>2. \/ checkout # "none" /\ UNCHANGED <<checkout, local>>
        \/ /\ checkout = "none" /\ checkout' = Default
           /\ local' = [local EXCEPT ![Default] = remote[Default]]
    BY <1>4 DEF Checkout!Prepare
  <2>3. Checkout!TypeOK'
    BY <1>1, <1>2, <2>1, <2>2 DEF Checkout!TypeOK
  <2>4. Checkout!Cloned'
    BY <1>1, <2>1, <2>2 DEF Checkout!TypeOK, Checkout!Cloned
  <2>5. Checkout!PushesTheirOwn'
    BY <1>1, <1>2, <2>1, <2>2 DEF Checkout!TypeOK, Checkout!Cloned,
       Checkout!PushesTheirOwn
  <2>6. QED
    BY <1>3, <2>3, <2>4, <2>5 DEF Checkout!IInv
<1>5. CASE Checkout!Switch
  <2>1. /\ preparing' = [preparing EXCEPT !.pc = "prepared"] /\ connection' = connection
        /\ preparing.pc = "switch" /\ checkout' = preparing.branch
    BY <1>5 DEF Checkout!Switch
  <2>2. \/ UNCHANGED local
        \/ local' = [local EXCEPT ![preparing.branch] = Checkout!StartsFrom(preparing.branch)]
    BY <1>5 DEF Checkout!Switch
  <2>3. Checkout!TypeOK'
    BY <1>1, <1>2, <2>1, <2>2 DEF Checkout!TypeOK
  <2>4. Checkout!Cloned'
    BY <1>1, <2>1, <2>2 DEF Checkout!TypeOK, Checkout!Cloned
  <2>5. ASSUME NEW c \in Connection, NEW b \in Branch, NEW n, n # 0, <<c, n>> \in local[b]
        PROVE  <<c, n>> \in local'[b]
    <3>1. local[b] # Checkout!Absent
      BY <2>5 DEF Checkout!Absent
    <3>2. Checkout!StartsFrom(b) = local[b]
      BY <3>1 DEF Checkout!StartsFrom, Checkout!There
    <3>3. preparing.branch \in Branch /\ DOMAIN local = Branch
      BY <1>1, <2>1 DEF Checkout!TypeOK
    <3>4. CASE b = preparing.branch /\ ~UNCHANGED local
      BY <2>2, <2>5, <3>2, <3>3, <3>4
    <3>5. CASE b # preparing.branch \/ UNCHANGED local
      BY <2>2, <2>5, <3>3, <3>5
    <3>6. QED
      BY <3>4, <3>5
  <2>6. Checkout!PushesTheirOwn'
    BY <1>1, <1>2, <2>1, <2>5 DEF Checkout!TypeOK, Checkout!PushesTheirOwn
  <2>7. QED
    BY <1>3, <2>3, <2>4, <2>6 DEF Checkout!IInv
<1>6. CASE Checkout!Save
  <2>1. /\ preparing' = [preparing EXCEPT !.pc = "idle"] /\ preparing.pc = "prepared"
        /\ push[preparing.connection] = Checkout!Quiet
        /\ connection' = [connection EXCEPT ![preparing.connection] = preparing.branch]
        /\ UNCHANGED <<checkout, local>>
    BY <1>6 DEF Checkout!Save
  <2>2. Checkout!TypeOK'
    BY <1>1, <1>2, <2>1 DEF Checkout!TypeOK
  <2>3. Checkout!Cloned'
    BY <1>1, <2>1 DEF Checkout!TypeOK, Checkout!Cloned
  <2>4. \A d \in Connection : push[d].pc # "idle" => connection'[d] = connection[d]
    BY <1>1, <2>1 DEF Checkout!TypeOK, Checkout!Quiet
  <2>5. Checkout!PushesTheirOwn'
    BY <1>1, <1>2, <2>1, <2>4 DEF Checkout!PushesTheirOwn
  <2>6. QED
    BY <1>3, <2>2, <2>3, <2>5 DEF Checkout!IInv
<1>7. CASE Checkout!Cancel
  <2>1. /\ preparing' = [preparing EXCEPT !.pc = "idle"]
        /\ UNCHANGED <<checkout, local, connection>>
    BY <1>7 DEF Checkout!Cancel
  <2>2. Checkout!TypeOK' /\ Checkout!Cloned' /\ Checkout!PushesTheirOwn'
    BY <1>1, <1>2, <2>1 DEF Checkout!TypeOK, Checkout!Cloned,
       Checkout!PushesTheirOwn
  <2>3. QED
    BY <1>3, <2>2 DEF Checkout!IInv
<1>8. QED
  BY <1>4, <1>5, <1>6, <1>7

\* A push up to its last step: what it is about is staged, and then on its own branch.
LEMMA CommitKeeps ==
  ASSUME Checkout!Named, Checkout!IInv, NEW c \in Connection,
         \/ Checkout!Begin(c) \/ Checkout!Fetch(c) \/ Checkout!Write(c) \/ Checkout!Commit(c)
         \/ Checkout!Fails(c)
  PROVE  Checkout!IInv'
<1> USE DEF Checkout!Named
<1>1. /\ Checkout!TypeOK /\ Checkout!Cloned /\ Checkout!PushesTheirOwn
      /\ Checkout!ReportsCommits /\ Checkout!PushedIsPublished
  BY DEF Checkout!IInv
<1>2. UNCHANGED <<remote, checkout, connection, preparing, reported>> /\ strayed \subseteq strayed'
  BY DEF Checkout!Begin, Checkout!Fetch, Checkout!Write, Checkout!Commit, Checkout!Fails
<1>3. (Checkout!Cloned /\ Checkout!ReportsCommits /\ Checkout!PushedIsPublished)'
  BY <1>1, <1>2 DEF Checkout!Cloned, Checkout!ReportsCommits,
     Checkout!PushedIsPublished
<1>4. CASE Checkout!Begin(c)
  <2>1. /\ commits' = commits + 1 /\ UNCHANGED <<local, staged>> /\ connection[c] # "none"
        /\ push' = [push EXCEPT ![c] = [pc |-> "fetch", number |-> commits + 1,
                                        expected |-> Checkout!Version(remote[connection[c]], c)]]
    BY <1>4 DEF Checkout!Begin, Checkout!Commits
  <2>2. /\ DOMAIN push' = Connection
        /\ \A d \in Connection \ {c} : push'[d] = push[d]
        /\ push'[c] = [pc |-> "fetch", number |-> commits + 1,
                       expected |-> Checkout!Version(remote[connection[c]], c)]
    BY <1>1, <2>1, PushOf
  <2>3. Checkout!TypeOK'
    BY <1>1, <1>2, <2>1, <2>2 DEF Checkout!TypeOK
  <2>4. Checkout!PushesTheirOwn'
    BY <1>1, <1>2, <2>1, <2>2 DEF Checkout!TypeOK, Checkout!PushesTheirOwn
  <2>5. QED
    BY <1>3, <2>3, <2>4 DEF Checkout!IInv
<1>5. CASE Checkout!Fetch(c) \/ Checkout!Fails(c)
  <2>1. /\ UNCHANGED <<local, staged, commits>>
        /\ \/ push[c].pc = "fetch" /\ push' = [push EXCEPT ![c].pc = "write"]
           \/ push' = [push EXCEPT ![c] = Checkout!Quiet]
    BY <1>5 DEF Checkout!Fetch, Checkout!Fails, Checkout!Goes, Checkout!Ends
  <2>2. /\ DOMAIN push' = Connection
        /\ \A d \in Connection \ {c} : push'[d] = push[d]
        /\ \/ push'[c] = Checkout!Quiet
           \/ /\ push[c].pc = "fetch"
              /\ push'[c] = [pc |-> "write", number |-> push[c].number,
                             expected |-> push[c].expected]
    BY <1>1, <2>1, PushOf
  <2>3. Checkout!TypeOK'
    BY <1>1, <1>2, <2>1, <2>2 DEF Checkout!TypeOK, Checkout!Quiet
  <2>4. Checkout!PushesTheirOwn'
    BY <1>1, <1>2, <2>1, <2>2 DEF Checkout!TypeOK, Checkout!PushesTheirOwn, Checkout!Quiet
  <2>5. QED
    BY <1>3, <2>3, <2>4 DEF Checkout!IInv
<1>6. CASE Checkout!Write(c)
  <2>1. /\ UNCHANGED <<local, commits>> /\ push[c].pc = "write"
        /\ push' = [push EXCEPT ![c].pc = "commit"]
        /\ staged' = staged \cup {<<c, push[c].number>>}
    BY <1>6 DEF Checkout!Write, Checkout!Goes
  <2>2. /\ DOMAIN push' = Connection
        /\ \A d \in Connection \ {c} : push'[d] = push[d]
        /\ push'[c] = [pc |-> "commit", number |-> push[c].number,
                       expected |-> push[c].expected]
    BY <1>1, <2>1, PushOf
  <2>3. Checkout!TypeOK'
    BY <1>1, <1>2, <2>1, <2>2 DEF Checkout!TypeOK
  <2>4. Checkout!PushesTheirOwn'
    BY <1>1, <1>2, <2>1, <2>2 DEF Checkout!TypeOK, Checkout!PushesTheirOwn
  <2>5. QED
    BY <1>3, <2>3, <2>4 DEF Checkout!IInv
<1>7. CASE Checkout!Commit(c)
  <2>1. /\ push[c].pc = "commit" /\ UNCHANGED commits
        /\ push' = [push EXCEPT ![c].pc = "push"]
        /\ local' = [local EXCEPT
             ![checkout] = (local[checkout] \ Checkout!Absent) \cup {x \in staged : x[1] = c}]
        /\ staged' = {x \in staged : x[1] # c}
        /\ checkout # connection[c] => <<c, push[c].number>> \in strayed'
    BY <1>7 DEF Checkout!Commit, Checkout!Committed, Checkout!Goes
  <2>2. /\ <<c, push[c].number>> \in staged /\ connection[c] # "none" /\ push[c].number # 0
        /\ checkout \in Branch
    BY <1>1, <2>1 DEF Checkout!TypeOK, Checkout!Cloned, Checkout!PushesTheirOwn
  <2>3. local'[checkout] = (local[checkout] \ Checkout!Absent) \cup {x \in staged : x[1] = c}
    BY <1>1, <2>1, <2>2 DEF Checkout!TypeOK
  <2>4. /\ DOMAIN push' = Connection
        /\ \A d \in Connection \ {c} : push'[d] = push[d]
        /\ push'[c] = [pc |-> "push", number |-> push[c].number, expected |-> push[c].expected]
    BY <1>1, <2>1, PushOf
  <2>5. Checkout!TypeOK'
    BY <1>1, <1>2, <2>1, <2>4 DEF Checkout!TypeOK
  <2>6. ASSUME NEW d \in Connection, NEW b \in Branch, NEW n, n # 0, <<d, n>> \in local[b]
        PROVE  <<d, n>> \in local'[b]
    <3>1. <<d, n>> \notin Checkout!Absent
      BY <2>6 DEF Checkout!Absent
    <3>2. QED
      BY <1>1, <2>1, <2>3, <2>6, <3>1 DEF Checkout!TypeOK
  <2>7. Checkout!PushesTheirOwn'
    <3> SUFFICES ASSUME NEW d \in Connection, push'[d].pc # "idle"
                 PROVE  /\ connection[d] # "none" /\ push'[d].number # 0
                        /\ push'[d].pc = "commit" => <<d, push'[d].number>> \in staged'
                        /\ push'[d].pc = "push" =>
                             <<d, push'[d].number>> \in local'[connection[d]] \cup strayed'
      BY <1>2 DEF Checkout!PushesTheirOwn
    <3>1. CASE d = c
      BY <2>1, <2>2, <2>3, <2>4, <3>1
    <3>2. CASE d # c
      <4>1. /\ push'[d] = push[d] /\ push[d].number # 0
            /\ connection[d] \in Branch
        BY <1>1, <2>4, <3>2 DEF Checkout!TypeOK, Checkout!PushesTheirOwn
      <4>2. push[d].pc = "commit" => <<d, push[d].number>> \in staged'
        BY <1>1, <2>1, <3>2, <4>1 DEF Checkout!PushesTheirOwn
      <4>3. push[d].pc = "push" =>
              <<d, push[d].number>> \in local'[connection[d]] \cup strayed'
        BY <1>1, <1>2, <2>6, <4>1 DEF Checkout!PushesTheirOwn
      <4>4. QED
        BY <1>1, <4>1, <4>2, <4>3 DEF Checkout!PushesTheirOwn
    <3>3. QED
      BY <3>1, <3>2
  <2>8. QED
    BY <1>3, <2>5, <2>7 DEF Checkout!IInv
<1>8. QED
  BY <1>4, <1>5, <1>6, <1>7

\* What moves the remote branches: a push that takes nothing from its branch and reports what
\* is on it, and another device, which only adds.
LEMMA PublicationKeeps ==
  ASSUME Checkout!Named, Checkout!IInv,
         (\E c \in Connection : Checkout!Push(c)) \/ Checkout!OtherDevice
  PROVE  Checkout!IInv'
<1> USE DEF Checkout!Named
<1>1. /\ Checkout!TypeOK /\ Checkout!Cloned /\ Checkout!PushesTheirOwn
      /\ Checkout!ReportsCommits /\ Checkout!PushedIsPublished
  BY DEF Checkout!IInv
<1>2. UNCHANGED <<local, checkout, staged, connection, preparing, strayed>>
  BY DEF Checkout!Push, Checkout!OtherDevice
<1>3. Checkout!Cloned'
  BY <1>1, <1>2 DEF Checkout!Cloned
<1>4. ASSUME NEW c \in Connection, Checkout!Push(c) PROVE Checkout!IInv'
  <2> DEFINE b == connection[c]
  <2>1. /\ push[c].pc = "push" /\ remote[b] \ Checkout!Absent \subseteq local[b]
        /\ remote' = [remote EXCEPT ![b] = local[b]]
        /\ reported' = reported \cup {<<b, <<c, push[c].number>>>>}
        /\ push' = [push EXCEPT ![c] = Checkout!Quiet] /\ UNCHANGED commits
    BY <1>4 DEF Checkout!Push, Checkout!FastForward, Checkout!Ends
  <2>2. /\ b \in Branch
        /\ <<c, push[c].number>> \in local[b] \cup strayed
        /\ push[c].number # 0
    BY <1>1, <2>1 DEF Checkout!TypeOK, Checkout!PushesTheirOwn
  <2>3. Checkout!TypeOK'
    BY <1>1, <1>2, <2>1 DEF Checkout!TypeOK, Checkout!Quiet
  <2>4. Checkout!PushesTheirOwn'
    BY <1>1, <1>2, <2>1 DEF Checkout!TypeOK, Checkout!PushesTheirOwn, Checkout!Quiet
  <2>5. Checkout!ReportsCommits'
    BY <1>1, <2>1, <2>2 DEF Checkout!ReportsCommits, Checkout!Absent
  <2>6. \A r \in reported : r[2] \in remote'[r[1]] \cup strayed'
    BY <1>1, <1>2, <2>1, <2>2 DEF Checkout!TypeOK, Checkout!ReportsCommits,
       Checkout!PushedIsPublished
  <2>7. Checkout!PushedIsPublished'
    BY <1>1, <1>2, <2>1, <2>2, <2>6 DEF Checkout!TypeOK, Checkout!PushedIsPublished
  <2>8. QED
    BY <1>3, <2>3, <2>4, <2>5, <2>7 DEF Checkout!IInv
<1>5. CASE Checkout!OtherDevice
  <2>1. PICK c \in Connection, b \in Branch :
          remote'
               = [remote EXCEPT ![b] = (remote[b] \ Checkout!Absent) \cup {<<c, commits + 1>>}]
    BY <1>5 DEF Checkout!OtherDevice
  <2>2. commits' = commits + 1 /\ UNCHANGED <<push, reported>>
    BY <1>5 DEF Checkout!OtherDevice, Checkout!Commits
  <2>3. Checkout!TypeOK'
    BY <1>1, <1>2, <2>1, <2>2 DEF Checkout!TypeOK
  <2>4. (Checkout!PushesTheirOwn /\ Checkout!ReportsCommits)'
    BY <1>1, <1>2, <2>2 DEF Checkout!PushesTheirOwn, Checkout!ReportsCommits
  <2>5. Checkout!PushedIsPublished'
    BY <1>1, <1>2, <2>1, <2>2 DEF Checkout!TypeOK, Checkout!ReportsCommits,
       Checkout!PushedIsPublished
  <2>6. QED
    BY <1>3, <2>3, <2>4, <2>5 DEF Checkout!IInv
<1>6. QED
  BY <1>4, <1>5

\* The invariant is kept by every step.
LEMMA CheckoutInductive == ASSUME Checkout!Named, Checkout!IInv,
                                  [Checkout!Next]_(Checkout!vars)
                           PROVE  Checkout!IInv'
<1>1. CASE UNCHANGED Checkout!vars
  BY <1>1 DEF Checkout!vars, Checkout!IInv, Checkout!TypeOK, Checkout!Cloned,
     Checkout!PushesTheirOwn, Checkout!ReportsCommits,
     Checkout!PushedIsPublished
<1>2. QED
  BY <1>1, PreparationKeeps, CommitKeeps, PublicationKeeps DEF Checkout!Next

\* A push that reported success is on the branch of the repository: for any number of
\* connections, branches and commits, unless it was committed to the branch of another one.
LEMMA PushesKept ==
  ASSUME Checkout!Named PROVE Checkout!Spec => []Checkout!PushedIsPublished
<1>1. Checkout!IInv => Checkout!PushedIsPublished
  BY DEF Checkout!IInv
<1>2. QED
  BY <1>1, CheckoutInit, CheckoutInductive, PTL DEF Checkout!Spec

-----------------------------------------------------------------------------
(* The application                                                         *)

\* A step of the application is a step of each component or leaves it alone.
LEMMA DesktopSynchronises == DesktopSpec => Sync!Spec /\ Checkout!Spec
<1>1. DesktopInit => Sync!Init /\ Checkout!Init
  BY DEF DesktopInit
<1> USE DEF DesktopNext, desktopVars, BackendsStep, ChatStep, HostStep, LinksStep, ChangesStep,
            PageStep, SyncStep, CheckoutStep
<1>2. [DesktopNext]_desktopVars => [Sync!Next]_(Sync!vars)
  BY DEF syncVars, Sync!vars, Sync!files, Sync!remote
<1>3. [DesktopNext]_desktopVars => [Checkout!Next]_(Checkout!vars)
  BY DEF checkoutVars, Checkout!vars
<1>4. QED
  BY <1>1, <1>2, <1>3, PTL DEF DesktopSpec, Sync!Spec, Checkout!Spec

\* What a remote has confirmed stays in it, over a folder, a Git branch or a service that
\* honours if-match, until an edit and a run of one device replace each other's vault; and a
\* push that reported success is on the branch of the repository, unless its commit was made
\* while the branch of another connection was checked out.
THEOREM PublishedStays == DesktopSpec => []PublishedIsKept
<1>1. (Sync!Spec => []Sync!SyncLosesNothing) /\ (Checkout!Spec => []Checkout!PushedIsPublished)
  BY RemoteKeeps, PushesKept, DesktopAssumption
<1>2. Sync!SyncLosesNothing /\ Checkout!PushedIsPublished => PublishedIsKept
  BY DEF PublishedIsKept
<1>3. QED
  BY <1>1, <1>2, DesktopSynchronises, PTL

\* A change that was reported as saved stays on its device: no download, no installed merge,
\* no failed edit and no crash in the middle of a swap removes it, whatever is edited during a
\* run, until a rename of the one meets with a vault of the other.
THEOREM SavedStays == DesktopSpec => SavedEditsStay
<1>1. Sync!Spec => Sync!SavedEditsStay
  BY SavedKept, DesktopAssumption
<1>2. [~Sync!ForgetsSaved]_(Sync!vars) => [~Sync!ForgetsSaved]_syncVars
  BY DEF syncVars, Sync!vars, Sync!files, Sync!remote
<1>3. QED
  BY <1>1, <1>2, DesktopSynchronises, PTL DEF Sync!SavedEditsStay, SavedEditsStay
=============================================================================
