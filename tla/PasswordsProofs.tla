--------------------------- MODULE PasswordsProofs ---------------------------
(***************************************************************************)
(* Theorems about the stored passwords (Passwords): for every set of       *)
(* changes, fields and policies, every finite set of operations and every  *)
(* bound on faults, edits and approvals; for every set of resources and    *)
(* items of the catalog; and for every number of secrets, vaults and       *)
(* commands that store their values.                                       *)
(***************************************************************************)
EXTENDS Passwords, FiniteSetTheorems, SequenceTheorems, WellFoundedInduction, TLAPS

-----------------------------------------------------------------------------
(* Sequences of operations                                                 *)

\* Positions of a sequence that are in a set have a last one.
LEMMA LastPosition ==
  ASSUME NEW n \in Nat, NEW K \in SUBSET (1..n), K # {}
  PROVE  \E k \in K : \A j \in K : j <= k
<1> DEFINE R == StrictSubsetOrdering(1..n)
           from(k) == {j \in K : k <= j}
           T == {from(k) : k \in K}
<1>1. IsFiniteSet(1..n)
  BY FS_Interval
<1>2. T \subseteq FiniteSubsetsOf(1..n)
  BY <1>1, FS_FiniteSubsetsOfFinite
<1>3. PICK x \in T : \A y \in T : ~(<<y, x>> \in R)
  <2>1. IsWellFoundedOn(R, FiniteSubsetsOf(1..n))
    BY FS_StrictSubsetOrderingWellFounded
  <2>2. T # {}
    OBVIOUS
  <2>3. QED
    <3> HIDE DEF T, R
    <3> QED BY <2>1, <2>2, <1>2, WFMin
<1>4. PICK k \in K : x = from(k)
  OBVIOUS
<1>5. ASSUME NEW j \in K, k < j PROVE FALSE
  <2>1. from(j) \subseteq from(k) /\ from(j) # from(k) /\ from(j) \in T
    <3>1. /\ k <= k /\ ~(j <= k)
          /\ \A i \in K : j <= i => k <= i
      <4>1. \A i \in K \cup {j, k} : i \in Nat
        OBVIOUS
      <4>2. QED
        BY <4>1, <1>5
    <3>2. QED
      BY <3>1
  <2>2. <<from(j), x>> \in R
    BY <2>1, <1>4 DEF StrictSubsetOrdering
  <2>3. QED
    BY <2>1, <2>2, <1>3
<1>6. QED
  BY <1>5

\* What the operations leave of each field.
LEMMA AfterIsCatalog ==
  ASSUME NEW before \in Catalog, NEW ops \in Seq(Operation)
  PROVE  /\ After(before, ops) \in Catalog
         /\ \A f \in Field :
              /\ before[f] # Deleted /\ (\A o \in Elements(ops) : Setting[o] # Deleted)
              => After(before, ops)[f] # Deleted
<1> DEFINE K(f) == {k \in DOMAIN ops : Target[ops[k]] = f}
           last(f) == CHOOSE k \in K(f) : \A j \in K(f) : j <= k
<1>1. ASSUME NEW f \in Field, K(f) # {}
      PROVE  last(f) \in DOMAIN ops
  <2>1. Len(ops) \in Nat /\ K(f) \in SUBSET (1..Len(ops))
    OBVIOUS
  <2>2. \E k \in K(f) : \A j \in K(f) : j <= k
    BY <2>1, <1>1, LastPosition
  <2>3. QED
    BY <2>2
<1>2. ASSUME NEW f \in Field
      PROVE  /\ After(before, ops)[f] \in Policy \cup {Deleted}
             /\ before[f] # Deleted /\ (\A o \in Elements(ops) : Setting[o] # Deleted)
                => After(before, ops)[f] # Deleted
  <2>1. CASE K(f) = {}
    BY <2>1 DEF After, Catalog
  <2>2. CASE K(f) # {}
    <3>1. After(before, ops)[f] = Setting[ops[last(f)]]
      BY <2>2 DEF After
    <3>2. ops[last(f)] \in Operation /\ ops[last(f)] \in Elements(ops)
      <4>1. last(f) \in DOMAIN ops
        BY <1>1, <2>2
      <4> HIDE DEF last
      <4>2. QED
        BY <4>1 DEF Elements
    <3>3. QED
      BY <3>1, <3>2, OperationsAssumption
  <2>3. QED
    BY <2>1, <2>2
<1>3. After(before, ops) = [f \in Field |-> After(before, ops)[f]]
  BY DEF After
<1>4. QED
  BY <1>2, <1>3 DEF Catalog

\* Appending another operation and cutting a prefix keep operations apart, and lose none.
LEMMA NoOperations == <<>> \in DistinctOps /\ Elements(<<>>) = {}
BY DEF DistinctOps, Distinct, Elements

\* An operation that is not there yet can be appended.
LEMMA AppendIsDistinct ==
  ASSUME NEW ops \in DistinctOps, NEW o \in Operation, o \notin Elements(ops)
  PROVE  /\ Append(ops, o) \in DistinctOps
         /\ Len(Append(ops, o)) = Len(ops) + 1
         /\ Elements(Append(ops, o)) = Elements(ops) \cup {o}
<1> DEFINE app == Append(ops, o)
<1>1. /\ ops \in Seq(Operation) /\ Len(ops) \in Nat /\ DOMAIN ops = 1..Len(ops)
      /\ \A j, k \in 1..Len(ops) : ops[j] = ops[k] => j = k
      /\ \A j \in 1..Len(ops) : ops[j] # o
  BY DEF DistinctOps, Distinct, Elements
<1>2. /\ app \in Seq(Operation) /\ Len(app) = Len(ops) + 1
      /\ DOMAIN app = 1..(Len(ops) + 1)
      /\ app[Len(ops) + 1] = o
      /\ \A j \in 1..Len(ops) : app[j] = ops[j]
  BY <1>1
<1> HIDE DEF app
<1>3. \A j \in DOMAIN app : j \in 1..Len(ops) \/ j = Len(ops) + 1
  BY <1>1, <1>2
<1>4. Distinct(app)
  BY <1>1, <1>2, <1>3 DEF Distinct
<1>5. Elements(app) = Elements(ops) \cup {o}
  <2>1. ASSUME NEW x \in Elements(app) PROVE x \in Elements(ops) \cup {o}
    BY <2>1, <1>1, <1>2, <1>3 DEF Elements
  <2>2. ASSUME NEW x \in Elements(ops) \cup {o} PROVE x \in Elements(app)
    <3>1. CASE x = o
      <4>1. Len(ops) + 1 \in DOMAIN app
        BY <1>1, <1>2
      <4>2. QED
        BY <3>1, <4>1, <1>2 DEF Elements
    <3>2. CASE x \in Elements(ops)
      <4>1. PICK j \in 1..Len(ops) : x = ops[j]
        BY <3>2, <1>1 DEF Elements
      <4>2. j \in DOMAIN app /\ app[j] = x
        BY <4>1, <1>1, <1>2
      <4>3. QED
        BY <4>2 DEF Elements
    <3>3. QED
      BY <2>2, <3>1, <3>2
  <2>3. QED
    BY <2>1, <2>2
<1>6. QED
  BY <1>2, <1>4, <1>5 DEF DistinctOps, app

\* A sequence of operations is cut in two, which share none.
LEMMA CutIsDistinct ==
  ASSUME NEW ops \in DistinctOps, NEW v \in 1..Len(ops)
  PROVE  /\ SubSeq(ops, 1, v) \in DistinctOps /\ Len(SubSeq(ops, 1, v)) = v
         /\ SubSeq(ops, v + 1, Len(ops)) \in DistinctOps
         /\ Elements(ops) = Elements(SubSeq(ops, 1, v))
                            \cup Elements(SubSeq(ops, v + 1, Len(ops)))
<1> DEFINE first == SubSeq(ops, 1, v)
           rest == SubSeq(ops, v + 1, Len(ops))
<1>1. /\ ops \in Seq(Operation) /\ Len(ops) \in Nat /\ DOMAIN ops = 1..Len(ops)
      /\ \A j, k \in 1..Len(ops) : ops[j] = ops[k] => j = k
      /\ v \in Nat
  BY DEF DistinctOps, Distinct
<1>2. /\ first \in Seq(Operation) /\ Len(first) = v /\ DOMAIN first = 1..v
      /\ \A j \in 1..v : first[j] = ops[j]
  BY <1>1
<1>3. /\ rest \in Seq(Operation) /\ DOMAIN rest = 1..(Len(ops) - v)
      /\ \A j \in 1..(Len(ops) - v) : rest[j] = ops[v + j]
  BY <1>1
<1> HIDE DEF first, rest
<1>4. Distinct(first)
  BY <1>1, <1>2 DEF Distinct
<1>5. Distinct(rest)
  <2>1. \A j \in DOMAIN rest : v + j \in 1..Len(ops) /\ j \in Nat
    BY <1>1, <1>3
  <2>2. ASSUME NEW j \in DOMAIN rest, NEW k \in DOMAIN rest, rest[j] = rest[k]
        PROVE  j = k
    <3>1. ops[v + j] = ops[v + k]
      BY <2>2, <1>3
    <3>2. v + j = v + k
      BY <3>1, <2>1, <1>1
    <3>3. QED
      BY <3>2, <2>1, <1>1
  <2>3. QED
    BY <2>2 DEF Distinct
<1>6. ASSUME NEW x \in Elements(ops) PROVE x \in Elements(first) \cup Elements(rest)
  <2>1. PICK j \in 1..Len(ops) : x = ops[j]
    BY <1>6, <1>1 DEF Elements
  <2>2. CASE j <= v
    <3>1. j \in DOMAIN first /\ first[j] = x
      BY <2>1, <2>2, <1>1, <1>2
    <3>2. QED
      BY <3>1 DEF Elements
  <2>3. CASE ~(j <= v)
    <3>1. j - v \in DOMAIN rest /\ v + (j - v) = j
      BY <2>1, <2>3, <1>1, <1>3
    <3>2. rest[j - v] = x
      BY <3>1, <2>1, <1>3
    <3>3. QED
      BY <3>1, <3>2 DEF Elements
  <2>4. QED
    BY <2>2, <2>3
<1>7. ASSUME NEW x \in Elements(first) \cup Elements(rest) PROVE x \in Elements(ops)
  <2>1. CASE x \in Elements(first)
    BY <2>1, <1>1, <1>2 DEF Elements
  <2>2. CASE x \in Elements(rest)
    <3>1. PICK j \in DOMAIN rest : x = rest[j]
      BY <2>2 DEF Elements
    <3>2. v + j \in DOMAIN ops /\ ops[v + j] = x
      BY <3>1, <1>1, <1>3
    <3>3. QED
      BY <3>2 DEF Elements
  <2>3. QED
    BY <1>7, <2>1, <2>2
<1>8. QED
  BY <1>2, <1>3, <1>4, <1>5, <1>6, <1>7 DEF DistinctOps, first, rest

\* There are as many of them as the sequence is long.
LEMMA DistinctAreCounted ==
  ASSUME NEW ops \in DistinctOps
  PROVE  /\ Elements(ops) \subseteq Operation /\ Len(ops) \in Nat
         /\ Cardinality(Elements(ops)) = Len(ops)
         /\ Cardinality(Operation) \in Nat /\ Len(ops) <= Cardinality(Operation)
<1>1. /\ ops \in Seq(Operation) /\ Len(ops) \in Nat /\ DOMAIN ops = 1..Len(ops)
      /\ \A j, k \in 1..Len(ops) : ops[j] = ops[k] => j = k
  BY DEF DistinctOps, Distinct
<1>2. Elements(ops) \subseteq Operation
  BY <1>1 DEF Elements
<1>3. ops \in Bijection(1..Len(ops), Elements(ops))
  <2>1. ops \in [1..Len(ops) -> Elements(ops)]
    BY <1>1 DEF Elements
  <2>2. ops \in Injection(1..Len(ops), Elements(ops))
    BY <2>1, <1>1 DEF Injection, IsInjective
  <2>3. ops \in Surjection(1..Len(ops), Elements(ops))
    BY <2>1, <1>1 DEF Surjection, Elements
  <2>4. QED
    BY <2>2, <2>3 DEF Bijection
<1>4. Cardinality(Elements(ops)) = Len(ops)
  <2>1. ExistsBijection(1..Len(ops), Elements(ops))
    BY <1>3 DEF ExistsBijection
  <2>2. QED
    BY <2>1, <1>1, FS_CountingElements
<1>5. IsFiniteSet(Operation)
  BY OperationsAssumption
<1>6. QED
  BY <1>1, <1>2, <1>4, <1>5, FS_Subset, FS_CardinalityType
-----------------------------------------------------------------------------
(* Change sets                                                             *)

\* The row that is not there yet.
LEMMA NoRowIsRow == Row(NoRow) /\ None \notin State
<1>1. None \notin State
  BY DEF State, None
<1>2. Row(NoRow)
  BY NoOperations DEF Row, NoRow
<1>3. QED
  BY <1>1, <1>2

\* A new change set, and one with another operation.
LEMMA NewIsRow ==
  ASSUME catalog \in Catalog, NEW b \in Batch \cup Change
  PROVE  /\ Row(New(b)) /\ New(b).state = "pending" /\ New(b).batch = b
         /\ New(b).version = 0 /\ New(b).confirmed = 0 /\ New(b).base = catalog
         /\ New(b).ops = <<>> /\ New(b).successor = None
<1>1. Row(NoRow)
  BY NoRowIsRow
<1>2. QED
  BY <1>1 DEF Row, New, NoRow, State

\* A row to which an operation is appended counts it.
LEMMA AppendedIsRow ==
  ASSUME catalog \in Catalog, NEW row, Row(row), NEW o \in Operation, Stages(row, o)
  PROVE  /\ Row(Appended(row, o))
         /\ Appended(row, o).state = row.state /\ Appended(row, o).batch = row.batch
         /\ Appended(row, o).version = row.version + 1
         /\ Appended(row, o).confirmed = row.confirmed
         /\ Appended(row, o).base \in {row.base, catalog}
         /\ Appended(row, o).successor = row.successor
         /\ Len(Appended(row, o).ops) = Len(row.ops) + 1
         /\ Elements(Appended(row, o).ops) = Elements(row.ops) \cup {o}
<1>1. row.ops \in DistinctOps /\ row.version \in Nat
  BY DEF Row
<1>2. /\ Append(row.ops, o) \in DistinctOps
      /\ Len(Append(row.ops, o)) = Len(row.ops) + 1
      /\ Elements(Append(row.ops, o)) = Elements(row.ops) \cup {o}
  BY <1>1, AppendIsDistinct DEF Stages
<1> DEFINE app == Append(row.ops, o)
           diff == Preview(app)
           base == IF Len(app) = 1 THEN catalog ELSE row.base
<1>3. Appended(row, o) = [row EXCEPT !.ops = app, !.version = @ + 1, !.diff = diff,
                                     !.base = base]
  BY DEF Appended
<1>4. base \in {row.base, catalog}
  OBVIOUS
<1> HIDE DEF app, diff, base
<1>5. row.version + 1 \in Nat /\ app \in DistinctOps
  BY <1>1, <1>2 DEF app
<1>6. base \in Catalog \cup {Unread}
  BY <1>4 DEF Row
<1>7. /\ Appended(row, o).state = row.state /\ Appended(row, o).batch = row.batch
      /\ Appended(row, o).version = row.version + 1
      /\ Appended(row, o).confirmed = row.confirmed
      /\ Appended(row, o).base = base
      /\ Appended(row, o).successor = row.successor
      /\ Appended(row, o).ops = app
      /\ Appended(row, o).diff = diff
  BY <1>3 DEF Row
<1>8. Row(Appended(row, o))
  BY <1>3, <1>5, <1>6, <1>7 DEF Row
<1>9. QED
  BY <1>2, <1>4, <1>7, <1>8 DEF app

\* A submission appends one operation to one change set at most, and is accepted.
Appends(o) ==
  \/ \E b \in Batch : SubmitToBatch(b, o)
  \/ \E c \in Change :
       \/ \E b \in Batch \cup {c} : SubmitNew(c, b, o)
       \/ SubmitToPending(c, o) \/ SubmitToSuccessor(c, o)

Same(c) ==
  /\ change'[c].state = change[c].state /\ change'[c].batch = change[c].batch
  /\ change'[c].successor = change[c].successor
  /\ change'[c].confirmed = change[c].confirmed

\* A submission adds its operation to one open change set, or opens one with it.
LEMMA SubmitAppends ==
  ASSUME DataOK, RowsCount, SuccessorExists, NEW o \in Operation, Appends(o)
  PROVE  /\ handler = Idle /\ accepted' = accepted \cup {o}
         /\ UNCHANGED <<catalog, remembered, handler, task, review, bounds, confirmation, writes>>
         /\ RowsCount'
         /\ \A c \in Change :
              /\ \/ Same(c)
                 \/ ~Exists(c) /\ change'[c].state = "pending" /\ change'[c].successor = None
              /\ Elements(change[c].ops) \subseteq Elements(change'[c].ops)
              /\ Elements(change'[c].ops) \subseteq Elements(change[c].ops) \cup {o}
         /\ \E c \in Change : o \in Elements(change'[c].ops)
<1>1. PICK c \in Change :
        \/ handler = Idle /\ Exists(c) /\ Stage(c, o)
        \/ /\ handler = Idle /\ ~Exists(c)
           /\ \E b \in Batch \cup Change : Stages(New(b), o)
                /\ change' = [change EXCEPT ![c] = Appended(New(b), o)]
           /\ accepted' = accepted \cup {o}
           /\ UNCHANGED <<catalog, remembered, handler, task, review, bounds,
                          confirmation, writes>>
  <2>1. CASE \E b \in Batch : SubmitToBatch(b, o)
    BY <2>1 DEF SubmitToBatch, PendingIn, Pending, Exists, None
  <2>2. CASE \E c \in Change : \E b \in Batch \cup {c} : SubmitNew(c, b, o)
    BY <2>2 DEF SubmitNew, Unused
  <2>3. CASE \E c \in Change : SubmitToPending(c, o)
    BY <2>3 DEF SubmitToPending, Pending, Exists, None
  <2>4. CASE \E c \in Change : SubmitToSuccessor(c, o)
    <3>1. PICK c \in Change : SubmitToSuccessor(c, o)
      BY <2>4
    <3>2. change[c].successor \in Change
      BY <3>1 DEF SubmitToSuccessor, RowsCount, Row
    <3>3. Exists(change[c].successor)
      BY <3>1 DEF SubmitToSuccessor, SuccessorExists
    <3>4. QED
      BY <3>1, <3>2, <3>3 DEF SubmitToSuccessor
  <2>5. QED
    BY <2>1, <2>2, <2>3, <2>4 DEF Appends
<1>2. catalog \in Catalog /\ DOMAIN change = Change /\ \A d \in Change : Row(change[d])
  BY DEF DataOK, RowsCount
<1>3. CASE change' = change /\ Exists(c) /\ Stage(c, o)
  <2>1. o \in Elements(change[c].ops)
    <3>1. SUFFICES ASSUME Stages(change[c], o),
                          change' = [change EXCEPT ![c] = Appended(@, o)]
                   PROVE  FALSE
      BY <1>3 DEF Stage
    <3>2. change'[c] = Appended(change[c], o)
      BY <3>1, <1>2
    <3>3. Appended(change[c], o).version = change[c].version + 1
      BY <3>1, <1>2, AppendedIsRow
    <3>4. QED
      BY <3>2, <3>3, <1>2, <1>3 DEF Row
  <2>2. RowsCount'
    BY <1>3 DEF RowsCount, Exists, Pending
  <2>3. QED
    BY <2>1, <2>2, <1>1, <1>3 DEF Stage, Same, Exists
<1>4. ASSUME NEW row, Row(row), Stages(row, o), change' = [change EXCEPT ![c] = Appended(row, o)],
             row.batch # None, row.base \in Catalog, row.version = Len(row.ops),
             row.confirmed <= row.version, row.state # None,
             row.state = "pending" => row.successor = None,
             \/ row = change[c] /\ Exists(c)
             \/ /\ ~Exists(c) /\ row.state = "pending" /\ row.successor = None
                /\ row.ops = <<>>
      PROVE  /\ RowsCount'
             /\ \A d \in Change :
                  /\ \/ Same(d)
                     \/ ~Exists(d) /\ change'[d].state = "pending"
                        /\ change'[d].successor = None
                  /\ Elements(change[d].ops) \subseteq Elements(change'[d].ops)
                  /\ Elements(change'[d].ops) \subseteq Elements(change[d].ops) \cup {o}
             /\ o \in Elements(change'[c].ops)
  <2> DEFINE app == Appended(row, o)
  <2>1. /\ Row(app)
        /\ app.state = row.state /\ app.batch = row.batch
        /\ app.version = row.version + 1 /\ app.confirmed = row.confirmed
        /\ app.base \in {row.base, catalog} /\ app.successor = row.successor
        /\ Len(app.ops) = Len(row.ops) + 1
        /\ Elements(app.ops) = Elements(row.ops) \cup {o}
    BY <1>4, <1>2, AppendedIsRow
  <2>2. change' = [change EXCEPT ![c] = app]
    BY <1>4
  <2> HIDE DEF app
  <2>3. /\ DOMAIN change' = Change /\ change'[c] = app
        /\ \A d \in Change \ {c} : change'[d] = change[d]
    BY <2>2, <1>2
  <2>4. row.version \in Nat /\ row.confirmed \in Nat
    BY <1>4 DEF Row
  <2>5. RowsCount'
    <3>1. ASSUME NEW d \in Change \ {c}
          PROVE  /\ Row(change'[d]) /\ (change'[d].state = None => change'[d] = NoRow)
                 /\ change'[d].state # None =>
                      /\ change'[d].batch # None /\ change'[d].base \in Catalog
                      /\ change'[d].version = Len(change'[d].ops) /\ change'[d].version # 0
                      /\ change'[d].confirmed <= change'[d].version
                      /\ change'[d].state = "pending" => change'[d].successor = None
      BY <2>3 DEF RowsCount, Exists, Pending
    <3>2. /\ Row(app) /\ app.state # None
          /\ app.batch # None /\ app.base \in Catalog
          /\ app.version = Len(app.ops) /\ app.version # 0
          /\ app.confirmed <= app.version
          /\ app.state = "pending" => app.successor = None
      BY <2>1, <2>4, <1>4, <1>2
    <3>3. QED
      BY <3>1, <3>2, <2>3 DEF RowsCount, Exists, Pending
  <2>6. \A d \in Change \ {c} : Same(d)
    BY <2>3 DEF Same
  <2>7. \/ Same(c) /\ row = change[c]
        \/ ~Exists(c) /\ change'[c].state = "pending" /\ change'[c].successor = None
           /\ Elements(row.ops) = {}
    BY <2>1, <2>3, <1>4, NoOperations DEF Same
  <2>8. Elements(change[c].ops) = Elements(row.ops)
    BY <2>7, <1>4, NoOperations DEF RowsCount, NoRow
  <2>9. QED
    BY <2>1, <2>3, <2>5, <2>6, <2>7, <2>8
<1>5. CASE Exists(c) /\ Stage(c, o) /\ change' # change
  <2>1. Stages(change[c], o) /\ change' = [change EXCEPT ![c] = Appended(change[c], o)]
    BY <1>5, <1>2 DEF Stage
  <2>2. QED
    BY <2>1, <1>1, <1>2, <1>4, <1>5 DEF Stage, RowsCount, Exists, Pending
<1>6. CASE ~Exists(c)
  <2>1. PICK b \in Batch \cup Change :
          Stages(New(b), o) /\ change' = [change EXCEPT ![c] = Appended(New(b), o)]
    BY <1>1, <1>6
  <2>2. b # None
    BY OperationsAssumption
  <2>3. /\ Row(New(b)) /\ New(b).state = "pending" /\ New(b).batch # None
        /\ New(b).base \in Catalog /\ New(b).version = 0 /\ New(b).confirmed = 0
        /\ New(b).ops = <<>> /\ Len(New(b).ops) = 0 /\ New(b).successor = None
        /\ New(b).state # None
    BY <2>2, <1>2, NewIsRow DEF None
  <2>4. /\ New(b).version = Len(New(b).ops) /\ New(b).confirmed <= New(b).version
        /\ ~Exists(c)
    BY <2>3, <1>6
  <2> DEFINE row == New(b)
  <2>5. /\ Row(row) /\ Stages(row, o) /\ change' = [change EXCEPT ![c] = Appended(row, o)]
        /\ row.batch # None /\ row.base \in Catalog /\ row.version = Len(row.ops)
        /\ row.confirmed <= row.version /\ row.state # None /\ row.state = "pending"
        /\ row.successor = None /\ row.ops = <<>>
    BY <2>1, <2>3, <2>4
  <2> HIDE DEF row
  <2>6. /\ RowsCount'
        /\ \A d \in Change :
             /\ \/ Same(d)
                \/ ~Exists(d) /\ change'[d].state = "pending"
                   /\ change'[d].successor = None
             /\ Elements(change[d].ops) \subseteq Elements(change'[d].ops)
             /\ Elements(change'[d].ops) \subseteq Elements(change[d].ops) \cup {o}
        /\ o \in Elements(change'[c].ops)
    BY <2>4, <2>5, <1>4
  <2>7. QED
    BY <2>6, <1>1, <1>6
<1>7. QED
  BY <1>1, <1>3, <1>5, <1>6

\* Replacing one row by a sound one keeps all rows sound.
Sound(row) ==
  /\ Row(row) /\ row.state # None /\ row.batch # None /\ row.base \in Catalog
  /\ row.version = Len(row.ops) /\ row.version # 0 /\ row.confirmed <= row.version
  /\ row.state = "pending" => row.successor = None

\* The rows that count their operations are sound one by one ...
LEMMA RowsAreSound ==
  ASSUME RowsCount, NEW c \in Change, Exists(c) PROVE Sound(change[c])
BY DEF RowsCount, Sound, Exists, Pending

\* ... and stay so when one of them is replaced by a sound one.
LEMMA PutIsSound ==
  ASSUME RowsCount, NEW c \in Change, NEW row, Sound(row), change' = [change EXCEPT ![c] = row]
  PROVE  /\ RowsCount' /\ change'[c] = row
         /\ \A d \in Change \ {c} : change'[d] = change[d]
<1>1. /\ DOMAIN change' = Change /\ change'[c] = row
      /\ \A d \in Change \ {c} : change'[d] = change[d]
  BY DEF RowsCount
<1>2. QED
  BY <1>1 DEF RowsCount, Sound, Exists, Pending

\* The successor of a change set that is closed: a row with one operation.
LEMMA CreatesSuccessor ==
  ASSUME DataOK, RowsCount, NEW c \in Change, NEW s \in Change, NEW o \in Operation,
         SubmitCreatesSuccessor(c, s, o)
  PROVE  /\ RowsCount' /\ ~Exists(s) /\ s # c
         /\ \A d \in Change \ {s} : change'[d] = change[d]
         /\ change'[s].state = "pending" /\ change'[s].successor = None
         /\ change'[s].batch = change[c].batch /\ Elements(change'[s].ops) = {o}
<1> DEFINE new == New(change[c].batch)
           row == Appended(new, o)
<1>1. change[c].batch \in Batch \cup Change /\ catalog \in Catalog
  BY DEF SubmitCreatesSuccessor, RowsCount, Row, DataOK, Exists
<1>2. /\ Row(new) /\ new.state = "pending" /\ new.batch = change[c].batch
      /\ new.version = 0 /\ new.confirmed = 0 /\ new.base = catalog
      /\ new.ops = <<>> /\ new.successor = None
  BY <1>1, NewIsRow
<1>3. Stages(new, o) /\ change' = [change EXCEPT ![s] = row]
  BY DEF SubmitCreatesSuccessor
<1> HIDE DEF new
<1>4. Len(new.ops) = 0 /\ Elements(new.ops) = {}
  BY <1>2, NoOperations
<1>5. /\ Row(row) /\ row.state = "pending" /\ row.batch = change[c].batch
      /\ row.version = 1 /\ row.confirmed = 0 /\ row.base \in Catalog
      /\ row.successor = None /\ Len(row.ops) = 1 /\ Elements(row.ops) = {o}
  <2>1. /\ Row(row) /\ row.state = new.state /\ row.batch = new.batch
        /\ row.version = new.version + 1 /\ row.confirmed = new.confirmed
        /\ row.base \in {new.base, catalog} /\ row.successor = new.successor
        /\ Len(row.ops) = Len(new.ops) + 1
        /\ Elements(row.ops) = Elements(new.ops) \cup {o}
    BY <1>1, <1>2, <1>3, AppendedIsRow
  <2> HIDE DEF row
  <2>2. QED
    BY <2>1, <1>1, <1>2, <1>4
<1> HIDE DEF row
<1>6. Sound(row)
  <2>1. change[c].batch # None
    BY <1>1, OperationsAssumption
  <2>2. QED
    BY <1>5, <2>1 DEF Sound, None
<1>7. ~Exists(s) /\ Exists(c)
  BY DEF SubmitCreatesSuccessor, Unused
<1>8. QED
  BY <1>3, <1>5, <1>6, <1>7, PutIsSound

\* The parent is linked to it.
LEMMA LinksParent ==
  ASSUME RowsCount, HandlerHolds, LinkParent
  PROVE  /\ RowsCount' /\ handler.parent \in Change
         /\ \A d \in Change \ {handler.parent} : change'[d] = change[d]
         /\ change' = [change EXCEPT ![handler.parent] =
                         [change[handler.parent] EXCEPT !.successor = handler.change]]
         /\ change'[handler.parent].successor = handler.change
         /\ change'[handler.parent].state = change[handler.parent].state
         /\ change'[handler.parent].batch = change[handler.parent].batch
         /\ change'[handler.parent].ops = change[handler.parent].ops
<1> DEFINE p == handler.parent
           row == [change[p] EXCEPT !.successor = handler.change]
<1>1. /\ p \in Change /\ handler.change \in Change /\ Exists(p) /\ ~Pending(p)
  BY DEF HandlerHolds, LinkParent
<1>2. change' = [change EXCEPT ![p] = row]
  BY DEF LinkParent
<1>3. Sound(change[p]) /\ change[p].state # "pending"
  BY <1>1, RowsAreSound DEF Pending
<1>4. /\ Sound(row) /\ row.successor = handler.change /\ row.state = change[p].state
      /\ row.batch = change[p].batch /\ row.ops = change[p].ops
  BY <1>1, <1>3 DEF Sound, Row
<1> HIDE DEF row
<1>5. /\ RowsCount' /\ change'[p] = row /\ \A d \in Change \ {p} : change'[d] = change[d]
  BY <1>1, <1>2, <1>4, PutIsSound
<1>6. QED
  BY <1>1, <1>2, <1>4, <1>5 DEF row

\* A confirmation cuts the row, and the handler keeps what it cut off.
LEMMA ConfirmCuts ==
  ASSUME RowsCount, NEW c \in Change, NEW v \in Nat, Confirm(c, v)
  PROVE  /\ RowsCount'
         /\ \A d \in Change \ {c} : change'[d] = change[d]
         /\ change'[c].state = "committing" /\ change'[c].successor = change[c].successor
         /\ change[c].successor = None /\ change'[c].batch = change[c].batch
         /\ change'[c].ops = SubSeq(change[c].ops, 1, v) /\ change'[c].ops \in DistinctOps
         /\ handler'.rest \in DistinctOps
         /\ Elements(change[c].ops) = Elements(change'[c].ops) \cup Elements(handler'.rest)
<1> DEFINE ops == change[c].ops
           cut == SubSeq(ops, 1, v)
           diff == Preview(cut)
           row == [change[c] EXCEPT !.state = "committing", !.ops = cut, !.version = v,
                                    !.confirmed = v, !.diff = diff]
<1>1. Exists(c) /\ Pending(c) /\ v \in 1..change[c].version
  BY DEF Confirm, Pending, Exists, None
<1>2. Sound(change[c]) /\ change[c].successor = None
  BY <1>1, RowsAreSound DEF Sound, Pending
<1>3. ops \in DistinctOps /\ v \in 1..Len(ops)
  BY <1>1, <1>2 DEF Sound, Row
<1>4. /\ cut \in DistinctOps /\ Len(cut) = v
      /\ SubSeq(ops, v + 1, Len(ops)) \in DistinctOps
      /\ Elements(ops) = Elements(cut) \cup Elements(SubSeq(ops, v + 1, Len(ops)))
  BY <1>3, CutIsDistinct
<1>5. change' = [change EXCEPT ![c] = row]
  <2>1. change' = [change EXCEPT ![c] = Confirmed(change[c], v)]
    BY DEF Confirm, Begin
  <2>2. QED
    BY <2>1 DEF Confirmed
<1>6. handler'.rest = SubSeq(ops, v + 1, Len(ops))
  BY DEF Confirm, Begin, Idle
<1> HIDE DEF cut, diff
<1>7. /\ Sound(row) /\ row.state = "committing" /\ row.successor = change[c].successor
      /\ row.batch = change[c].batch /\ row.ops = cut
  <2>1. Row(change[c]) /\ v \in Nat /\ v # 0
    BY <1>2, <1>3 DEF Sound
  <2>2. /\ Row(row) /\ row.state = "committing" /\ row.ops = cut /\ row.version = v
        /\ row.confirmed = v /\ row.successor = change[c].successor
        /\ row.batch = change[c].batch /\ row.base = change[c].base
    BY <2>1, <1>4 DEF Row, State
  <2> HIDE DEF row
  <2>3. QED
    BY <2>1, <2>2, <1>2, <1>4 DEF Sound, None
<1> HIDE DEF row
<1>8. /\ RowsCount' /\ change'[c] = row /\ \A d \in Change \ {c} : change'[d] = change[d]
  BY <1>5, <1>7, PutIsSound
<1>9. QED
  BY <1>2, <1>4, <1>6, <1>7, <1>8 DEF cut

\* The rest is saved in a row of its own.
LEMMA RestIsSaved ==
  ASSUME DataOK, RowsCount, HandlerHolds, NEW s \in Change, CreateSuccessor(s)
  PROVE  /\ RowsCount' /\ ~Exists(s) /\ handler.change \in Change /\ s # handler.change
         /\ \A d \in Change \ {s} : change'[d] = change[d]
         /\ change'[s].state = "pending" /\ change'[s].successor = None
         /\ change'[s].batch = change[handler.change].batch
         /\ change'[s].ops = handler.rest
<1> DEFINE new == New(change[handler.change].batch)
           rest == handler.rest
           diff == Preview(rest)
           row == [new EXCEPT !.ops = rest, !.version = Len(rest), !.diff = diff]
<1>1. /\ handler.change \in Change /\ change[handler.change].state = "committing"
      /\ rest \in DistinctOps /\ rest # <<>>
  BY DEF CreateSuccessor, HandlerHolds, Confirming
<1>2. Exists(handler.change) /\ ~Exists(s)
  BY <1>1 DEF Exists, None, CreateSuccessor, Unused
<1>3. change[handler.change].batch \in Batch \cup Change /\ catalog \in Catalog
  BY <1>1, <1>2 DEF RowsCount, Row, DataOK
<1>4. /\ Row(new) /\ new.state = "pending" /\ new.batch = change[handler.change].batch
      /\ new.version = 0 /\ new.confirmed = 0 /\ new.base = catalog
      /\ new.ops = <<>> /\ new.successor = None
  BY <1>3, NewIsRow
<1>5. change' = [change EXCEPT ![s] = row]
  BY DEF CreateSuccessor
<1>6. Len(rest) \in Nat /\ Len(rest) # 0
  BY <1>1 DEF DistinctOps
<1>7. change[handler.change].batch # None
  BY <1>3, OperationsAssumption
<1> HIDE DEF new, diff
<1>8. /\ Sound(row) /\ row.state = "pending" /\ row.batch = change[handler.change].batch
      /\ row.successor = None /\ row.ops = rest
  <2>1. /\ Row(row) /\ row.state = "pending" /\ row.ops = rest /\ row.version = Len(rest)
        /\ row.confirmed = 0 /\ row.successor = None
        /\ row.batch = change[handler.change].batch /\ row.base = catalog
    BY <1>1, <1>4, <1>6 DEF Row
  <2> HIDE DEF row
  <2>2. QED
    BY <2>1, <1>3, <1>6, <1>7 DEF Sound, None
<1> HIDE DEF row
<1>9. /\ RowsCount' /\ change'[s] = row /\ \A d \in Change \ {s} : change'[d] = change[d]
  BY <1>5, <1>8, PutIsSound
<1>10. QED
  BY <1>1, <1>2, <1>8, <1>9

\* The confirmed row gets its outcome and its successor.
LEMMA FinishSaves ==
  ASSUME RowsCount, HandlerHolds, Finish
  PROVE  /\ RowsCount' /\ handler.change \in Change /\ handler.outcome \in Outcomes
         /\ handler.pc \in Confirming /\ handler.rest = <<>>
         /\ \A d \in Change \ {handler.change} : change'[d] = change[d]
         /\ change'[handler.change].state = handler.outcome
         /\ change'[handler.change].ops = change[handler.change].ops
         /\ change'[handler.change].batch = change[handler.change].batch
         /\ change[handler.change].successor = None
         /\ change'[handler.change].successor = handler.successor
<1> DEFINE c == handler.change
           row == [change[c] EXCEPT !.state = handler.outcome, !.successor = handler.successor]
<1>1. /\ c \in Change /\ change[c].state = "committing" /\ change[c].successor = None
      /\ handler.outcome \in Outcomes /\ handler.successor \in Change \cup {None}
      /\ handler.pc \in Confirming /\ handler.rest = <<>>
  BY DEF Finish, LastSave, HandlerHolds, Confirming
<1>2. Exists(c)
  BY <1>1 DEF Exists, None
<1>3. Sound(change[c])
  BY <1>1, <1>2, RowsAreSound
<1>4. change' = [change EXCEPT ![c] = row]
  <2>1. change' = [change EXCEPT ![c] = Finished(change[c])]
    BY DEF Finish
  <2>2. Finished(change[c]) = row
    BY <1>1 DEF Finished
  <2>3. QED
    BY <2>1, <2>2
<1>5. /\ Sound(row) /\ row.state = handler.outcome /\ row.successor = handler.successor
      /\ row.ops = change[c].ops /\ row.batch = change[c].batch
  BY <1>1, <1>3 DEF Sound, Row, Outcomes, State, None
<1> HIDE DEF row
<1>6. /\ RowsCount' /\ change'[c] = row /\ \A d \in Change \ {c} : change'[d] = change[d]
  BY <1>1, <1>4, <1>5, PutIsSound
<1>7. QED
  BY <1>1, <1>5, <1>6

\* A rejection closes its change set and leaves the operations.
LEMMA RejectCloses ==
  ASSUME RowsCount, NEW c \in Change, Reject(c)
  PROVE  /\ RowsCount' /\ Pending(c)
         /\ \A d \in Change \ {c} : change'[d] = change[d]
         /\ change'[c].state = "rejected"
         /\ change'[c].ops = change[c].ops /\ change'[c].batch = change[c].batch
         /\ change'[c].successor = change[c].successor
<1> DEFINE row == [change[c] EXCEPT !.state = "rejected"]
<1>1. Pending(c) /\ Exists(c) /\ change' = [change EXCEPT ![c] = row]
  BY DEF Reject, Pending, Exists, None
<1>2. Sound(change[c])
  BY <1>1, RowsAreSound
<1>3. /\ Sound(row) /\ row.state = "rejected" /\ row.successor = change[c].successor
      /\ row.ops = change[c].ops /\ row.batch = change[c].batch
  BY <1>2 DEF Sound, Row, State, None
<1> HIDE DEF row
<1>4. QED
  BY <1>1, <1>3, PutIsSound
-----------------------------------------------------------------------------
(* The invariant of the change sets                                        *)

\* No change set is there at first.
LEMMA ChangesInit == Init => IInv
<1> SUFFICES ASSUME Init PROVE IInv
  OBVIOUS
<1>1. DataOK
  BY BoundsAssumption, NoOperations DEF Init, DataOK, Catalog
<1>2. RowsCount /\ SuccessorExists
  BY NoRowIsRow DEF Init, RowsCount, SuccessorExists, Exists, Pending, NoRow
<1>3. HandlerHolds
  BY NoOperations DEF Init, HandlerHolds, Idle, Confirming
<1>4. CommitsOnce
  BY NoOperations DEF Init, CommitsOnce, CommitOf, NoTask, Idle, Confirming, Outcomes, NoRow, None
<1>5. Superseded /\ OneWriter
  BY DEF Init, Superseded, OneWriter, NoTask
<1>6. OnlyAccepted
  <2>1. \A f \in Field : catalog[f] # Deleted
    BY OperationsAssumption DEF Init
  <2>2. QED
    BY <2>1, NoOperations
       DEF Init, OnlyAccepted, AcceptedOperationsSurvive, NoTask, NoRow, Idle
<1>7. QED
  BY <1>1, <1>2, <1>3, <1>4, <1>5, <1>6 DEF IInv

\* The steps that leave the change sets as they are.
Elsewhere ==
  \/ ForgetAndSpawn \/ TakeResult \/ ListCatalog \/ Prune \/ SuccessorFails
  \/ TaskStep \/ HandlerDropped \/ Restart \/ Environment

\* What a step is about: a submission, a decision, a successor, or the rest.
LEMMA ChangesSteps ==
  ASSUME Next
  PROVE  \/ \E o \in Operation :
              \/ Appends(o)
              \/ \E c, s \in Change : SubmitCreatesSuccessor(c, s, o)
         \/ LinkParent
         \/ \E c \in Change : Reject(c) \/ \E v \in Nat : Confirm(c, v)
         \/ \E s \in Change : CreateSuccessor(s)
         \/ Finish
         \/ Elsewhere
<1>1. CASE \E o \in Operation : Submit(o)
  BY <1>1 DEF Submit, Appends
<1>2. CASE Decide
  <2>1. \A v \in 1..Cardinality(Operation) : v \in Nat
    OBVIOUS
  <2>2. QED
    BY <1>2, <2>1 DEF Decide
<1>3. CASE HandlerStep
  BY <1>3 DEF HandlerStep, Elsewhere
<1>4. CASE TaskStep \/ HandlerDropped \/ Restart \/ Environment
  BY <1>4 DEF Elsewhere
<1>5. QED
  BY <1>1, <1>2, <1>3, <1>4 DEF Next

\* The rest leaves the change sets as they are.
LEMMA ElsewhereChanges == Elsewhere => UNCHANGED <<change, accepted, confirmation>>
BY DEF Elsewhere, ForgetAndSpawn, TakeResult, ListCatalog, Prune, SuccessorFails, TaskStep,
       TaskLoad, TaskSave, HandlerDropped, Restart, Environment, OpenReview, EditFile,
       ApproveAndRemember, tables, history

\* Rows stay sound, and their links lead on.
LEMMA RowsKept == IInv /\ Next => RowsCount' /\ SuccessorExists'
<1> SUFFICES ASSUME IInv, Next PROVE RowsCount' /\ SuccessorExists'
  OBVIOUS
<1>1. DataOK /\ RowsCount /\ SuccessorExists /\ HandlerHolds
  BY DEF IInv
<1>2. None \notin Change /\ \A c \in Change : change[c].successor \in Change \cup {None}
  BY <1>1, OperationsAssumption DEF RowsCount, Row
<1>3. ASSUME NEW o \in Operation, Appends(o) PROVE RowsCount' /\ SuccessorExists'
  <2>1. RowsCount' /\ \A c \in Change :
          \/ Same(c)
          \/ ~Exists(c) /\ change'[c].state = "pending" /\ change'[c].successor = None
    BY <1>1, <1>3, SubmitAppends
  <2>2. QED
    BY <2>1, <1>1, <1>2 DEF SuccessorExists, Same, Exists, None
<1>4. ASSUME NEW o \in Operation, NEW c \in Change, NEW s \in Change,
             SubmitCreatesSuccessor(c, s, o)
      PROVE  RowsCount' /\ SuccessorExists'
  <2>1. /\ RowsCount' /\ ~Exists(s)
        /\ \A d \in Change \ {s} : change'[d] = change[d]
        /\ change'[s].state = "pending" /\ change'[s].successor = None
    BY <1>1, <1>4, CreatesSuccessor
  <2>2. QED
    BY <2>1, <1>1, <1>2 DEF SuccessorExists, Exists
<1>5. CASE LinkParent
  <2>1. /\ RowsCount' /\ handler.parent \in Change
        /\ \A d \in Change \ {handler.parent} : change'[d] = change[d]
        /\ change'[handler.parent].successor = handler.change
        /\ change'[handler.parent].state = change[handler.parent].state
        /\ change'[handler.parent].batch = change[handler.parent].batch
    BY <1>1, <1>5, LinksParent
  <2>2. handler.change \in Change /\ Unlinked(handler.change, handler.parent)
    BY <1>1, <1>5 DEF HandlerHolds, LinkParent
  <2>3. QED
    BY <2>1, <2>2, <1>1, <1>2 DEF SuccessorExists, Exists, Unlinked
<1>6. ASSUME NEW c \in Change, Reject(c) PROVE RowsCount' /\ SuccessorExists'
  <2>1. /\ RowsCount' /\ \A d \in Change \ {c} : change'[d] = change[d]
        /\ change'[c].state = "rejected" /\ change'[c].batch = change[c].batch
        /\ change'[c].successor = change[c].successor
    BY <1>1, <1>6, RejectCloses
  <2>2. QED
    BY <2>1, <1>1, <1>2 DEF SuccessorExists, Exists, None
<1>7. ASSUME NEW c \in Change, NEW v \in Nat, Confirm(c, v)
      PROVE  RowsCount' /\ SuccessorExists'
  <2>1. /\ RowsCount' /\ \A d \in Change \ {c} : change'[d] = change[d]
        /\ change'[c].state = "committing" /\ change'[c].batch = change[c].batch
        /\ change'[c].successor = change[c].successor
    BY <1>1, <1>7, ConfirmCuts
  <2>2. QED
    BY <2>1, <1>1, <1>2 DEF SuccessorExists, Exists, None
<1>8. ASSUME NEW s \in Change, CreateSuccessor(s) PROVE RowsCount' /\ SuccessorExists'
  <2>1. /\ RowsCount' /\ ~Exists(s)
        /\ \A d \in Change \ {s} : change'[d] = change[d]
        /\ change'[s].state = "pending" /\ change'[s].successor = None
    BY <1>1, <1>8, RestIsSaved
  <2>2. QED
    BY <2>1, <1>1, <1>2 DEF SuccessorExists, Exists
<1>9. CASE Finish
  <2>1. /\ RowsCount' /\ handler.change \in Change /\ handler.outcome \in Outcomes
        /\ handler.pc \in Confirming
        /\ \A d \in Change \ {handler.change} : change'[d] = change[d]
        /\ change'[handler.change].state = handler.outcome
        /\ change'[handler.change].batch = change[handler.change].batch
        /\ change[handler.change].successor = None
        /\ change'[handler.change].successor = handler.successor
    BY <1>1, <1>9, FinishSaves
  <2>2. \/ handler.successor = None
        \/ handler.successor \in Change /\ Unlinked(handler.successor, handler.change)
    BY <2>1, <1>1 DEF HandlerHolds
  <2>3. change'[handler.change].state # None
    BY <2>1 DEF Outcomes, None
  <2>4. QED
    BY <2>1, <2>2, <2>3, <1>1, <1>2 DEF SuccessorExists, Exists, Unlinked
<1>10. CASE Elsewhere
  <2>1. change' = change
    BY <1>10, ElsewhereChanges
  <2>2. QED
    BY <2>1, <1>1 DEF RowsCount, SuccessorExists, Exists, Pending
<1>11. QED
  BY <1>3, <1>4, <1>5, <1>6, <1>7, <1>8, <1>9, <1>10, ChangesSteps

\* The catalog, the remembered approvals and the counters.
LEMMA DataKept == IInv /\ Next => DataOK'
<1> SUFFICES ASSUME IInv, Next PROVE DataOK'
  OBVIOUS
<1>1. DataOK /\ RowsCount /\ SuccessorExists /\ HandlerHolds /\ CommitsOnce
  BY DEF IInv
<1> DEFINE Remembered(r, n) ==
      r = NotRemembered \/ r \in [fingerprint : Policy, policy : Policy, approval : 1..n]
<1>2. CASE UNCHANGED <<catalog, remembered, review, approvals, confirmation, writes>>
           /\ edits' \in Nat /\ faults' \in Nat /\ accepted' \subseteq Operation
  BY <1>1, <1>2 DEF DataOK
<1>3. ASSUME NEW o \in Operation, Appends(o) PROVE DataOK'
  BY <1>1, <1>3, <1>2, SubmitAppends DEF DataOK, bounds
<1>4. ASSUME NEW o \in Operation, NEW c \in Change, NEW s \in Change,
             SubmitCreatesSuccessor(c, s, o)
      PROVE  DataOK'
  BY <1>1, <1>2, <1>4 DEF SubmitCreatesSuccessor, bounds, history, DataOK
<1>5. CASE LinkParent
  BY <1>1, <1>2, <1>5 DEF LinkParent, bounds, DataOK, HandlerHolds
<1>6. ASSUME NEW c \in Change, Reject(c) PROVE DataOK'
  BY <1>1, <1>2, <1>6 DEF Reject, bounds, history, DataOK
<1>7. ASSUME NEW c \in Change, NEW v \in Nat, Confirm(c, v) PROVE DataOK'
  <2>1. SubSeq(change[c].ops, 1, v) \in Seq(Operation)
    <3>1. change'[c].ops = SubSeq(change[c].ops, 1, v) /\ change'[c].ops \in DistinctOps
      BY <1>1, <1>7, ConfirmCuts
    <3>2. QED
      BY <3>1 DEF DistinctOps
  <2>2. approvals \in 0..approvals
    BY <1>1 DEF DataOK
  <2>3. /\ confirmation' = [confirmation EXCEPT
             ![c] = [ops |-> SubSeq(change[c].ops, 1, v), after |-> approvals]]
        /\ UNCHANGED <<catalog, remembered, review, bounds, accepted, writes>>
    BY <1>7 DEF Confirm, Begin
  <2>4. QED
    BY <2>1, <2>2, <2>3, <1>1 DEF DataOK, bounds
<1>8. ASSUME NEW s \in Change, CreateSuccessor(s) PROVE DataOK'
  BY <1>1, <1>2, <1>8 DEF CreateSuccessor, bounds, history, DataOK
<1>9. CASE Finish
  BY <1>1, <1>2, <1>9 DEF Finish, bounds, history, DataOK
<1>10. CASE TakeResult \/ ListCatalog \/ SuccessorFails
  BY <1>1, <1>2, <1>10
     DEF TakeResult, ListCatalog, SuccessorFails, tables, bounds, history, DataOK
<1>11. CASE ForgetAndSpawn \/ Prune
  <2>1. /\ UNCHANGED <<catalog, review, bounds, history>>
        /\ DOMAIN remembered' = Field
        /\ \A f \in Field : remembered'[f] \in {remembered[f], NotRemembered}
    BY <1>11 DEF ForgetAndSpawn, Prune
  <2>2. QED
    BY <2>1, <1>1 DEF DataOK, bounds, history
<1>12. ASSUME NEW c \in Change, TaskLoad(c) PROVE DataOK'
  BY <1>1, <1>2, <1>12 DEF TaskLoad, tables, bounds, history, DataOK
<1>13. ASSUME NEW c \in Change, TaskSave(c) PROVE DataOK'
  <2>1. UNCHANGED <<remembered, review, approvals, edits, faults, accepted, confirmation>>
    BY <1>13 DEF TaskSave, tables, bounds
  <2>2. /\ task[c].loaded \in Catalog /\ task[c].ops \in Seq(Operation) /\ writes[c] = 0
    BY <1>1, <1>13 DEF TaskSave, CommitsOnce, CommitOf, DistinctOps
  <2>3. CASE UNCHANGED <<catalog, writes>>
    BY <2>1, <2>3, <1>1, <1>2 DEF DataOK
  <2>4. CASE /\ catalog' = After(task[c].loaded, task[c].ops)
             /\ writes' = [writes EXCEPT ![c] = @ + 1]
    <3>1. catalog' \in Catalog
      BY <2>2, <2>4, AfterIsCatalog
    <3>2. QED
      BY <3>1, <2>1, <2>2, <2>4, <1>1 DEF DataOK
  <2>5. QED
    BY <2>3, <2>4, <1>13 DEF TaskSave
<1>14. CASE HandlerDropped \/ Restart
  BY <1>1, <1>2, <1>14 DEF HandlerDropped, Restart, tables, history, DataOK
<1>15. CASE Environment
  <2>1. ASSUME NEW f \in Field, OpenReview(f) PROVE DataOK'
    <3>1. catalog[f] \in Policy /\ InForce(f) \in Policy
      BY <2>1, <1>1 DEF OpenReview, DataOK, Catalog, InForce, NotRemembered, None
    <3>2. approvals < MaxApprovals
      BY <2>1 DEF OpenReview
    <3>3. /\ review' = [field |-> f, fingerprint |-> catalog[f], expected |-> InForce(f)]
          /\ UNCHANGED <<catalog, remembered, bounds, history>>
      BY <2>1 DEF OpenReview, tables
    <3>4. QED
      BY <3>1, <3>2, <3>3, <1>1 DEF DataOK, bounds, history
  <2>2. ASSUME NEW f \in Field, NEW p \in Policy \cup {Deleted}, EditFile(f, p) PROVE DataOK'
    BY <2>2, <1>1 DEF EditFile, DataOK, Catalog, tables, history
  <2>3. ASSUME NEW p \in Policy, ApproveAndRemember(p) PROVE DataOK'
    <3>1. /\ review.field \in Field /\ review.fingerprint \in Policy
          /\ approvals < MaxApprovals /\ approvals \in Nat /\ MaxApprovals \in Nat
      BY <2>3, <1>1, BoundsAssumption DEF ApproveAndRemember, DataOK
    <3>2. /\ UNCHANGED <<catalog, edits, faults, accepted, confirmation, writes>>
          /\ review' = NoReview
      BY <2>3 DEF ApproveAndRemember, history
    <3>3. CASE UNCHANGED <<approvals, remembered>>
      BY <3>2, <3>3, <1>1 DEF DataOK
    <3>4. CASE /\ approvals' = approvals + 1
               /\ remembered' = [remembered EXCEPT ![review.field] =
                    [fingerprint |-> review.fingerprint, policy |-> p,
                     approval |-> approvals + 1]]
      <4>1. approvals' \in 0..MaxApprovals /\ approvals + 1 \in 1..approvals'
        BY <3>1, <3>4
      <4>2. 1..approvals \subseteq 1..approvals' /\ 0..approvals \subseteq 0..approvals'
        BY <3>1, <3>4
      <4>3. /\ DOMAIN remembered' = Field
            /\ \A f \in Field : Remembered(remembered'[f], approvals')
        BY <3>1, <3>4, <4>1, <4>2, <1>1 DEF DataOK
      <4>4. \A c \in Change :
              confirmation'[c] \in [ops : Seq(Operation), after : 0..approvals']
        BY <3>2, <4>2, <1>1 DEF DataOK
      <4>5. QED
        BY <3>2, <4>1, <4>3, <4>4, <1>1 DEF DataOK
    <3>5. QED
      BY <2>3, <3>3, <3>4 DEF ApproveAndRemember
  <2>4. QED
    BY <2>1, <2>2, <2>3, <1>15 DEF Environment
<1>16. QED
  BY <1>3, <1>4, <1>5, <1>6, <1>7, <1>8, <1>9, <1>10, <1>11, <1>12, <1>13, <1>14, <1>15,
     ChangesSteps DEF Elsewhere, TaskStep

\* What the handler holds.
LEMMA HandlerKept == IInv /\ Next => HandlerHolds'
<1> SUFFICES ASSUME IInv, Next PROVE HandlerHolds'
  OBVIOUS
<1>1. DataOK /\ RowsCount /\ SuccessorExists /\ HandlerHolds /\ CommitsOnce
  BY DEF IInv
<1>2. CASE handler' = Idle
  BY <1>2, NoOperations DEF HandlerHolds, Idle, Confirming
<1>3. CASE UNCHANGED <<handler, change, confirmation>>
  BY <1>1, <1>3 DEF HandlerHolds, Exists, Pending, Unlinked
<1>4. ASSUME NEW o \in Operation, Appends(o) PROVE HandlerHolds'
  BY <1>1, <1>2, <1>4, SubmitAppends
<1>5. ASSUME NEW o \in Operation, NEW c \in Change, NEW s \in Change,
             SubmitCreatesSuccessor(c, s, o)
      PROVE  HandlerHolds'
  <2>1. /\ RowsCount' /\ ~Exists(s) /\ s # c
        /\ \A d \in Change \ {s} : change'[d] = change[d]
        /\ change'[s].state = "pending" /\ change'[s].successor = None
        /\ change'[s].batch = change[c].batch /\ Elements(change'[s].ops) = {o}
    BY <1>1, <1>5, CreatesSuccessor
  <2>2. /\ Exists(c) /\ ~Pending(c) /\ change[c].successor = None
        /\ handler' = [Idle EXCEPT !.pc = "link", !.change = s, !.parent = c, !.op = o]
    BY <1>5 DEF SubmitCreatesSuccessor
  <2>3. Unlinked(s, c)' /\ Exists(c)' /\ ~Pending(c)'
    <3>1. \A d \in Change : change[d].successor # s
      BY <2>1, <1>1, OperationsAssumption DEF SuccessorExists
    <3>2. None # s /\ None # "pending"
      BY OperationsAssumption DEF None
    <3>3. QED
      BY <2>1, <2>2, <3>1, <3>2 DEF Unlinked, Exists, Pending
  <2>4. QED
    BY <2>1, <2>2, <2>3, NoOperations DEF HandlerHolds, Idle, Confirming
<1>6. CASE LinkParent \/ SuccessorFails \/ Finish \/ HandlerDropped \/ Restart
  BY <1>2, <1>6 DEF LinkParent, SuccessorFails, Finish, HandlerDropped, Restart
<1>7. ASSUME NEW c \in Change, Reject(c) PROVE HandlerHolds'
  BY <1>2, <1>7 DEF Reject
<1>8. ASSUME NEW c \in Change, NEW v \in Nat, Confirm(c, v) PROVE HandlerHolds'
  <2>1. /\ change'[c].state = "committing" /\ change'[c].successor = None
        /\ change'[c].ops = SubSeq(change[c].ops, 1, v) /\ handler'.rest \in DistinctOps
    BY <1>1, <1>8, ConfirmCuts
  <2> DEFINE rest == SubSeq(change[c].ops, v + 1, Len(change[c].ops))
  <2>2. /\ handler' = [Idle EXCEPT !.pc = "forget", !.change = c, !.rest = rest]
        /\ confirmation'[c].ops = SubSeq(change[c].ops, 1, v)
    BY <1>1, <1>8 DEF Confirm, Begin, DataOK
  <2> HIDE DEF rest
  <2>3. handler'.rest = rest
    BY <2>2 DEF Idle
  <2>4. QED
    BY <2>1, <2>2, <2>3 DEF HandlerHolds, Idle, Confirming
<1>9. CASE ForgetAndSpawn
  <2>1. /\ handler.pc = "forget" /\ handler' = [handler EXCEPT !.pc = "wait"]
        /\ UNCHANGED <<change, confirmation>>
    BY <1>9 DEF ForgetAndSpawn, history
  <2>2. QED
    BY <2>1, <1>1 DEF HandlerHolds, Idle, Confirming, Unlinked, Exists
<1>10. CASE TakeResult
  <2>1. /\ handler.pc = "wait" /\ handler.change \in Change
        /\ task[handler.change].pc \in Outcomes
        /\ handler' = [handler EXCEPT
             !.outcome = task[handler.change].pc,
             !.pc = IF task[handler.change].pc = "committed" THEN "list" ELSE "successor"]
        /\ UNCHANGED <<change, confirmation>>
    BY <1>1, <1>10 DEF TakeResult, tables, history, Outcomes, HandlerHolds, Confirming
  <2>2. QED
    BY <2>1, <1>1 DEF HandlerHolds, Idle, Confirming, Unlinked, Exists, Outcomes, None
<1>11. CASE ListCatalog
  <2>1. /\ handler.pc = "list" /\ handler' = [handler EXCEPT !.pc = "prune", !.seen = catalog]
        /\ UNCHANGED <<change, confirmation>>
    BY <1>11 DEF ListCatalog, tables, history
  <2>2. QED
    BY <2>1, <1>1 DEF HandlerHolds, Idle, Confirming, Unlinked, Exists
<1>12. CASE Prune
  <2>1. /\ handler.pc = "prune"
        /\ handler' = [handler EXCEPT !.pc = "successor", !.seen = Unread]
        /\ UNCHANGED <<change, confirmation>>
    BY <1>12 DEF Prune, history
  <2>2. QED
    BY <2>1, <1>1 DEF HandlerHolds, Idle, Confirming, Unlinked, Exists
<1>13. ASSUME NEW s \in Change, CreateSuccessor(s) PROVE HandlerHolds'
  <2>1. /\ ~Exists(s) /\ handler.change \in Change /\ s # handler.change
        /\ \A d \in Change \ {s} : change'[d] = change[d]
        /\ change'[s].state = "pending" /\ change'[s].successor = None
        /\ change'[s].batch = change[handler.change].batch
    BY <1>1, <1>13, RestIsSaved
  <2>2. /\ handler.pc = "successor" /\ UNCHANGED confirmation
        /\ handler' = [handler EXCEPT !.pc = "save", !.successor = s, !.rest = <<>>]
    BY <1>13 DEF CreateSuccessor, history
  <2>3. Unlinked(s, handler.change)'
    <3>1. \A d \in Change : change[d].successor # s
      BY <2>1, <1>1, OperationsAssumption DEF SuccessorExists
    <3>2. None # s /\ None # "pending"
      BY OperationsAssumption DEF None
    <3>3. QED
      BY <2>1, <2>2, <3>1, <3>2, <1>1 DEF Unlinked, Exists, HandlerHolds
  <2>4. /\ handler' \in [pc : {"save"}, change : {handler.change}, parent : Change \cup {None},
                         op : Operation \cup {None}, successor : {s}, rest : {<<>>},
                         outcome : Outcomes, seen : {handler.seen}]
        /\ change[handler.change].state = "committing"
        /\ change[handler.change].ops = confirmation[handler.change].ops
        /\ change[handler.change].successor = None
    BY <2>1, <2>2, <1>1 DEF HandlerHolds, Confirming
  <2>5. /\ handler'.pc = "save" /\ handler'.change = handler.change /\ handler'.successor = s
        /\ handler'.rest = <<>> /\ handler'.outcome # None /\ handler'.outcome \in Outcomes
        /\ handler' # Idle /\ handler'.seen = handler.seen
    BY <2>4 DEF Outcomes, None, Idle
  <2>6. QED
    BY <2>1, <2>2, <2>3, <2>4, <2>5, NoOperations DEF HandlerHolds, Confirming
<1>14. CASE TaskStep \/ Environment
  BY <1>3, <1>14
     DEF TaskStep, TaskLoad, TaskSave, Environment, OpenReview, EditFile, ApproveAndRemember,
         tables, history
<1>15. QED
  BY <1>4, <1>5, <1>6, <1>7, <1>8, <1>9, <1>10, <1>11, <1>12, <1>13, <1>14, ChangesSteps
     DEF Elsewhere

\* A commit that a step does not touch is as far as before.
LEMMA CommitStays ==
  ASSUME CommitsOnce, NEW c \in Change, task'[c] = task[c], writes'[c] = writes[c],
         \/ change'[c].state = change[c].state
         \/ change[c].state \in {None, "pending"} /\ change'[c].state \in {"pending", "rejected"},
         handler'.pc \in Confirming /\ handler'.change = c =>
           /\ handler.pc \in Confirming /\ handler.change = c
           /\ handler'.pc = "forget" => handler.pc = "forget"
           /\ handler'.pc = "wait" <=> handler.pc = "wait"
           /\ handler'.outcome = handler.outcome
  PROVE  CommitOf(c)'
BY DEF CommitsOnce, CommitOf, Outcomes, None

\* One commit per change set.
LEMMA CommitsKept == IInv /\ Next => CommitsOnce'
<1> SUFFICES ASSUME IInv, Next PROVE CommitsOnce'
  OBVIOUS
<1>1. DataOK /\ RowsCount /\ SuccessorExists /\ HandlerHolds /\ CommitsOnce
  BY DEF IInv
<1>2. NoTask \in [pc : {"none"}, ops : DistinctOps, base : {Unread}, loaded : {Unread}]
  BY NoOperations DEF NoTask
<1>3. CASE /\ UNCHANGED <<task, writes>> /\ handler'.pc \notin Confirming
           /\ \A c \in Change :
                \/ change'[c].state = change[c].state
                \/ change[c].state \in {None, "pending"}
                   /\ change'[c].state \in {"pending", "rejected"}
  BY <1>1, <1>3, CommitStays DEF CommitsOnce
<1>4. ASSUME NEW o \in Operation, Appends(o) PROVE CommitsOnce'
  <2>1. /\ handler = Idle /\ UNCHANGED <<handler, task, writes>>
        /\ \A c \in Change :
             \/ change'[c].state = change[c].state
             \/ change[c].state = None /\ change'[c].state = "pending"
    BY <1>1, <1>4, SubmitAppends DEF Same, Exists
  <2>2. QED
    BY <2>1, <1>3 DEF Idle, Confirming
<1>5. ASSUME NEW o \in Operation, NEW c \in Change, NEW s \in Change,
             SubmitCreatesSuccessor(c, s, o)
      PROVE  CommitsOnce'
  <2>1. /\ ~Exists(s) /\ \A d \in Change \ {s} : change'[d] = change[d]
        /\ change'[s].state = "pending"
    BY <1>1, <1>5, CreatesSuccessor
  <2>2. UNCHANGED <<task, writes>> /\ handler'.pc = "link"
    BY <1>5 DEF SubmitCreatesSuccessor, history, Idle
  <2>3. QED
    BY <2>1, <2>2, <1>3 DEF Exists, Confirming
<1>6. CASE LinkParent
  <2>1. \A d \in Change : change'[d].state = change[d].state
    BY <1>1, <1>6, LinksParent
  <2>2. UNCHANGED <<task, writes>> /\ handler'.pc = "idle"
    BY <1>6 DEF LinkParent, Idle
  <2>3. QED
    BY <2>1, <2>2, <1>3 DEF Confirming
<1>7. ASSUME NEW c \in Change, Reject(c) PROVE CommitsOnce'
  <2>1. /\ change[c].state = "pending" /\ change'[c].state = "rejected"
        /\ \A d \in Change \ {c} : change'[d] = change[d]
    BY <1>1, <1>7, RejectCloses DEF Pending
  <2>2. UNCHANGED <<task, writes>> /\ handler'.pc = "idle"
    BY <1>7 DEF Reject, Idle, history
  <2>3. QED
    BY <2>1, <2>2, <1>3 DEF Confirming
<1>8. ASSUME NEW c \in Change, NEW v \in Nat, Confirm(c, v) PROVE CommitsOnce'
  <2>1. /\ change'[c].state = "committing" /\ change[c].state = "pending"
        /\ \A d \in Change \ {c} : change'[d] = change[d]
    BY <1>1, <1>8, ConfirmCuts DEF Confirm, Pending
  <2>2. /\ UNCHANGED <<task, writes>> /\ handler'.pc = "forget" /\ handler'.change = c
        /\ handler'.outcome = None
    BY <1>8 DEF Confirm, Begin, Idle
  <2>3. task[c] = NoTask /\ writes[c] = 0
    BY <2>1, <1>1 DEF CommitsOnce, CommitOf
  <2>4. CommitOf(c)'
    BY <2>1, <2>2, <2>3, <1>2 DEF CommitOf, Outcomes
  <2>5. \A d \in Change \ {c} : CommitOf(d)'
    BY <2>1, <2>2, <1>1, CommitStays
  <2>6. QED
    BY <2>2, <2>4, <2>5, <1>1 DEF CommitsOnce
<1>9. CASE ForgetAndSpawn
  <2>0. PICK c : c = handler.change
    OBVIOUS
  <2>1. /\ handler.pc = "forget" /\ c \in Change /\ change[c].state = "committing"
        /\ task[c].pc = "none" /\ writes[c] = 0 /\ handler.outcome = None
    BY <2>0, <1>1, <1>9 DEF ForgetAndSpawn, HandlerHolds, CommitsOnce, CommitOf, Confirming
  <2>2. Sound(change[c])
    BY <2>0, <2>1, <1>1, RowsAreSound DEF Exists, None
  <2>3. /\ task' = [task EXCEPT ![c] = CommitTask(c)]
        /\ handler' = [handler EXCEPT !.pc = "wait"] /\ UNCHANGED <<change, writes>>
    BY <2>0, <1>9 DEF ForgetAndSpawn, history
  <2>4. /\ CommitTask(c) \in [pc : {"spawned"}, ops : DistinctOps,
                              base : Catalog, loaded : {Unread}]
    BY <2>0, <2>2 DEF CommitTask, NoTask, Sound, Row
  <2>5. CommitTask(c).pc = "spawned"
    BY <2>4
  <2>6. /\ handler'.pc = "wait" /\ handler'.change = c /\ handler'.outcome = None
    BY <2>0, <2>1, <2>3, <1>1 DEF HandlerHolds
  <2>7. /\ DOMAIN task' = Change /\ task'[c] = CommitTask(c)
        /\ \A d \in Change \ {c} : task'[d] = task[d]
    BY <2>0, <2>1, <2>3, <1>1 DEF CommitsOnce
  <2>8. CommitOf(c)'
    BY <2>0, <2>1, <2>3, <2>4, <2>5, <2>6, <2>7, <1>2 DEF CommitOf, Outcomes
  <2>9. \A d \in Change \ {c} : CommitOf(d)'
    BY <2>0, <2>1, <2>3, <2>6, <2>7, <1>1, <2>0, CommitStays
  <2>10. QED
    BY <2>0, <2>7, <2>8, <2>9 DEF CommitsOnce
<1>10. CASE TakeResult
  <2>0. PICK c : c = handler.change
    OBVIOUS
  <2>1. /\ handler.pc = "wait" /\ c \in Change /\ task[c].pc \in Outcomes
        /\ task' = [task EXCEPT ![c] = NoTask] /\ UNCHANGED <<change, writes>>
        /\ handler'.outcome = task[c].pc /\ handler'.pc \in {"list", "successor"}
        /\ handler'.change = c
    BY <2>0, <1>1, <1>10 DEF TakeResult, HandlerHolds, Confirming, Outcomes, tables, history
  <2>2. /\ DOMAIN task' = Change /\ task'[c] = NoTask
        /\ \A d \in Change \ {c} : task'[d] = task[d]
    BY <2>0, <2>1, <1>1 DEF CommitsOnce
  <2>3. /\ writes[c] = 1 <=> task[c].pc = "committed"
        /\ change[c].state = "committing"
    BY <2>0, <2>1, <1>1 DEF CommitsOnce, CommitOf, Outcomes
  <2>4. CommitOf(c)'
    BY <2>0, <2>1, <2>2, <2>3, <1>2 DEF CommitOf, Outcomes
  <2>5. \A d \in Change \ {c} : CommitOf(d)'
    BY <2>0, <2>1, <2>2, <1>1, CommitStays
  <2>6. QED
    BY <2>0, <2>2, <2>4, <2>5 DEF CommitsOnce
<1>11. CASE ListCatalog \/ Prune \/ \E s \in Change : CreateSuccessor(s)
  <2>1. /\ handler.pc \in {"list", "prune", "successor"}
        /\ handler'.pc \in {"prune", "successor", "save"}
        /\ handler'.change = handler.change /\ handler'.outcome = handler.outcome
        /\ UNCHANGED <<task, writes>>
    BY <1>1, <1>11 DEF ListCatalog, Prune, CreateSuccessor, HandlerHolds, tables, history
  <2>2. \A c \in Change :
          \/ change'[c].state = change[c].state
          \/ change[c].state = None /\ change'[c].state = "pending"
    <3>1. CASE ListCatalog \/ Prune
      BY <3>1 DEF ListCatalog, Prune, tables
    <3>2. CASE \E s \in Change : CreateSuccessor(s)
      BY <3>2, <1>1, RestIsSaved DEF Exists
    <3>3. QED
      BY <1>11, <3>1, <3>2
  <2>3. QED
    BY <2>1, <2>2, <1>1, CommitStays DEF CommitsOnce, Confirming
<1>12. CASE SuccessorFails \/ HandlerDropped
  <2>1. UNCHANGED <<task, writes, change>> /\ handler'.pc = "idle"
    BY <1>12 DEF SuccessorFails, HandlerDropped, Idle, tables, history
  <2>2. QED
    BY <2>1, <1>3 DEF Confirming
<1>13. CASE Finish
  <2>0. PICK c : c = handler.change
    OBVIOUS
  <2>1. /\ c \in Change /\ handler.outcome \in Outcomes /\ handler.pc \in Confirming
        /\ \A d \in Change \ {c} : change'[d] = change[d]
        /\ change'[c].state = handler.outcome
    BY <2>0, <1>1, <1>13, FinishSaves
  <2>2. /\ handler.pc # "wait" /\ handler'.pc = "idle" /\ UNCHANGED <<task, writes>>
    BY <2>0, <1>13 DEF Finish, LastSave, Idle, history
  <2>3. task[c].pc = "none" /\ (writes[c] = 1 <=> handler.outcome = "committed")
        /\ writes[c] \in 0..1
    BY <2>0, <2>1, <2>2, <1>1 DEF CommitsOnce, CommitOf, Outcomes, None, DataOK
  <2>4. CommitOf(c)
    BY <2>0, <2>1, <1>1 DEF CommitsOnce
  <2>5. CommitOf(c)'
    BY <2>0, <2>1, <2>2, <2>3, <2>4 DEF CommitOf, Outcomes, Confirming
  <2>6. \A d \in Change \ {c} : CommitOf(d)'
    BY <2>0, <2>1, <2>2, <1>1, CommitStays DEF Confirming
  <2>7. QED
    BY <2>0, <2>2, <2>5, <2>6, <1>1 DEF CommitsOnce
<1>14. ASSUME NEW c \in Change, TaskLoad(c) PROVE CommitsOnce'
  <2>1. /\ task[c].pc = "spawned" /\ UNCHANGED <<handler, change, writes>>
        /\ catalog \in Catalog
    BY <1>1, <1>14 DEF TaskLoad, tables, history, DataOK
  <2>2. ASSUME NEW result \in {"conflict", "failed"}, TaskEnds(c, result) PROVE CommitsOnce'
    <3> DEFINE ended == IF Awaited(c) THEN [NoTask EXCEPT !.pc = result] ELSE NoTask
    <3>1. /\ DOMAIN task' = Change /\ task'[c] = ended
          /\ \A d \in Change \ {c} : task'[d] = task[d]
      BY <2>2, <1>1 DEF TaskEnds, CommitsOnce
    <3>2. /\ ended \in [pc : {"none"} \cup Outcomes, ops : DistinctOps, base : {Unread},
                        loaded : {Unread}]
          /\ ended.pc = "none" => ended = NoTask
          /\ ended.pc \in {"none", result}
          /\ Awaited(c) <=> ended.pc # "none"
      BY <1>2 DEF NoTask, Outcomes
    <3>3. handler.pc \in Confirming /\ handler.change = c => Awaited(c)
      BY <2>1, <1>1 DEF CommitsOnce, CommitOf, Awaited
    <3> HIDE DEF ended
    <3>4. CommitOf(c)
      BY <1>1 DEF CommitsOnce
    <3>5. CommitOf(c)'
      BY <2>1, <3>1, <3>2, <3>3, <3>4, <1>2 DEF CommitOf, Outcomes, Awaited
    <3>6. \A d \in Change \ {c} : CommitOf(d)'
      BY <2>1, <3>1, <1>1, CommitStays
    <3>7. QED
      BY <3>1, <3>5, <3>6 DEF CommitsOnce
  <2>3. CASE task' = [task EXCEPT ![c].pc = "loaded", ![c].loaded = catalog]
    <3>1. CommitOf(c)
      BY <1>1 DEF CommitsOnce
    <3>2. /\ DOMAIN task' = Change /\ \A d \in Change \ {c} : task'[d] = task[d]
          /\ task'[c] = [task[c] EXCEPT !.pc = "loaded", !.loaded = catalog]
      BY <2>3, <1>1 DEF CommitsOnce
    <3>3. CommitOf(c)'
      BY <2>1, <3>1, <3>2, <1>2 DEF CommitOf, Outcomes
    <3>4. \A d \in Change \ {c} : CommitOf(d)'
      BY <2>1, <3>2, <1>1, CommitStays
    <3>5. QED
      BY <3>2, <3>3, <3>4 DEF CommitsOnce
  <2>4. QED
    BY <2>2, <2>3, <1>14 DEF TaskLoad
<1>15. ASSUME NEW c \in Change, TaskSave(c) PROVE CommitsOnce'
  <2>1. /\ task[c].pc = "loaded" /\ UNCHANGED <<handler, change>>
        /\ writes[c] = 0 /\ change[c].state = "committing" /\ DOMAIN writes = Change
    BY <1>1, <1>15 DEF TaskSave, tables, CommitsOnce, CommitOf, DataOK
  <2>2. ASSUME NEW result \in {"committed", "failed"}, TaskEnds(c, result),
               DOMAIN writes' = Change, \A d \in Change \ {c} : writes'[d] = writes[d],
               writes'[c] = IF result = "committed" THEN 1 ELSE 0
        PROVE  CommitsOnce'
    <3> DEFINE ended == IF Awaited(c) THEN [NoTask EXCEPT !.pc = result] ELSE NoTask
    <3>1. /\ DOMAIN task' = Change /\ task'[c] = ended
          /\ \A d \in Change \ {c} : task'[d] = task[d]
      BY <2>2, <1>1 DEF TaskEnds, CommitsOnce
    <3>2. /\ ended \in [pc : {"none"} \cup Outcomes, ops : DistinctOps, base : {Unread},
                        loaded : {Unread}]
          /\ ended.pc = "none" => ended = NoTask
          /\ ended.pc \in {"none", result}
          /\ Awaited(c) <=> ended.pc # "none"
      BY <1>2 DEF NoTask, Outcomes
    <3>3. handler.pc \in Confirming /\ handler.change = c =>
            Awaited(c) /\ handler.outcome = None
      BY <2>1, <1>1 DEF CommitsOnce, CommitOf, Awaited, HandlerHolds, Confirming
    <3> HIDE DEF ended
    <3>4. CommitOf(c)
      BY <1>1 DEF CommitsOnce
    <3>5. CommitOf(c)'
      BY <2>1, <2>2, <3>1, <3>2, <3>3, <3>4, <1>2 DEF CommitOf, Outcomes, Awaited
    <3>6. \A d \in Change \ {c} : CommitOf(d)'
      BY <2>1, <2>2, <3>1, <1>1, CommitStays
    <3>7. QED
      BY <3>1, <3>5, <3>6 DEF CommitsOnce
  <2>3. CASE writes' = [writes EXCEPT ![c] = @ + 1] /\ TaskEnds(c, "committed")
    BY <2>1, <2>2, <2>3
  <2>4. CASE UNCHANGED writes /\ TaskEnds(c, "failed")
    BY <2>1, <2>2, <2>4
  <2>5. QED
    BY <2>3, <2>4, <1>15 DEF TaskSave
<1>16. CASE Restart
  <2>1. UNCHANGED <<writes, change>> /\ handler'.pc = "idle"
        /\ task' = [d \in Change |-> NoTask]
    BY <1>16 DEF Restart, Idle, tables, history
  <2>2. ASSUME NEW c \in Change PROVE CommitOf(c)'
    <3>1. CommitOf(c) /\ task'[c] = NoTask
      BY <2>1, <1>1 DEF CommitsOnce
    <3>2. QED
      BY <2>1, <3>1, <1>2 DEF CommitOf, Confirming, Outcomes
  <2>3. QED
    BY <2>1, <2>2 DEF CommitsOnce
<1>17. CASE Environment
  <2>1. UNCHANGED <<writes, change, handler, task>>
    BY <1>17 DEF Environment, OpenReview, EditFile, ApproveAndRemember, tables, history
  <2>2. QED
    BY <2>1, <1>1, CommitStays DEF CommitsOnce
<1>18. QED
  BY <1>4, <1>5, <1>6, <1>7, <1>8, <1>9, <1>10, <1>11, <1>12, <1>13, <1>14, <1>15, <1>16,
     <1>17, ChangesSteps DEF Elsewhere, TaskStep

\* What a commit replaces is forgotten first.
LEMMA SupersededKept == IInv /\ Next => Superseded'
<1> SUFFICES ASSUME IInv, Next PROVE Superseded'
  OBVIOUS
<1>1. DataOK /\ RowsCount /\ SuccessorExists /\ HandlerHolds /\ CommitsOnce /\ Superseded
  BY DEF IInv
<1> DEFINE Kept(f) == \/ remembered'[f] \in {remembered[f], NotRemembered}
                      \/ remembered'[f].approval = approvals + 1
           Done(c) == task[c].pc # "none" \/ writes[c] = 1
<1>2. CASE /\ UNCHANGED confirmation /\ \A f \in Field : Kept(f)
           /\ \A c \in Change : Done(c)' => Done(c)
  <2>1. ASSUME NEW c \in Change, Done(c)', NEW f \in ReplacedPolicies(confirmation[c].ops)
        PROVE  remembered'[f].approval = 0 \/ remembered'[f].approval > confirmation[c].after
    <3>1. confirmation[c].ops \in Seq(Operation) /\ confirmation[c].after \in 0..approvals
          /\ approvals \in Nat
      BY <1>1 DEF DataOK
    <3>2. f \in Field
      BY <3>1, <2>1, OperationsAssumption DEF ReplacedPolicies, Elements
    <3>3. remembered[f].approval = 0 \/ remembered[f].approval > confirmation[c].after
      BY <2>1, <1>1, <1>2 DEF Superseded
    <3>4. QED
      BY <3>1, <3>2, <3>3, <1>2 DEF NotRemembered
  <2>2. QED
    BY <2>1, <1>2 DEF Superseded
<1>3. CASE UNCHANGED <<remembered, task, writes, confirmation>>
  BY <1>2, <1>3
<1>4. ASSUME NEW o \in Operation, Appends(o) PROVE Superseded'
  BY <1>1, <1>3, <1>4, SubmitAppends
<1>5. ASSUME NEW o \in Operation, NEW c \in Change, NEW s \in Change,
             SubmitCreatesSuccessor(c, s, o)
      PROVE  Superseded'
  BY <1>3, <1>5 DEF SubmitCreatesSuccessor, history
<1>6. CASE LinkParent \/ Finish \/ \E c \in Change : Reject(c) \/ CreateSuccessor(c)
  BY <1>3, <1>6 DEF LinkParent, Finish, Reject, CreateSuccessor, history
<1>7. ASSUME NEW c \in Change, NEW v \in Nat, Confirm(c, v) PROVE Superseded'
  <2>1. task[c].pc = "none" /\ writes[c] = 0
    BY <1>1, <1>7 DEF Confirm, Pending, CommitsOnce, CommitOf
  <2>2. /\ UNCHANGED <<remembered, task, writes>>
        /\ \A d \in Change \ {c} : confirmation'[d] = confirmation[d]
    BY <1>1, <1>7 DEF Confirm, Begin, DataOK
  <2>3. QED
    BY <2>1, <2>2, <1>1 DEF Superseded
<1>8. CASE ForgetAndSpawn
  <2>0. PICK c : c = handler.change
    OBVIOUS
  <2>1. /\ c \in Change /\ change[c].ops = confirmation[c].ops
    BY <2>0, <1>1, <1>8 DEF ForgetAndSpawn, HandlerHolds, Confirming
  <2>2. /\ UNCHANGED <<writes, confirmation>>
        /\ \A d \in Change \ {c} : task'[d] = task[d]
        /\ \A f \in Field :
             /\ remembered'[f] \in {remembered[f], NotRemembered}
             /\ f \in ReplacedPolicies(confirmation[c].ops) => remembered'[f] = NotRemembered
    BY <2>0, <2>1, <1>1, <1>8 DEF ForgetAndSpawn, history, CommitsOnce
  <2>3. ASSUME NEW d \in Change, Done(d)', NEW f \in ReplacedPolicies(confirmation[d].ops)
        PROVE  remembered'[f].approval = 0 \/ remembered'[f].approval > confirmation[d].after
    <3>1. confirmation[d].ops \in Seq(Operation)
      BY <1>1 DEF DataOK
    <3>2. f \in Field
      BY <3>1, <2>3, OperationsAssumption DEF ReplacedPolicies, Elements
    <3>3. CASE d = c
      BY <3>2, <3>3, <2>2, <2>3 DEF NotRemembered
    <3>4. CASE d # c
      <4>1. remembered[f].approval = 0 \/ remembered[f].approval > confirmation[d].after
        BY <3>4, <2>2, <2>3, <1>1 DEF Superseded
      <4>2. QED
        BY <3>2, <4>1, <2>2 DEF NotRemembered
    <3>5. QED
      BY <3>3, <3>4
  <2>4. QED
    BY <2>2, <2>3 DEF Superseded
<1>9. CASE TakeResult \/ Restart
  <2>1. /\ UNCHANGED <<remembered, writes, confirmation>>
        /\ \A c \in Change : task'[c] \in {task[c], NoTask}
    BY <1>1, <1>9 DEF TakeResult, Restart, tables, history, CommitsOnce
  <2>2. QED
    BY <2>1, <1>2 DEF NoTask
<1>10. CASE ListCatalog \/ SuccessorFails \/ HandlerDropped
  BY <1>3, <1>10 DEF ListCatalog, SuccessorFails, HandlerDropped, tables, history
<1>11. CASE Prune
  BY <1>2, <1>11 DEF Prune, history
<1>12. CASE TaskStep
  <2>1. /\ UNCHANGED <<remembered, confirmation>>
        /\ \A c \in Change : Done(c)' => Done(c)
    BY <1>1, <1>12
       DEF TaskStep, TaskLoad, TaskSave, TaskEnds, tables, history, CommitsOnce, DataOK
  <2>2. QED
    BY <2>1, <1>2
<1>13. CASE Environment
  <2>1. ASSUME NEW p \in Policy, ApproveAndRemember(p) PROVE Superseded'
    <3>1. /\ UNCHANGED <<task, writes, confirmation>>
          /\ \A f \in Field : Kept(f)
      BY <2>1, <1>1 DEF ApproveAndRemember, history, DataOK
    <3>2. QED
      BY <3>1, <1>2
  <2>2. QED
    BY <2>1, <1>3, <1>13 DEF Environment, OpenReview, EditFile, tables, history
<1>14. QED
  BY <1>4, <1>5, <1>6, <1>7, <1>8, <1>9, <1>10, <1>11, <1>12, <1>13, ChangesSteps
     DEF Elsewhere

\* Undisturbed, one task writes at a time.
LEMMA OneWriterKept == IInv /\ Next => OneWriter'
<1> SUFFICES ASSUME IInv, Next, Undisturbed' PROVE OneWriter'
  BY DEF OneWriter
<1>1. /\ DataOK /\ RowsCount /\ SuccessorExists /\ HandlerHolds /\ CommitsOnce /\ OneWriter
  BY DEF IInv
<1> DEFINE Writing(c) == task[c].pc \in {"spawned", "loaded"}
<1>2. CASE handler.pc # "wait" /\ UNCHANGED task /\ Undisturbed
  BY <1>1, <1>2 DEF OneWriter
<1>3. CASE UNCHANGED <<task, handler, catalog>> /\ Undisturbed
  BY <1>1, <1>3 DEF OneWriter
<1>4. ASSUME NEW o \in Operation, Appends(o) PROVE OneWriter'
  BY <1>1, <1>3, <1>4, SubmitAppends DEF Undisturbed, bounds
<1>5. ASSUME NEW o \in Operation, NEW c \in Change, NEW s \in Change,
             SubmitCreatesSuccessor(c, s, o)
      PROVE  OneWriter'
  BY <1>2, <1>5 DEF SubmitCreatesSuccessor, Undisturbed, bounds, Idle
<1>6. CASE LinkParent \/ Finish \/ ListCatalog \/ Prune \/ SuccessorFails
           \/ \E c \in Change : Reject(c) \/ CreateSuccessor(c)
  <2>1. handler.pc # "wait"
    <3>1. CASE \E c \in Change : Reject(c) \/ CreateSuccessor(c)
      BY <3>1 DEF Reject, CreateSuccessor, Idle
    <3>2. CASE Finish
      BY <3>2 DEF Finish, LastSave
    <3>3. CASE LinkParent \/ ListCatalog \/ Prune \/ SuccessorFails
      BY <3>3 DEF LinkParent, ListCatalog, Prune, SuccessorFails
    <3>4. QED
      BY <1>6, <3>1, <3>2, <3>3
  <2>2. UNCHANGED task /\ Undisturbed
    BY <1>6 DEF LinkParent, Finish, ListCatalog, Prune, SuccessorFails, Reject,
                CreateSuccessor, Undisturbed, bounds
  <2>3. QED
    BY <2>1, <2>2, <1>2
<1>7. ASSUME NEW c \in Change, NEW v \in Nat, Confirm(c, v) PROVE OneWriter'
  BY <1>2, <1>7 DEF Confirm, Begin, Undisturbed, bounds, Idle
<1>8. CASE ForgetAndSpawn
  <2>0. PICK c : c = handler.change
    OBVIOUS
  <2>1. /\ c \in Change /\ handler.pc = "forget" /\ Undisturbed
        /\ handler'.pc = "wait" /\ handler'.change = c
        /\ task'[c].pc = "spawned" /\ \A d \in Change \ {c} : task'[d] = task[d]
    BY <2>0, <1>1, <1>8
       DEF ForgetAndSpawn, HandlerHolds, Confirming, CommitsOnce, CommitTask, NoTask,
           Undisturbed, bounds
  <2>2. QED
    BY <2>1, <1>1 DEF OneWriter
<1>9. CASE TakeResult
  <2>0. PICK c : c = handler.change
    OBVIOUS
  <2>1. /\ c \in Change /\ handler.pc = "wait" /\ task[c].pc \in Outcomes /\ Undisturbed
        /\ task'[c] = NoTask /\ \A d \in Change \ {c} : task'[d] = task[d]
    BY <2>0, <1>1, <1>9
       DEF TakeResult, HandlerHolds, Confirming, CommitsOnce, Outcomes, Undisturbed, bounds
  <2>2. QED
    BY <2>0, <2>1, <1>1 DEF OneWriter, NoTask
<1>10. CASE HandlerDropped \/ Restart
  <2>1. faults \in Nat /\ faults' = faults + 1
    BY <1>1, <1>10 DEF HandlerDropped, Restart, DataOK
  <2>2. QED
    BY <2>1 DEF Undisturbed
<1>11. ASSUME NEW c \in Change, TaskLoad(c) \/ TaskSave(c) PROVE OneWriter'
  <2>1. /\ Undisturbed /\ Writing(c) /\ UNCHANGED handler
        /\ \A d \in Change \ {c} : task'[d] = task[d]
    BY <1>1, <1>11 DEF TaskLoad, TaskSave, TaskEnds, Undisturbed, bounds, CommitsOnce
  <2>2. handler.pc = "wait" /\ handler.change = c
        /\ \A d \in Change \ {c} : ~Writing(d)
    BY <2>1, <1>1 DEF OneWriter
  <2>3. task'[c].pc = "loaded" => task'[c].loaded = catalog'
    BY <1>1, <1>11 DEF TaskLoad, TaskSave, TaskEnds, NoTask, CommitsOnce, CommitOf
  <2>4. QED
    BY <2>1, <2>2, <2>3 DEF OneWriter
<1>12. CASE Environment
  <2>1. ASSUME NEW f \in Field, NEW p \in Policy \cup {Deleted}, EditFile(f, p) PROVE FALSE
    BY <2>1, <1>1 DEF EditFile, DataOK, Undisturbed
  <2>2. QED
    BY <2>1, <1>3, <1>12
       DEF Environment, OpenReview, ApproveAndRemember, Undisturbed, tables, bounds
<1>13. QED
  BY <1>4, <1>5, <1>6, <1>7, <1>8, <1>9, <1>10, <1>11, <1>12, ChangesSteps
     DEF Elsewhere, TaskStep

\* Undisturbed, operations are accepted before they are written, and none is lost.
LEMMA AcceptedKept == IInv /\ Next => OnlyAccepted'
<1> SUFFICES ASSUME IInv, Next, Undisturbed' PROVE OnlyAccepted'
  BY DEF OnlyAccepted
<1>1. /\ DataOK /\ RowsCount /\ SuccessorExists /\ HandlerHolds /\ CommitsOnce /\ OneWriter
  BY DEF IInv
<1>2. Undisturbed
  <2>1. faults \in Nat /\ edits \in Nat
    BY <1>1 DEF DataOK
  <2>2. UNCHANGED <<edits, faults>> \/ faults' = faults + 1 \/ edits' = edits + 1
    <3>1. ASSUME NEW o \in Operation, Appends(o) PROVE UNCHANGED <<edits, faults>>
      BY <1>1, <3>1, SubmitAppends DEF bounds
    <3>2. QED
      BY <3>1, ChangesSteps
         DEF SubmitCreatesSuccessor, LinkParent, Reject, Confirm, Begin, CreateSuccessor,
             Finish, Elsewhere, ForgetAndSpawn, TakeResult, ListCatalog, Prune, SuccessorFails,
             TaskStep, TaskLoad, TaskSave, HandlerDropped, Restart, Environment, OpenReview,
             EditFile, ApproveAndRemember, bounds
  <2>3. QED
    BY <2>1, <2>2 DEF Undisturbed
<1>3. /\ Elements(handler.rest) \subseteq accepted
      /\ \A c \in Change : Elements(change[c].ops) \subseteq Submitted
                           /\ Elements(task[c].ops) \subseteq accepted
      /\ NothingDeleted =>
           /\ \A f \in Field : catalog[f] # Deleted
           /\ AcceptedOperationsSurvive
  BY <1>2 DEF IInv, OnlyAccepted
<1>4. (handler.pc # "link" => Submitted = accepted)
      /\ (handler = Idle => InTransit = {})
      /\ (handler.rest = <<>> => InTransit = {})
      /\ (handler # Idle => InTransit = Elements(handler.rest))
  BY NoOperations DEF Submitted, InTransit
<1>5. \A c \in Change : ~Exists(c) => Elements(change[c].ops) = {}
  BY <1>1, NoOperations DEF RowsCount, NoRow
<1>6. Idle.pc = "idle" /\ Elements(Idle.rest) = {} /\ Elements(NoTask.ops) = {}
  BY NoOperations DEF Idle, NoTask
\* Who keeps rows, tasks and catalog keeps what was accepted.
<1>7. CASE /\ UNCHANGED <<accepted, catalog, task>> /\ handler'.pc # "link" /\ handler.pc # "link"
           /\ \A c \in Change : Elements(change'[c].ops) = Elements(change[c].ops)
           /\ \/ UNCHANGED handler
              \/ handler # Idle /\ handler' # Idle /\ handler'.rest = handler.rest
              \/ Elements(handler.rest) = {} /\ Elements(handler'.rest) = {}
  <2>1. Submitted' = accepted /\ Elements(handler'.rest) \subseteq accepted
        /\ InTransit' = InTransit
    BY <1>3, <1>7 DEF Submitted, InTransit
  <2>2. AcceptedOperationsSurvive => AcceptedOperationsSurvive'
    BY <2>1, <1>7 DEF AcceptedOperationsSurvive
  <2>3. QED
    BY <2>1, <2>2, <1>3, <1>4, <1>7 DEF OnlyAccepted, NothingDeleted
<1>8. ASSUME NEW o \in Operation, Appends(o) PROVE OnlyAccepted'
  <2>1. /\ handler = Idle /\ accepted' = accepted \cup {o}
        /\ UNCHANGED <<catalog, handler, task>>
        /\ \A c \in Change :
             /\ Elements(change[c].ops) \subseteq Elements(change'[c].ops)
             /\ Elements(change'[c].ops) \subseteq Elements(change[c].ops) \cup {o}
        /\ \E c \in Change : o \in Elements(change'[c].ops)
    BY <1>1, <1>8, SubmitAppends
  <2>2. Submitted = accepted /\ Submitted' = accepted' /\ InTransit = {}
    BY <2>1, <1>4, <1>6 DEF Submitted
  <2>3. NothingDeleted' => NothingDeleted
    BY <2>1 DEF NothingDeleted
  <2>4. AcceptedOperationsSurvive => AcceptedOperationsSurvive'
    <3>1. accepted \subseteq UNION {Elements(change[c].ops) : c \in Change}
          => accepted' \subseteq UNION {Elements(change'[c].ops) : c \in Change}
      BY <2>1
    <3>2. QED
      BY <3>1, <2>2 DEF AcceptedOperationsSurvive
  <2>5. QED
    BY <2>1, <2>2, <2>3, <2>4, <1>3 DEF OnlyAccepted
<1>9. ASSUME NEW o \in Operation, NEW c \in Change, NEW s \in Change,
             SubmitCreatesSuccessor(c, s, o)
      PROVE  OnlyAccepted'
  <2>1. /\ ~Exists(s) /\ \A d \in Change \ {s} : change'[d] = change[d]
        /\ Elements(change'[s].ops) = {o}
    BY <1>1, <1>9, CreatesSuccessor
  <2>2. /\ handler = Idle /\ UNCHANGED <<catalog, task, accepted>>
        /\ handler'.pc = "link" /\ handler'.op = o /\ Elements(handler'.rest) = {}
    BY <1>6, <1>9 DEF SubmitCreatesSuccessor, history, Idle
  <2>3. Submitted = accepted /\ Submitted' = accepted \cup {o} /\ InTransit = {}
    BY <2>2, <1>4, <1>6 DEF Submitted
  <2>4. AcceptedOperationsSurvive => AcceptedOperationsSurvive'
    <3>1. \A d \in Change : Elements(change[d].ops) \subseteq Elements(change'[d].ops)
      BY <2>1, <1>5
    <3>2. QED
      BY <3>1, <2>2, <2>3 DEF AcceptedOperationsSurvive
  <2>5. \A d \in Change : Elements(change'[d].ops) \subseteq Submitted'
    BY <2>1, <2>3, <1>3
  <2>6. QED
    BY <2>2, <2>3, <2>4, <2>5, <1>3 DEF OnlyAccepted, NothingDeleted
<1>10. CASE LinkParent
  <2>1. /\ handler.pc = "link" /\ accepted' = accepted \cup {handler.op}
        /\ handler' = Idle /\ UNCHANGED <<catalog, task>> /\ handler.rest = <<>>
        /\ handler.change \in Change /\ handler.op \in Elements(change[handler.change].ops)
    BY <1>1, <1>10 DEF LinkParent, HandlerHolds
  <2>2. \A d \in Change : change'[d].ops = change[d].ops
    BY <1>1, <1>10, LinksParent
  <2>3. Submitted = accepted' /\ Submitted' = accepted' /\ InTransit = {}
    BY <2>1, <1>4, <1>6 DEF Submitted
  <2>4. NothingDeleted' => NothingDeleted
    BY <2>1 DEF NothingDeleted
  <2>5. AcceptedOperationsSurvive => AcceptedOperationsSurvive'
    BY <2>1, <2>2, <2>3 DEF AcceptedOperationsSurvive
  <2>6. QED
    BY <2>1, <2>2, <2>3, <2>4, <2>5, <1>3, <1>6 DEF OnlyAccepted
<1>11. ASSUME NEW c \in Change, Reject(c) PROVE OnlyAccepted'
  <2>1. \A d \in Change : Elements(change'[d].ops) = Elements(change[d].ops)
    BY <1>1, <1>11, RejectCloses
  <2>2. UNCHANGED <<accepted, catalog, task, handler>> /\ handler.pc # "link"
    BY <1>6, <1>11 DEF Reject, history
  <2>3. QED
    BY <2>1, <2>2, <1>7
<1>12. ASSUME NEW c \in Change, NEW v \in Nat, Confirm(c, v) PROVE OnlyAccepted'
  <2>1. /\ \A d \in Change \ {c} : change'[d] = change[d]
        /\ Elements(change[c].ops) =
             Elements(change'[c].ops) \cup Elements(handler'.rest)
    BY <1>1, <1>12, ConfirmCuts
  <2>2. /\ handler = Idle /\ handler'.pc = "forget" /\ UNCHANGED <<catalog, task, accepted>>
    BY <1>12 DEF Confirm, Begin, Idle
  <2>3. /\ Submitted = accepted /\ Submitted' = accepted /\ InTransit = {}
        /\ InTransit' = Elements(handler'.rest)
    BY <2>2, <1>4, <1>6 DEF Submitted, InTransit
  <2>4. AcceptedOperationsSurvive => AcceptedOperationsSurvive'
    <3>1. ASSUME NEW x \in UNION {Elements(change[d].ops) : d \in Change}
          PROVE  x \in InTransit' \cup UNION {Elements(change'[d].ops) : d \in Change}
      BY <3>1, <2>1, <2>3
    <3>2. QED
      BY <3>1, <2>2, <2>3 DEF AcceptedOperationsSurvive
  <2>5. \A d \in Change : Elements(change'[d].ops) \subseteq accepted
    BY <2>1, <2>3, <1>3
  <2>6. QED
    BY <2>1, <2>2, <2>3, <2>4, <2>5, <1>3 DEF OnlyAccepted, NothingDeleted
<1>13. CASE ForgetAndSpawn
  <2>0. PICK c : c = handler.change
    OBVIOUS
  <2>1. /\ c \in Change /\ handler.pc = "forget" /\ handler'.pc = "wait"
        /\ handler'.rest = handler.rest /\ UNCHANGED <<catalog, accepted, change>>
        /\ task'[c].ops = change[c].ops /\ \A d \in Change \ {c} : task'[d] = task[d]
    BY <2>0, <1>1, <1>13
       DEF ForgetAndSpawn, HandlerHolds, Confirming, CommitsOnce, CommitTask, NoTask, history
  <2>2. /\ Submitted = accepted /\ Submitted' = accepted /\ InTransit' = InTransit
    BY <2>1, <1>4, <1>6 DEF Submitted, InTransit
  <2>3. AcceptedOperationsSurvive => AcceptedOperationsSurvive'
    BY <2>1, <2>2 DEF AcceptedOperationsSurvive
  <2>4. QED
    BY <2>1, <2>2, <2>3, <1>3 DEF OnlyAccepted, NothingDeleted
<1>14. CASE TakeResult
  <2>1. /\ handler.pc = "wait" /\ handler'.pc \in {"list", "successor"}
        /\ handler'.rest = handler.rest /\ UNCHANGED <<catalog, accepted, change>>
        /\ \A d \in Change : task'[d] \in {task[d], NoTask}
    BY <1>1, <1>14 DEF TakeResult, HandlerHolds, CommitsOnce, tables, history
  <2>2. /\ Submitted = accepted /\ Submitted' = accepted /\ InTransit' = InTransit
    BY <2>1, <1>4, <1>6 DEF Submitted, InTransit
  <2>3. AcceptedOperationsSurvive => AcceptedOperationsSurvive'
    BY <2>1, <2>2 DEF AcceptedOperationsSurvive
  <2>4. QED
    BY <2>1, <2>2, <2>3, <1>3, <1>6 DEF OnlyAccepted, NothingDeleted
<1>15. CASE ListCatalog \/ Prune
  <2>1. /\ UNCHANGED <<accepted, catalog, task, change>> /\ handler'.rest = handler.rest
        /\ handler.pc \in {"list", "prune"} /\ handler'.pc \in {"prune", "successor"}
    BY <1>1, <1>15 DEF ListCatalog, Prune, HandlerHolds, tables, history
  <2>2. QED
    BY <2>1, <1>6, <1>7
<1>16. ASSUME NEW s \in Change, CreateSuccessor(s) PROVE OnlyAccepted'
  <2>1. /\ ~Exists(s) /\ \A d \in Change \ {s} : change'[d] = change[d]
        /\ change'[s].ops = handler.rest
    BY <1>1, <1>16, RestIsSaved
  <2>2. /\ handler.pc = "successor" /\ handler'.pc = "save" /\ handler'.rest = <<>>
        /\ UNCHANGED <<catalog, accepted, task>>
    BY <1>1, <1>16 DEF CreateSuccessor, HandlerHolds, history
  <2>3. /\ Submitted = accepted /\ Submitted' = accepted
        /\ InTransit = Elements(handler.rest)
    BY <2>2, <1>4, <1>6 DEF Submitted
  <2>4. AcceptedOperationsSurvive => AcceptedOperationsSurvive'
    <3>1. \A d \in Change : Elements(change[d].ops) \subseteq Elements(change'[d].ops)
      BY <2>1, <1>5
    <3>2. InTransit \subseteq Elements(change'[s].ops)
      BY <2>1, <2>3
    <3>3. QED
      BY <3>1, <3>2, <2>2 DEF AcceptedOperationsSurvive
  <2>5. \A d \in Change : Elements(change'[d].ops) \subseteq accepted
    BY <2>1, <2>3, <1>3
  <2>6. QED
    BY <2>2, <2>3, <2>4, <2>5, <1>3, NoOperations DEF OnlyAccepted, NothingDeleted
<1>17. CASE SuccessorFails
  <2>1. /\ handler.rest \in Seq(Operation) /\ ~Previewable(handler.rest) /\ handler' = Idle
        /\ handler.pc = "successor" /\ UNCHANGED <<catalog, accepted, task, change>>
    BY <1>1, <1>17 DEF SuccessorFails, HandlerHolds, DistinctOps, tables, history
  <2>2. /\ Submitted = accepted /\ Submitted' = accepted
    BY <2>1, <1>4, <1>6 DEF Submitted
  <2>3. ~NothingDeleted
    <3>1. SUFFICES ASSUME NothingDeleted PROVE FALSE
      OBVIOUS
    <3>2. \A k \in DOMAIN handler.rest :
            handler.rest[k] \in Operation /\ handler.rest[k] \in Elements(handler.rest)
      BY <2>1 DEF Elements
    <3>3. \A k \in DOMAIN handler.rest :
            Target[handler.rest[k]] \in Field /\ Setting[handler.rest[k]] # Deleted
      BY <3>1, <3>2, <1>3, OperationsAssumption DEF NothingDeleted
    <3>4. \A k \in DOMAIN handler.rest : \A j \in 1..(k - 1) : j \in DOMAIN handler.rest
      BY <2>1
    <3>5. Applicable(catalog, handler.rest)
      BY <3>1, <3>3, <3>4, <1>3 DEF Applicable
    <3>6. QED
      BY <3>5, <2>1 DEF Previewable
  <2>4. QED
    BY <2>1, <2>2, <2>3, <1>3, <1>6 DEF OnlyAccepted, NothingDeleted
<1>18. CASE Finish
  <2>1. /\ handler.rest = <<>> /\ handler.pc \in Confirming
        /\ \A d \in Change : change'[d].ops = change[d].ops
    BY <1>1, <1>18, FinishSaves
  <2>2. UNCHANGED <<accepted, catalog, task>> /\ handler' = Idle
    BY <1>18 DEF Finish, history
  <2>3. QED
    BY <2>1, <2>2, <1>6, <1>7, NoOperations DEF Confirming
<1>19. ASSUME NEW c \in Change, TaskLoad(c) PROVE OnlyAccepted'
  <2>1. /\ UNCHANGED <<accepted, catalog, change, handler>>
        /\ \A d \in Change : task'[d].ops \in {task[d].ops, <<>>}
    BY <1>1, <1>19
       DEF TaskLoad, TaskEnds, NoTask, CommitsOnce, CommitOf, tables, history
  <2>2. QED
    BY <2>1, <1>3, NoOperations
       DEF OnlyAccepted, NothingDeleted, Submitted, AcceptedOperationsSurvive, InTransit
<1>20. ASSUME NEW c \in Change, TaskSave(c) PROVE OnlyAccepted'
  <2>1. /\ UNCHANGED <<accepted, change, handler>>
        /\ \A d \in Change : task'[d].ops \in {task[d].ops, <<>>}
        /\ catalog' \in {catalog, After(task[c].loaded, task[c].ops)}
    BY <1>1, <1>20 DEF TaskSave, TaskEnds, NoTask, CommitsOnce, CommitOf, tables
  <2>2. task[c].loaded = catalog /\ catalog \in Catalog /\ task[c].ops \in Seq(Operation)
    BY <1>1, <1>2, <1>20 DEF TaskSave, OneWriter, CommitsOnce, CommitOf, DistinctOps, DataOK
  <2>3. NothingDeleted => \A f \in Field : catalog'[f] # Deleted
    <3>1. NothingDeleted => \A o \in Elements(task[c].ops) : Setting[o] # Deleted
      BY <1>3 DEF NothingDeleted
    <3>2. QED
      BY <3>1, <2>1, <2>2, <1>3, AfterIsCatalog
  <2>4. QED
    BY <2>1, <2>3, <1>3, NoOperations
       DEF OnlyAccepted, NothingDeleted, Submitted, AcceptedOperationsSurvive, InTransit
<1>21. CASE HandlerDropped \/ Restart
  <2>1. faults \in Nat /\ faults' = faults + 1
    BY <1>1, <1>21 DEF HandlerDropped, Restart, DataOK
  <2>2. QED
    BY <2>1 DEF Undisturbed
<1>22. CASE Environment
  <2>1. UNCHANGED <<accepted, change, handler, task, catalog>>
    <3>1. ASSUME NEW f \in Field, NEW p \in Policy \cup {Deleted}, EditFile(f, p) PROVE FALSE
      BY <3>1, <1>1 DEF EditFile, DataOK, Undisturbed
    <3>2. QED
      BY <3>1, <1>22 DEF Environment, OpenReview, ApproveAndRemember, tables, history
  <2>2. QED
    BY <2>1, <1>3
       DEF OnlyAccepted, NothingDeleted, Submitted, AcceptedOperationsSurvive, InTransit
<1>23. QED
  BY <1>8, <1>9, <1>10, <1>11, <1>12, <1>13, <1>14, <1>15, <1>16, <1>17, <1>18, <1>19, <1>20,
     <1>21, <1>22, ChangesSteps DEF Elsewhere, TaskStep

\* Every step keeps the invariant.
LEMMA ChangesKept == IInv /\ [Next]_vars => IInv'
<1>1. IInv /\ UNCHANGED vars => IInv'
  <2> SUFFICES ASSUME IInv, UNCHANGED vars PROVE IInv'
    OBVIOUS
  <2> USE DEF vars, tables, bounds, history
  <2>1. DataOK' /\ RowsCount' /\ SuccessorExists'
    BY DEF IInv, DataOK, RowsCount, SuccessorExists, Exists, Pending
  <2>2. HandlerHolds'
    BY DEF IInv, HandlerHolds, Unlinked, Exists, Pending
  <2>3. CommitsOnce' /\ Superseded' /\ OneWriter'
    BY DEF IInv, CommitsOnce, CommitOf, Superseded, OneWriter, Undisturbed
  <2>4. OnlyAccepted'
    BY DEF IInv, OnlyAccepted, Undisturbed, Submitted, NothingDeleted,
           AcceptedOperationsSurvive, InTransit
  <2>5. QED
    BY <2>1, <2>2, <2>3, <2>4 DEF IInv
<1>2. QED
  BY <1>1, DataKept, RowsKept, HandlerKept, CommitsKept, SupersededKept, OneWriterKept,
     AcceptedKept DEF IInv

\* It holds in every state.
LEMMA ChangesInductive == Spec => []IInv
BY ChangesInit, ChangesKept, PTL DEF Spec

\* The invariant says what the properties ask.
LEMMA ExactByInvariant == IInv => ConfirmationIsExact
<1> SUFFICES ASSUME IInv PROVE ConfirmationIsExact
  OBVIOUS
<1>1. DataOK /\ RowsCount /\ CommitsOnce /\ Superseded
  BY DEF IInv
<1>2. WrittenOnce
  BY <1>1 DEF WrittenOnce, CommitsOnce, CommitOf, DataOK
<1>3. PolicyEditSupersedes
  <2> SUFFICES ASSUME NEW c \in Change, writes[c] = 1,
                      NEW f \in ReplacedPolicies(confirmation[c].ops)
               PROVE  remembered[f].approval
                        \in {0} \cup (confirmation[c].after + 1)..MaxApprovals
    BY DEF PolicyEditSupersedes
  <2>1. /\ confirmation[c].ops \in Seq(Operation) /\ confirmation[c].after \in Nat
        /\ approvals \in Nat /\ MaxApprovals \in Nat /\ approvals <= MaxApprovals
    BY <1>1, BoundsAssumption DEF DataOK
  <2>2. f \in Field
    BY <2>1, OperationsAssumption DEF ReplacedPolicies, Elements
  <2>3. remembered[f].approval \in {0} \cup 1..approvals
    BY <2>2, <1>1 DEF DataOK, NotRemembered
  <2>4. remembered[f].approval = 0 \/ remembered[f].approval > confirmation[c].after
    BY <1>1 DEF Superseded
  <2>5. QED
    BY <2>1, <2>3, <2>4
<1>4. QED
  BY <1>2, <1>3 DEF ConfirmationIsExact

\* With it a client finds what it submitted ...
LEMMA FoundByInvariant == IInv => OperationsCanBeFound
<1> SUFFICES ASSUME IInv PROVE OperationsCanBeFound
  OBVIOUS
<1>1. DataOK /\ RowsCount /\ SuccessorExists /\ HandlerHolds /\ CommitsOnce /\ OnlyAccepted
  BY DEF IInv
<1>2. ASSUME NEW c \in Change, Exists(c)
      PROVE  /\ change[c].state \in State /\ change[c].batch \in Batch \cup Change
             /\ change[c].version \in 1..Cardinality(Operation)
             /\ change[c].confirmed \in 0..Cardinality(Operation)
             /\ Elements(change[c].ops) \subseteq Operation
             /\ change[c].base \in Catalog /\ change[c].successor \in Change \cup {None}
             /\ change[c].version = Len(change[c].ops)
             /\ Cardinality(Elements(change[c].ops)) = Len(change[c].ops)
             /\ change[c].confirmed <= change[c].version
  <2>1. Sound(change[c]) /\ change[c].state \in State
    BY <1>1, <1>2, RowsAreSound DEF Sound, Row, Exists
  <2>2. /\ change[c].ops \in DistinctOps /\ change[c].version \in Nat
        /\ change[c].confirmed \in Nat /\ change[c].batch \in Batch \cup Change
        /\ change[c].successor \in Change \cup {None}
    BY <2>1 DEF Sound, Row
  <2>3. QED
    BY <2>1, <2>2, DistinctAreCounted DEF Sound
<1>3. TypeOK
  <2>1. catalog \in Catalog
    BY <1>1 DEF DataOK
  <2>2. ASSUME NEW f \in Field
        PROVE  \/ remembered[f] = NotRemembered
               \/ /\ remembered[f].fingerprint \in Policy /\ remembered[f].policy \in Policy
                  /\ remembered[f].approval \in 1..MaxApprovals
    BY <1>1, BoundsAssumption DEF DataOK
  <2>3. \A c \in Change : Exists(c) \/ change[c] = NoRow
    BY <1>1 DEF RowsCount
  <2>4. /\ handler.pc \in {"idle", "link", "forget", "wait", "list", "prune", "successor",
                           "save"}
        /\ handler.rest \in Seq(Operation)
    BY <1>1 DEF HandlerHolds, Confirming, DistinctOps
  <2>5. \A c \in Change :
          task[c].pc \in {"none", "spawned", "loaded", "committed", "conflict", "failed"}
    BY <1>1 DEF CommitsOnce, CommitOf, Outcomes
  <2>6. QED
    BY <2>1, <2>2, <2>3, <2>4, <2>5, <1>2 DEF TypeOK
<1>4. VersionCountsOperations
  BY <1>2 DEF VersionCountsOperations
<1>5. Undisturbed /\ NothingDeleted => AcceptedOperationsSurvive
  BY <1>1 DEF OnlyAccepted
<1>6. QED
  BY <1>1, <1>3, <1>4, <1>5 DEF OperationsCanBeFound

\* ... and nobody writes over what has not been read.
LEMMA WritesByInvariant == IInv /\ [Next]_vars => (Undisturbed => ~Overwrites)
<1> SUFFICES ASSUME IInv, Next, Undisturbed, NEW c \in Change, writes'[c] # writes[c]
             PROVE  task[c].loaded = catalog
  BY DEF Overwrites, vars, history
<1>1. DataOK /\ RowsCount /\ SuccessorExists /\ HandlerHolds /\ CommitsOnce /\ OneWriter
  BY DEF IInv
<1>2. ASSUME NEW o \in Operation, Appends(o) PROVE FALSE
  BY <1>1, <1>2, SubmitAppends
<1>3. \E d \in Change : TaskSave(d)
  BY <1>2, ChangesSteps
     DEF SubmitCreatesSuccessor, LinkParent, Reject, Confirm, Begin, CreateSuccessor,
         Finish, Elsewhere, ForgetAndSpawn, TakeResult, ListCatalog, Prune, SuccessorFails,
         TaskStep, TaskLoad, HandlerDropped, Restart, Environment, OpenReview,
         EditFile, ApproveAndRemember, history
<1>4. TaskSave(c)
  BY <1>1, <1>3 DEF TaskSave, DataOK
<1>5. QED
  BY <1>1, <1>4 DEF TaskSave, OneWriter

-----------------------------------------------------------------------------
(* The stored passwords                                                    *)

\* A step of the stored passwords is one of the change sets or leaves them alone.
LEMMA PasswordsRunChanges == PasswordsSpec => Spec
<1>1. PasswordsInit => Init
  BY DEF PasswordsInit
<1>2. [PasswordsNext]_passwordsVars => [Next]_vars
  BY DEF PasswordsNext, passwordsVars, ChangesStep, CatalogStep, StoreStep, VaultStep
<1>3. QED
  BY <1>1, <1>2, PTL DEF PasswordsSpec, Spec

\* A confirmation is written to the catalog at most once, however often a handler is dropped
\* or the daemon restarted, and no permission remembered before it outlives a policy it sets.
THEOREM ConfirmationsAreExact == PasswordsSpec => []ConfirmationIsExact
BY PasswordsRunChanges, ChangesInductive, ExactByInvariant, PTL

\* A client can always find what it submitted: versions count operations, links lead on, and
\* undisturbed no accepted operation is dropped.
THEOREM OperationsAreFound == PasswordsSpec => []OperationsCanBeFound
BY PasswordsRunChanges, ChangesInductive, FoundByInvariant, PTL

\* Undisturbed, the daemon writes only over the catalog that it has read.
THEOREM NothingIsOverwritten == PasswordsSpec => CommitsOverwriteNothing
<1>1. IInv /\ [Next]_vars => [Undisturbed => ~Overwrites]_vars
  BY WritesByInvariant
<1>2. QED
  BY <1>1, PasswordsRunChanges, ChangesInductive, PTL DEF CommitsOverwriteNothing, Spec

-----------------------------------------------------------------------------
(* The catalog                                                             *)

\* The identity of a field and of the item it is in are names, its policies are policies.
LEMMA FieldsAreNamed ==
  ASSUME NEW c \in Content!CatalogType
  PROVE  /\ Content!Fields(c) \subseteq Resource
         /\ \A r \in Resource :
              /\ Content!Meta(c, r) \in Content!MetaType
              /\ Content!ItemId(c, r) \in Content!Names
              /\ Content!RecordId(c, r) \in {"source", "literal", "item", "none"} \X Content!Names
<1>1. Content!Fields(c) \subseteq Resource
  BY DEF Content!Fields
<1>2. ASSUME NEW r \in Resource PROVE Content!Meta(c, r) \in Content!MetaType
  BY DEF Content!Meta, Content!CatalogType, Content!ImportType
<1>3. ASSUME NEW r \in Resource PROVE Content!ItemId(c, r) \in Content!Names
  <2>1. Content!Meta(c, r).item \in Content!Names
    BY <1>2 DEF Content!MetaType
  <2>2. c.imports[r].locator \in Content!Names
    BY DEF Content!CatalogType, Content!ImportType, Content!Names, Content!None
  <2> QED BY <2>1, <2>2 DEF Content!ItemId, Content!Names
<1>4. ASSUME NEW r \in Resource
      PROVE  Content!RecordId(c, r) \in {"source", "literal", "item", "none"} \X Content!Names
  <2> DEFINE Records == {"source", "literal", "item", "none"} \X Content!Names
             m == Content!Meta(c, r)
  <2>1. m.item \in Content!Names /\ m.record \in Records
    BY <1>2 DEF Content!MetaType, Content!None
  <2>2. Content!Seed(c, r) \in Records
    BY DEF Content!Seed, Content!CatalogType, Content!ImportType, Content!Names, Content!None
  <2>3. <<"item", m.item>> \in Records
    BY <2>1
  <2>4. Content!Explicit(c, m.item) \subseteq Records
    BY DEF Content!Explicit, Content!CatalogType, Content!ImportType, Content!MetaType,
       Content!None
  <2> HIDE DEF Records
  <2>5. Content!RecordId(c, r) \in Records
    BY <2>1, <2>2, <2>3, <2>4 DEF Content!RecordId
  <2> QED BY <2>5 DEF Records
<1> QED BY <1>1, <1>2, <1>3, <1>4

\* The null metadata and the null reference.
LEMMA Nulls ==
  /\ Content!NoMeta \in Content!MetaType /\ Content!NoImport \in Content!ImportType
  /\ Content!NoImport.locator = "none"
  /\ "none" \notin Value \cup Locator \cup ItemPolicy \cup {Default}
BY CatalogAssumption DEF Content!Absence, Content!NoMeta, Content!NoImport, Content!MetaType,
   Content!ImportType, Content!Names, Content!Policies, Content!None

\* Writing metadata moves no value and no field.
LEMMA MetadataWritten ==
  ASSUME NEW c \in Content!CatalogType, NEW S \in SUBSET Resource,
         NEW metas \in [S -> Content!MetaType], NEW n, n = Content!WithMeta(c, metas)
  PROVE  /\ n \in Content!CatalogType
         /\ Content!HasOneHome(c) => Content!HasOneHome(n)
         /\ \A r \in Resource :
              /\ Content!Literal(n, r) <=> Content!Literal(c, r)
              /\ Content!Imported(n, r) <=> Content!Imported(c, r)
              /\ Content!Read(n, r) = Content!Read(c, r)
         /\ \A r \in Content!Fields(c) :
              Content!Meta(n, r) = IF r \in S THEN metas[r] ELSE Content!Meta(c, r)
<1> DEFINE imports(r) == IF r \in S /\ Content!Imported(c, r)
                           THEN [c.imports[r] EXCEPT !.meta = metas[r]] ELSE c.imports[r]
           literals(r) == IF r \in S /\ Content!Literal(c, r) /\ ~Content!Imported(c, r)
                            THEN metas[r] ELSE c.literals[r]
<1>1. n = [c EXCEPT !.imports = [r \in Resource |-> imports(r)],
                    !.literals = [r \in Resource |-> literals(r)]]
  BY DEF Content!WithMeta
<1>2. ASSUME NEW r \in Resource
      PROVE  /\ imports(r) \in Content!ImportType /\ literals(r) \in Content!MetaType
             /\ imports(r).locator = c.imports[r].locator
             /\ imports(r).value = c.imports[r].value
             /\ Content!Imported(c, r) =>
                  imports(r).meta = IF r \in S THEN metas[r] ELSE c.imports[r].meta
  BY DEF Content!CatalogType, Content!ImportType
<1>3. /\ n.secrets = c.secrets /\ n \in Content!CatalogType
      /\ \A r \in Resource : n.imports[r] = imports(r) /\ n.literals[r] = literals(r)
  <2>1. /\ [r \in Resource |-> imports(r)] \in [Resource -> Content!ImportType]
        /\ [r \in Resource |-> literals(r)] \in [Resource -> Content!MetaType]
    <3> HIDE DEF imports, literals
    <3> QED BY <1>2
  <2>2. /\ n.secrets = c.secrets /\ n.imports = [r \in Resource |-> imports(r)]
        /\ n.literals = [r \in Resource |-> literals(r)]
        /\ n = [secrets |-> n.secrets, literals |-> n.literals, imports |-> n.imports]
    <3> HIDE DEF imports, literals
    <3> QED BY <1>1 DEF Content!CatalogType
  <2> HIDE DEF imports, literals
  <2> QED BY <2>1, <2>2 DEF Content!CatalogType
<1>4. ASSUME NEW r \in Resource
      PROVE  /\ Content!Literal(n, r) <=> Content!Literal(c, r)
             /\ Content!Imported(n, r) <=> Content!Imported(c, r)
             /\ Content!Read(n, r) = Content!Read(c, r)
  <2> HIDE DEF imports, literals
  <2> QED BY <1>2, <1>3 DEF Content!Literal, Content!Imported, Content!Read
<1>5. ASSUME NEW r \in Content!Fields(c)
      PROVE  Content!Meta(n, r) = IF r \in S THEN metas[r] ELSE Content!Meta(c, r)
  <2>1. r \in Resource /\ (Content!Literal(c, r) \/ Content!Imported(c, r))
    BY DEF Content!Fields
  <2>2. CASE Content!Imported(c, r)
    <3> HIDE DEF imports, literals
    <3> QED BY <1>2, <1>3, <1>4, <2>1, <2>2 DEF Content!Meta
  <2>3. CASE ~Content!Imported(c, r)
    <3> HIDE DEF imports
    <3> QED BY <1>3, <1>4, <2>1, <2>3 DEF Content!Meta
  <2> QED BY <2>2, <2>3
<1>6. Content!HasOneHome(c) => Content!HasOneHome(n)
  <2> HIDE DEF imports
  <2> QED BY <1>3, <1>4 DEF Content!HasOneHome
<1> QED BY <1>3, <1>4, <1>5, <1>6

\* Removing fields leaves the others as they are.
LEMMA FieldsRemoved ==
  ASSUME NEW c \in Content!CatalogType, NEW S \in SUBSET Resource,
         NEW n, n = Content!Without(c, S)
  PROVE  /\ n \in Content!CatalogType
         /\ Content!HasOneHome(c) => Content!HasOneHome(n)
         /\ Content!Fields(n) = Content!Fields(c) \ S
         /\ \A r \in Resource \ S :
              Content!Read(n, r) = Content!Read(c, r) /\ Content!Meta(n, r) = Content!Meta(c, r)
<1> DEFINE secrets(r) == IF r \in S THEN "none" ELSE c.secrets[r]
           literals(r) == IF r \in S THEN Content!NoMeta ELSE c.literals[r]
           imports(r) == IF r \in S THEN Content!NoImport ELSE c.imports[r]
<1>1. n = [secrets |-> [r \in Resource |-> secrets(r)],
           literals |-> [r \in Resource |-> literals(r)],
           imports |-> [r \in Resource |-> imports(r)]]
  BY DEF Content!Without, Content!None
<1>2. ASSUME NEW r \in Resource
      PROVE  /\ secrets(r) \in Value \cup {"none"} /\ literals(r) \in Content!MetaType
             /\ imports(r) \in Content!ImportType
  BY Nulls DEF Content!CatalogType, Content!None
<1>3. /\ n \in Content!CatalogType
      /\ \A r \in Resource : /\ n.secrets[r] = secrets(r) /\ n.literals[r] = literals(r)
                             /\ n.imports[r] = imports(r)
  <2> HIDE DEF secrets, literals, imports
  <2> QED BY <1>1, <1>2 DEF Content!CatalogType, Content!None
<1>4. ASSUME NEW r \in Resource
      PROVE  /\ Content!Literal(n, r) <=> Content!Literal(c, r) /\ r \notin S
             /\ Content!Imported(n, r) <=> Content!Imported(c, r) /\ r \notin S
             /\ n.literals[r] # Content!NoMeta => n.literals[r] = c.literals[r] /\ r \notin S
             /\ r \notin S => /\ Content!Read(n, r) = Content!Read(c, r)
                              /\ Content!Meta(n, r) = Content!Meta(c, r)
  BY <1>3, Nulls DEF Content!Literal, Content!Imported, Content!Read, Content!Meta, Content!None
<1>5. Content!HasOneHome(c) => Content!HasOneHome(n)
  BY <1>4 DEF Content!HasOneHome
<1>6. Content!Fields(n) = Content!Fields(c) \ S
  BY <1>4 DEF Content!Fields
<1> QED BY <1>3, <1>4, <1>5, <1>6

\* A field that is renamed takes everything with it to a name that nothing has.
LEMMA FieldRenamed ==
  ASSUME NEW c \in Content!CatalogType, NEW r \in Resource, NEW q \in Resource, r # q,
         Content!HasOneHome(c), q \notin Content!Fields(c), NEW n, n = Content!Renamed(c, r, q)
  PROVE  /\ n \in Content!CatalogType /\ Content!HasOneHome(n)
         /\ Content!Fields(n) \subseteq (Content!Fields(c) \ {r}) \cup {q}
         /\ r \in Content!Fields(c) =>
              q \in Content!Fields(n) /\ Content!Read(n, q) = Content!Read(c, r)
         /\ \A p \in Resource \ {r, q} :
              /\ p \in Content!Fields(c) => p \in Content!Fields(n)
              /\ Content!Read(n, p) = Content!Read(c, p) /\ Content!Meta(n, p) = Content!Meta(c, p)
<1>1. n = [secrets |-> [c.secrets EXCEPT ![r] = "none", ![q] = c.secrets[r]],
           literals |-> [c.literals EXCEPT ![r] = Content!NoMeta, ![q] = c.literals[r]],
           imports |-> [c.imports EXCEPT ![r] = Content!NoImport, ![q] = c.imports[r]]]
  BY DEF Content!Renamed, Content!None
<1>2. /\ c.secrets \in [Resource -> Value \cup {"none"}]
      /\ c.literals \in [Resource -> Content!MetaType]
      /\ c.imports \in [Resource -> Content!ImportType]
  BY DEF Content!CatalogType, Content!None
<1>3. n \in Content!CatalogType
  BY <1>1, <1>2, Nulls DEF Content!CatalogType, Content!None
<1>4. \A p \in Resource :
        /\ n.secrets[p] = IF p = q THEN c.secrets[r] ELSE IF p = r THEN "none" ELSE c.secrets[p]
        /\ n.literals[p] = IF p = q THEN c.literals[r]
                           ELSE IF p = r THEN Content!NoMeta ELSE c.literals[p]
        /\ n.imports[p] = IF p = q THEN c.imports[r]
                          ELSE IF p = r THEN Content!NoImport ELSE c.imports[p]
  BY <1>1, <1>2
<1>5. /\ ~Content!Literal(n, r) /\ ~Content!Imported(n, r) /\ n.literals[r] = Content!NoMeta
      /\ Content!Literal(n, q) <=> Content!Literal(c, r)
      /\ Content!Imported(n, q) <=> Content!Imported(c, r)
      /\ n.literals[q] = c.literals[r] /\ Content!Read(n, q) = Content!Read(c, r)
  BY <1>4, Nulls DEF Content!Literal, Content!Imported, Content!Read, Content!None
<1>6. ASSUME NEW p \in Resource \ {r, q}
      PROVE  /\ Content!Literal(n, p) <=> Content!Literal(c, p)
             /\ Content!Imported(n, p) <=> Content!Imported(c, p)
             /\ n.literals[p] = c.literals[p]
             /\ Content!Read(n, p) = Content!Read(c, p) /\ Content!Meta(n, p) = Content!Meta(c, p)
  BY <1>4 DEF Content!Literal, Content!Imported, Content!Read, Content!Meta
<1>7. Content!HasOneHome(n)
  BY <1>5, <1>6 DEF Content!HasOneHome
<1> QED BY <1>3, <1>5, <1>6, <1>7 DEF Content!Fields

\* What an operation of a change set leaves of the catalog and says of the rest of it.
Tells(r) ==
  r \in Content!Fields(copy)' =>
    Content!Effective(Content!Meta(copy, r))' = Content!Effective(Content!Meta(copy, r))
    \/ Content!AboutPolicy(r)
Keeps ==
  /\ Content!IInv' /\ source' = source
  /\ \A r \in Content!Fields(copy) : Tells(r)
  /\ Content!Readable(copy) \subseteq Content!Readable(copy)' \/ op' \in {"delete", "refresh"}

\* An operation that writes metadata keeps what it does not write.
LEMMA MetadataKeeps ==
  ASSUME Content!IInv, NEW S \in SUBSET Content!Fields(copy),
         NEW metas \in [S -> Content!MetaType], Content!Edits(Content!WithMeta(copy, metas)),
         \A r \in S : Content!Effective(metas[r]) = Content!Effective(Content!Meta(copy, r))
                      \/ Content!AboutPolicy(r)
  PROVE  Keeps
<1> DEFINE n == Content!WithMeta(copy, metas)
<1>1. /\ copy \in Content!CatalogType /\ Content!HasOneHome(copy) /\ S \in SUBSET Resource
      /\ Content!Fields(copy) \subseteq Resource
  BY FieldsAreNamed DEF Content!IInv, Content!TypeOK, Content!OneHome
<1>2. copy' = n /\ UNCHANGED <<file, source>>
  BY DEF Content!Edits
<1>3. /\ n \in Content!CatalogType /\ Content!HasOneHome(n)
      /\ \A r \in Resource :
           /\ Content!Literal(n, r) <=> Content!Literal(copy, r)
           /\ Content!Imported(n, r) <=> Content!Imported(copy, r)
           /\ Content!Read(n, r) = Content!Read(copy, r)
      /\ \A r \in Content!Fields(copy) :
           Content!Meta(n, r) = IF r \in S THEN metas[r] ELSE Content!Meta(copy, r)
  BY <1>1, MetadataWritten
<1> HIDE DEF n
<1>4. Content!Fields(n) = Content!Fields(copy)
  BY <1>3 DEF Content!Fields
<1>5. Content!IInv'
  BY <1>2, <1>3 DEF Content!IInv, Content!TypeOK, Content!OneHome, Content!HasOneHome,
     Content!Literal, Content!Imported
<1>6. ASSUME NEW r \in Content!Fields(copy) PROVE Tells(r)
  <2>1. Content!Effective(Content!Meta(copy, r))' = Content!Effective(Content!Meta(n, r))
    BY <1>2 DEF Content!Effective, Content!Meta, Content!Imported
  <2> QED BY <1>3, <2>1 DEF Tells
<1>7. Content!Readable(copy) \subseteq Content!Readable(copy)'
  <2>1. \A r \in Content!Fields(copy) :
          r \in Content!Fields(copy)' /\ Content!Read(copy, r)' = Content!Read(copy, r)
    BY <1>1, <1>2, <1>3, <1>4
       DEF Content!Fields, Content!Read, Content!Literal, Content!Imported
  <2> QED BY <2>1 DEF Content!Readable
<1> QED BY <1>2, <1>5, <1>6, <1>7 DEF Keeps

\* An operation that removes fields keeps the others.
LEMMA RemovalKeeps ==
  ASSUME Content!IInv, NEW S \in SUBSET Resource, Content!Edits(Content!Without(copy, S)),
         \/ op' = "delete"
         \/ \A r \in S \cap Content!Fields(copy) : \E q \in Content!Fields(copy) \ S :
              Content!Read(copy, q) = Content!Read(copy, r)
  PROVE  Keeps
<1> DEFINE n == Content!Without(copy, S)
<1>1. /\ copy \in Content!CatalogType /\ Content!HasOneHome(copy)
      /\ Content!Fields(copy) \subseteq Resource
  BY FieldsAreNamed DEF Content!IInv, Content!TypeOK, Content!OneHome
<1>2. copy' = n /\ UNCHANGED <<file, source>>
  BY DEF Content!Edits
<1>3. /\ n \in Content!CatalogType /\ Content!HasOneHome(n)
      /\ Content!Fields(n) = Content!Fields(copy) \ S
      /\ \A r \in Resource \ S : /\ Content!Read(n, r) = Content!Read(copy, r)
                                 /\ Content!Meta(n, r) = Content!Meta(copy, r)
  BY <1>1, FieldsRemoved
<1> HIDE DEF n
<1>4. Content!IInv'
  BY <1>2, <1>3 DEF Content!IInv, Content!TypeOK, Content!OneHome, Content!HasOneHome,
     Content!Literal, Content!Imported
<1>5. /\ Content!Fields(copy)' = Content!Fields(copy) \ S
      /\ \A r \in Resource : Content!Read(copy, r)' = Content!Read(n, r)
  BY <1>2, <1>3 DEF Content!Fields, Content!Read, Content!Literal, Content!Imported
<1>6. ASSUME NEW r \in Content!Fields(copy) PROVE Tells(r)
  <2>1. Content!Effective(Content!Meta(copy, r))' = Content!Effective(Content!Meta(n, r))
    BY <1>2 DEF Content!Effective, Content!Meta, Content!Imported
  <2> QED BY <1>1, <1>3, <1>5, <2>1 DEF Tells
<1>7. Content!Readable(copy) \subseteq Content!Readable(copy)' \/ op' = "delete"
  <2> SUFFICES ASSUME op' # "delete", NEW r \in Content!Fields(copy)
               PROVE  \E q \in Content!Fields(copy)' :
                        Content!Read(copy, q)' = Content!Read(copy, r)
    BY DEF Content!Readable
  <2>1. \E q \in Content!Fields(copy) \ S : Content!Read(copy, q) = Content!Read(copy, r)
    OBVIOUS
  <2> QED BY <1>1, <1>3, <1>5, <2>1
<1> QED BY <1>2, <1>4, <1>6, <1>7 DEF Keeps

\* So does a rename.
LEMMA RenamingKeeps ==
  ASSUME Content!IInv, NEW r \in Resource, NEW q \in Resource, Content!RenameResource(r, q)
  PROVE  Keeps
<1> DEFINE n == Content!Renamed(copy, r, q)
<1>1. /\ copy \in Content!CatalogType /\ Content!HasOneHome(copy)
      /\ Content!Fields(copy) \subseteq Resource
  BY FieldsAreNamed DEF Content!IInv, Content!TypeOK, Content!OneHome
<1>2. /\ copy' = n /\ UNCHANGED <<file, source>> /\ r # q
      /\ r \in Content!Fields(copy) /\ q \notin Content!Fields(copy)
  BY DEF Content!RenameResource, Content!Edits
<1>3. /\ n \in Content!CatalogType /\ Content!HasOneHome(n)
      /\ Content!Fields(n) \subseteq (Content!Fields(copy) \ {r}) \cup {q}
      /\ q \in Content!Fields(n) /\ Content!Read(n, q) = Content!Read(copy, r)
      /\ \A p \in Resource \ {r, q} :
           /\ p \in Content!Fields(copy) => p \in Content!Fields(n)
           /\ Content!Read(n, p) = Content!Read(copy, p)
           /\ Content!Meta(n, p) = Content!Meta(copy, p)
  BY <1>1, <1>2, FieldRenamed
<1> HIDE DEF n
<1>4. Content!IInv'
  BY <1>2, <1>3 DEF Content!IInv, Content!TypeOK, Content!OneHome, Content!HasOneHome,
     Content!Literal, Content!Imported
<1>5. /\ Content!Fields(copy)' = Content!Fields(n)
      /\ \A p \in Resource : Content!Read(copy, p)' = Content!Read(n, p)
  BY <1>2, <1>3 DEF Content!Fields, Content!Read, Content!Literal, Content!Imported
<1>6. ASSUME NEW p \in Content!Fields(copy) PROVE Tells(p)
  <2>1. Content!Effective(Content!Meta(copy, p))' = Content!Effective(Content!Meta(n, p))
    BY <1>2 DEF Content!Effective, Content!Meta, Content!Imported
  <2>2. p \in Content!Fields(copy)' => p \in Resource \ {r, q}
    BY <1>1, <1>2, <1>3, <1>5
  <2> QED BY <1>3, <2>1, <2>2 DEF Tells
<1>7. Content!Readable(copy) \subseteq Content!Readable(copy)'
  <2> SUFFICES ASSUME NEW p \in Content!Fields(copy)
               PROVE  \E s \in Content!Fields(copy)' :
                        Content!Read(copy, s)' = Content!Read(copy, p)
    BY DEF Content!Readable
  <2>1. CASE p = r
    BY <1>3, <1>5, <2>1
  <2>2. CASE p # r
    BY <1>1, <1>2, <1>3, <1>5, <2>2
  <2> QED BY <2>1, <2>2
<1> QED BY <1>2, <1>4, <1>6, <1>7 DEF Keeps

\* Metadata written twice is what was written last.
LEMMA WrittenTwice ==
  ASSUME NEW c \in Content!CatalogType, NEW r \in Resource, NEW x \in Content!MetaType,
         NEW y \in Content!MetaType
  PROVE  Content!WithMeta(Content!WithMeta(c, [q \in {r} |-> x]), [q \in {r} |-> y])
           = Content!WithMeta(c, [q \in {r} |-> y])
<1> DEFINE n == Content!WithMeta(c, [q \in {r} |-> x])
           imports(f, q) == IF q = r /\ Content!Imported(f, q)
                              THEN [f.imports[q] EXCEPT !.meta = y] ELSE f.imports[q]
           literals(f, q) == IF q = r /\ Content!Literal(f, q) /\ ~Content!Imported(f, q)
                               THEN y ELSE f.literals[q]
           remade(f) == [f EXCEPT !.imports = [q \in Resource |-> imports(f, q)],
                                   !.literals = [q \in Resource |-> literals(f, q)]]
<1>1. \A f : Content!WithMeta(f, [q \in {r} |-> y]) = remade(f)
  BY DEF Content!WithMeta
<1>2. /\ n \in Content!CatalogType /\ n.secrets = c.secrets
      /\ \A q \in Resource :
           /\ Content!Literal(n, q) <=> Content!Literal(c, q)
           /\ Content!Imported(n, q) <=> Content!Imported(c, q)
           /\ n.imports[q] = IF q = r /\ Content!Imported(c, q)
                               THEN [c.imports[q] EXCEPT !.meta = x] ELSE c.imports[q]
           /\ n.literals[q] = IF q = r /\ Content!Literal(c, q) /\ ~Content!Imported(c, q)
                                THEN x ELSE c.literals[q]
  <2>1. [q \in {r} |-> x] \in [{r} -> Content!MetaType] /\ {r} \in SUBSET Resource
    OBVIOUS
  <2>2. /\ n \in Content!CatalogType
        /\ \A q \in Resource : /\ Content!Literal(n, q) <=> Content!Literal(c, q)
                               /\ Content!Imported(n, q) <=> Content!Imported(c, q)
    BY <2>1, MetadataWritten
  <2> QED BY <2>2 DEF Content!WithMeta, Content!CatalogType
<1> HIDE DEF n
<1>3. \A q \in Resource : imports(n, q) = imports(c, q) /\ literals(n, q) = literals(c, q)
  BY <1>2 DEF Content!CatalogType, Content!ImportType
<1> HIDE DEF imports, literals
<1>4. /\ n = [secrets |-> n.secrets, literals |-> n.literals, imports |-> n.imports]
      /\ c = [secrets |-> c.secrets, literals |-> c.literals, imports |-> c.imports]
  BY <1>2 DEF Content!CatalogType
<1>5. ASSUME NEW f \in Content!CatalogType
      PROVE  remade(f) = [secrets |-> f.secrets,
                          literals |-> [q \in Resource |-> literals(f, q)],
                          imports |-> [q \in Resource |-> imports(f, q)]]
  <2> DEFINE l == [q \in Resource |-> literals(f, q)]
             i == [q \in Resource |-> imports(f, q)]
  <2> HIDE DEF l, i
  <2>0. PICK g : g = [f EXCEPT !.imports = i, !.literals = l]
    OBVIOUS
  <2>1. /\ g.secrets = f.secrets /\ g.imports = i /\ g.literals = l
        /\ g = [secrets |-> g.secrets, literals |-> g.literals, imports |-> g.imports]
    BY <2>0 DEF Content!CatalogType
  <2>2. g = [secrets |-> f.secrets, literals |-> l, imports |-> i]
    BY <2>1
  <2> QED BY <2>0, <2>2 DEF l, i
<1>6. remade(n) = remade(c)
  <2>1. /\ [q \in Resource |-> imports(n, q)] = [q \in Resource |-> imports(c, q)]
        /\ [q \in Resource |-> literals(n, q)] = [q \in Resource |-> literals(c, q)]
    BY <1>3
  <2> HIDE DEF remade
  <2> QED BY <1>2, <1>5, <2>1
<1> HIDE DEF remade
<1> QED BY <1>1, <1>6 DEF n

\* A field that moves keeps its effective policy, whatever the new item's default.
LEMMA MovedPolicy ==
  ASSUME NEW m \in Content!MetaType, NEW d \in ItemPolicy \cup {Default}
  PROVE  /\ Content!ItemDefault(m) \in ItemPolicy \cup {Default}
         /\ Content!Effective(m) \in ItemPolicy \cup {Default}
         /\ \A p \in ItemPolicy \cup {Default, "none"} :
              /\ Content!StoreItemPolicy(m, d, p) \in Content!MetaType
              /\ Content!Effective(Content!StoreItemPolicy(m, d, p)) = IF p = "none" THEN d ELSE p
         /\ Content!CustomWhenMoved(m, d) \in ItemPolicy \cup {Default, "none"}
         /\ Content!Effective(Content!StoreItemPolicy(m, d, Content!CustomWhenMoved(m, d)))
              = Content!Effective(m)
<1>1. /\ Content!ItemDefault(m) \in ItemPolicy \cup {Default}
      /\ Content!Effective(m) \in ItemPolicy \cup {Default}
  BY DEF Content!ItemDefault, Content!Effective, Content!MetaType, Content!Policies, Content!None
<1>2. ASSUME NEW p \in ItemPolicy \cup {Default, "none"}
      PROVE  /\ Content!StoreItemPolicy(m, d, p) \in Content!MetaType
             /\ Content!Effective(Content!StoreItemPolicy(m, d, p)) = IF p = "none" THEN d ELSE p
  BY Nulls DEF Content!StoreItemPolicy, Content!Effective, Content!MetaType, Content!Policies,
     Content!None
<1>3. Content!CustomWhenMoved(m, d) = "none" => Content!Effective(m) = d
  BY <1>1, Nulls DEF Content!CustomWhenMoved, Content!None
<1>4. Content!CustomWhenMoved(m, d) \in {Content!Effective(m), "none"}
  BY DEF Content!CustomWhenMoved, Content!None
<1> QED BY <1>1, <1>2, <1>3, <1>4

\* Moving fields keeps their policies.
LEMMA AssignmentKeeps ==
  ASSUME Content!IInv, NEW S \in SUBSET Content!Fields(copy),
         NEW id \in {"source", "literal", "item", "none"} \X Content!Names,
         NEW item \in Content!Names, NEW default \in ItemPolicy \cup {Default, "none"},
         Content!Edits(Content!Assigned(copy, S, id, item, default))
  PROVE  Keeps
<1> DEFINE given(m) == IF default = "none" THEN Content!ItemDefault(m) ELSE default
           stored(m) == Content!StoreItemPolicy(m, given(m), Content!CustomWhenMoved(m, given(m)))
           new(m) == [stored(m) EXCEPT !.record = id, !.item = item]
           metas == [r \in S |-> new(Content!Meta(copy, r))]
<1>1. \A r \in S : Content!Meta(copy, r) \in Content!MetaType
  BY FieldsAreNamed DEF Content!IInv, Content!TypeOK
<1>2. ASSUME NEW m \in Content!MetaType
      PROVE  new(m) \in Content!MetaType /\ Content!Effective(new(m)) = Content!Effective(m)
  <2>1. given(m) \in ItemPolicy \cup {Default}
    BY MovedPolicy
  <2>2. stored(m) \in Content!MetaType /\ Content!Effective(stored(m)) = Content!Effective(m)
    <3> HIDE DEF given
    <3> QED BY <2>1, MovedPolicy
  <2> HIDE DEF stored
  <2> QED BY <2>2 DEF Content!MetaType, Content!Effective, Content!None
<1>3. Content!Edits(Content!WithMeta(copy, metas))
  BY DEF Content!Assigned, Content!None
<1> HIDE DEF new
<1>4. /\ metas \in [S -> Content!MetaType]
      /\ \A r \in S : Content!Effective(metas[r]) = Content!Effective(Content!Meta(copy, r))
  BY <1>1, <1>2
<1> HIDE DEF metas
<1> QED BY <1>3, <1>4, MetadataKeeps

\* Operations that write metadata: an item's, a label, a policy.
LEMMA DescriptionsKeep ==
  ASSUME Content!IInv, NEW id \in Content!Records(copy),
         \/ \E next \in Item \cup {"none"}, replace \in BOOLEAN :
              Content!UpdateItem(id, next, replace)
         \/ \E p \in ItemPolicy : Content!SetItemPolicy(id, p)
  PROVE  Keeps
<1> DEFINE S == Content!Members(copy, id)
<1>1. /\ \A r \in Resource : Content!Meta(copy, r) \in Content!MetaType
      /\ S \in SUBSET Content!Fields(copy) /\ S \subseteq Resource
      /\ id \in {"source", "literal", "item", "none"} \X Content!Names
  BY FieldsAreNamed DEF Content!IInv, Content!TypeOK, Content!Members, Content!Records
<1> HIDE DEF S
<1>2. ASSUME NEW next \in Item \cup {"none"}, NEW replace \in BOOLEAN,
             Content!UpdateItem(id, next, replace)
      PROVE  Keeps
  <2> DEFINE new(m) == [m EXCEPT !.record = id,
                          !.item = IF next # "none" THEN next ELSE IF replace THEN "none" ELSE @,
                          !.label = IF replace THEN "none" ELSE @]
             metas == [r \in S |-> new(Content!Meta(copy, r))]
  <2>1. ASSUME NEW m \in Content!MetaType
        PROVE  new(m) \in Content!MetaType /\ Content!Effective(new(m)) = Content!Effective(m)
    <3>1. PICK i, l : /\ i = IF next # "none" THEN next ELSE IF replace THEN "none" ELSE m.item
                      /\ l = IF replace THEN "none" ELSE m.label
                      /\ i \in Content!Names /\ l \in Label \cup {"none"}
      BY DEF Content!MetaType, Content!Names, Content!None
    <3>2. new(m) = [m EXCEPT !.record = id, !.item = i, !.label = l]
      BY <3>1
    <3> HIDE DEF new
    <3> QED BY <1>1, <3>1, <3>2 DEF Content!MetaType, Content!Effective, Content!None
  <2>2. Content!Edits(Content!WithMeta(copy, metas))
    BY <1>2 DEF Content!UpdateItem, Content!None, S
  <2> HIDE DEF new
  <2>3. /\ metas \in [S -> Content!MetaType]
        /\ \A r \in S : Content!Effective(metas[r]) = Content!Effective(Content!Meta(copy, r))
    BY <1>1, <2>1
  <2> HIDE DEF metas
  <2> QED BY <1>1, <2>2, <2>3, MetadataKeeps
<1>3. ASSUME NEW p \in ItemPolicy, Content!SetItemPolicy(id, p) PROVE Keeps
  <2> DEFINE custom(m) == IF Content!Inherits(m) THEN "none" ELSE Content!Effective(m)
             new(m) == Content!StoreItemPolicy(m, p, custom(m))
             metas == [r \in S |-> new(Content!Meta(copy, r))]
  <2>1. ASSUME NEW m \in Content!MetaType
        PROVE  /\ new(m) \in Content!MetaType
               /\ Content!Inherits(m) \/ Content!Effective(new(m)) = Content!Effective(m)
    <3>1. Content!Effective(m) \in ItemPolicy \cup {Default}
      BY MovedPolicy
    <3>2. custom(m) \in ItemPolicy \cup {Default, "none"}
      BY <3>1
    <3>3. new(m) \in Content!MetaType
          /\ Content!Effective(new(m)) = IF custom(m) = "none" THEN p ELSE custom(m)
      <4> HIDE DEF custom
      <4> QED BY <3>2, MovedPolicy
    <3> QED BY <3>1, <3>3, Nulls
  <2>2. Content!Edits(Content!WithMeta(copy, metas)) /\ op' = "item policy"
    BY <1>3 DEF Content!SetItemPolicy, Content!Performs, Content!None, S
  <2> HIDE DEF new
  <2>3. /\ metas \in [S -> Content!MetaType]
        /\ \A r \in S : Content!Effective(metas[r]) = Content!Effective(Content!Meta(copy, r))
                        \/ Content!AboutPolicy(r)
    BY <1>1, <2>1, <2>2 DEF Content!AboutPolicy
  <2> HIDE DEF metas
  <2> QED BY <1>1, <2>2, <2>3, MetadataKeeps
<1> QED BY <1>2, <1>3 DEF Content!None

\* The operations about one field.
LEMMA FieldOperationsKeep ==
  ASSUME Content!IInv, NEW r \in Resource,
         \/ \E label \in Label : \/ Content!RenameFieldLabel(r, label)
                                 \/ \E p \in ItemPolicy : Content!UpdateField(r, label, p)
         \/ \E p \in ItemPolicy : Content!SetFieldPolicy(r, p)
         \/ Content!InheritFieldPolicy(r)
  PROVE  Keeps
<1>1. /\ copy \in Content!CatalogType
      /\ \A q \in Resource : Content!Meta(copy, q) \in Content!MetaType
      /\ Content!Fields(copy) \subseteq Resource
  BY FieldsAreNamed DEF Content!IInv, Content!TypeOK
<1>2. ASSUME NEW m \in Content!MetaType, r \in Content!Fields(copy),
             Content!Edits(Content!WithMeta(copy, [q \in {r} |-> m])),
             op' = "policy" \/ Content!Effective(m) = Content!Effective(Content!Meta(copy, r))
      PROVE  Keeps
  <2> DEFINE metas == [q \in {r} |-> m]
  <2>1. /\ metas \in [{r} -> Content!MetaType]
        /\ \A q \in {r} : Content!Effective(metas[q]) = Content!Effective(Content!Meta(copy, q))
                          \/ Content!AboutPolicy(q)
    BY <1>2 DEF Content!AboutPolicy
  <2> HIDE DEF metas
  <2> QED BY <1>2, <2>1, MetadataKeeps DEF metas
<1>3. ASSUME NEW label \in Label, NEW m, m = [Content!Meta(copy, r) EXCEPT !.label = label]
      PROVE  /\ m \in Content!MetaType
             /\ Content!Effective(m) = Content!Effective(Content!Meta(copy, r))
  BY <1>1, <1>3 DEF Content!MetaType, Content!Effective, Content!None
<1>4. ASSUME NEW label \in Label, Content!RenameFieldLabel(r, label) PROVE Keeps
  <2> DEFINE m == [Content!Meta(copy, r) EXCEPT !.label = label]
  <2>1. /\ r \in Content!Fields(copy)
        /\ Content!Edits(Content!WithMeta(copy, [q \in {r} |-> m]))
    BY <1>4 DEF Content!RenameFieldLabel, Content!Labelled
  <2>2. /\ m \in Content!MetaType
        /\ Content!Effective(m) = Content!Effective(Content!Meta(copy, r))
    BY <1>3
  <2> HIDE DEF m
  <2> QED BY <1>2, <2>1, <2>2
<1>5. ASSUME NEW p \in ItemPolicy, Content!SetFieldPolicy(r, p) PROVE Keeps
  <2> DEFINE m == [Content!Meta(copy, r) EXCEPT !.policy = p, !.mode = "custom"]
  <2>1. /\ r \in Content!Fields(copy) /\ op' = "policy"
        /\ Content!Edits(Content!WithMeta(copy, [q \in {r} |-> m]))
    BY <1>5 DEF Content!SetFieldPolicy, Content!Custom, Content!Performs
  <2>2. m \in Content!MetaType
    BY <1>1 DEF Content!MetaType, Content!Policies, Content!None
  <2> HIDE DEF m
  <2> QED BY <1>2, <2>1, <2>2
<1>6. ASSUME NEW label \in Label, NEW p \in ItemPolicy, Content!UpdateField(r, label, p)
      PROVE  Keeps
  <2> DEFINE first == [Content!Meta(copy, r) EXCEPT !.label = label]
             once == Content!WithMeta(copy, [q \in {r} |-> first])
             m == [first EXCEPT !.policy = p, !.mode = "custom"]
  <2>1. first \in Content!MetaType
    BY <1>3
  <2>2. /\ r \in Content!Fields(copy) /\ op' = "policy"
        /\ Content!Edits(Content!Custom(once, r, p))
    BY <1>6 DEF Content!UpdateField, Content!Labelled, Content!Performs
  <2>3. m \in Content!MetaType
    <3> HIDE DEF first
    <3> QED BY <2>1 DEF Content!MetaType, Content!Policies, Content!None
  <2>4. Content!Meta(once, r) = first
    <3> DEFINE metas == [q \in {r} |-> first]
    <3>1. metas \in [{r} -> Content!MetaType] /\ metas[r] = first /\ {r} \in SUBSET Resource
      <4> HIDE DEF first
      <4> QED BY <2>1
    <3> HIDE DEF metas, first
    <3>2. Content!Meta(Content!WithMeta(copy, metas), r) = first
      BY <1>1, <2>2, <3>1, MetadataWritten
    <3> QED BY <3>2 DEF metas
  <2>5. Content!Custom(once, r, p) = Content!WithMeta(once, [q \in {r} |-> m])
    <3> HIDE DEF once, first
    <3>1. [q \in {r} |-> [Content!Meta(once, q) EXCEPT !.policy = p, !.mode = "custom"]]
            = [q \in {r} |-> m]
      BY <2>4
    <3> QED BY <3>1 DEF Content!Custom
  <2>6. Content!WithMeta(once, [q \in {r} |-> m]) = Content!WithMeta(copy, [q \in {r} |-> m])
    <3> HIDE DEF first, m
    <3> QED BY <1>1, <2>1, <2>3, WrittenTwice
  <2> HIDE DEF once, m
  <2> QED BY <1>2, <2>2, <2>3, <2>5, <2>6
<1>7. ASSUME Content!InheritFieldPolicy(r) PROVE Keeps
  <2>1. /\ r \in Content!Fields(copy) /\ op' = "policy"
        /\ \E h \in Content!Heads(copy, Content!RecordId(copy, r)) :
             Content!Edits(Content!WithMeta(copy, [q \in {r} |->
               Content!StoreItemPolicy(Content!Meta(copy, q),
                 Content!ItemDefault(Content!Meta(copy, h)), "none")]))
    BY <1>7 DEF Content!InheritFieldPolicy, Content!Performs, Content!None
  <2>2. PICK h \in Content!Heads(copy, Content!RecordId(copy, r)) :
          Content!Edits(Content!WithMeta(copy, [q \in {r} |->
            Content!StoreItemPolicy(Content!Meta(copy, q),
              Content!ItemDefault(Content!Meta(copy, h)), "none")]))
    BY <2>1
  <2> DEFINE d == Content!ItemDefault(Content!Meta(copy, h))
             m == Content!StoreItemPolicy(Content!Meta(copy, r), d, "none")
  <2>3. h \in Resource
    BY <1>1 DEF Content!Heads, Content!Members
  <2>4. d \in ItemPolicy \cup {Default}
    BY <1>1, <2>3, MovedPolicy
  <2>5. [q \in {r} |-> Content!StoreItemPolicy(Content!Meta(copy, q), d, "none")]
          = [q \in {r} |-> m]
    OBVIOUS
  <2> HIDE DEF d
  <2>6. m \in Content!MetaType
    BY <1>1, <2>4, MovedPolicy
  <2>7. Content!Edits(Content!WithMeta(copy, [q \in {r} |-> m]))
    BY <2>2, <2>5 DEF d
  <2> HIDE DEF m
  <2> QED BY <1>2, <2>1, <2>6, <2>7
<1> QED BY <1>4, <1>5, <1>6, <1>7

\* Every operation keeps what it is not about.
LEMMA OperationsKeep == ASSUME Content!IInv, Content!Operations PROVE Keeps
<1>1. /\ copy \in Content!CatalogType /\ Content!HasOneHome(copy)
      /\ Content!Fields(copy) \subseteq Resource
      /\ \A r \in Resource :
           Content!ItemDefault(Content!Meta(copy, r)) \in ItemPolicy \cup {Default}
      /\ \A r \in Resource : Content!ItemId(copy, r) \in Content!Names
      /\ Content!Records(copy) \subseteq {"source", "literal", "item", "none"} \X Content!Names
  <2>1. /\ copy \in Content!CatalogType /\ Content!HasOneHome(copy)
        /\ Default \in ItemPolicy \cup {Default}
    BY DEF Content!IInv, Content!TypeOK, Content!OneHome
  <2>2. \A r \in Resource : Content!Meta(copy, r) \in Content!MetaType
    BY <2>1, FieldsAreNamed
  <2>3. \A r \in Resource :
          Content!ItemDefault(Content!Meta(copy, r)) \in ItemPolicy \cup {Default}
    BY <2>1, <2>2, MovedPolicy
  <2> QED BY <2>1, <2>3, FieldsAreNamed DEF Content!Records
<1>2. \A id : Content!Members(copy, id) \subseteq Content!Fields(copy)
              /\ Content!Heads(copy, id) \subseteq Content!Fields(copy)
  BY DEF Content!Members, Content!Heads
<1>3. ASSUME NEW r \in Resource, NEW id \in Content!Records(copy), Content!MoveField(r, id)
      PROVE  Keeps
  <2>1. PICK h \in Content!Heads(copy, id) :
          Content!Edits(Content!Assigned(copy, {r}, id, Content!ItemId(copy, h),
                                         Content!ItemDefault(Content!Meta(copy, h))))
    BY <1>3 DEF Content!MoveField
  <2>2. h \in Resource /\ {r} \in SUBSET Content!Fields(copy)
    BY <1>1, <1>2, <1>3 DEF Content!MoveField
  <2> QED BY <1>1, <2>1, <2>2, AssignmentKeeps
<1>4. ASSUME NEW r \in Resource, NEW i \in Item, Content!MoveToNewItem(r, i) PROVE Keeps
  <2>1. /\ {r} \in SUBSET Content!Fields(copy) /\ i \in Content!Names
        /\ Content!Edits(Content!Assigned(copy, {r}, <<"item", i>>, i, "none"))
    BY <1>4 DEF Content!MoveToNewItem, Content!Names, Content!None
  <2>2. <<"item", i>> \in {"source", "literal", "item", "none"} \X Content!Names
    BY <2>1
  <2> QED BY <2>1, <2>2, AssignmentKeeps
<1>5. ASSUME NEW id \in Content!Records(copy), NEW to \in Content!Records(copy),
             Content!MergeItems(id, to)
      PROVE  Keeps
  <2>1. PICK h \in Content!Heads(copy, to) :
          Content!Edits(Content!Assigned(copy, Content!Members(copy, id), to,
                          Content!ItemId(copy, h), Content!ItemDefault(Content!Meta(copy, h))))
    BY <1>5 DEF Content!MergeItems
  <2>2. h \in Resource /\ Content!Members(copy, id) \in SUBSET Content!Fields(copy)
    BY <1>1, <1>2
  <2> QED BY <1>1, <2>1, <2>2, AssignmentKeeps
<1>6. ASSUME NEW id, Content!DeleteItem(id) PROVE Keeps
  <2>1. /\ op' = "delete" /\ Content!Members(copy, id) \in SUBSET Resource
        /\ Content!Edits(Content!Without(copy, Content!Members(copy, id)))
    BY <1>1, <1>2, <1>6 DEF Content!DeleteItem, Content!Performs
  <2> QED BY <2>1, RemovalKeeps
<1>7. ASSUME NEW r \in Resource, Content!DeleteField(r) PROVE Keeps
  <2>1. op' = "delete" /\ {r} \in SUBSET Resource /\ Content!Edits(Content!Without(copy, {r}))
    BY <1>7 DEF Content!DeleteField, Content!Performs
  <2> QED BY <2>1, RemovalKeeps
<1>8. ASSUME NEW r \in Resource, NEW q \in Resource, Content!DeleteDuplicateField(r, q)
      PROVE  Keeps
  <2>1. /\ {r} \in SUBSET Resource /\ Content!Edits(Content!Without(copy, {r}))
        /\ r \in Content!Fields(copy) /\ q \in Content!Fields(copy) \ {r}
        /\ Content!Comparable(copy, r) = Content!Comparable(copy, q)
    BY <1>8 DEF Content!DeleteDuplicateField, Content!Duplicates
  <2>2. \A f \in Content!Fields(copy) : Content!Comparable(copy, f) = Content!Read(copy, f)
    BY <1>1 DEF Content!Comparable, Content!Read, Content!HasOneHome
  <2> QED BY <2>1, <2>2, RemovalKeeps
<1>9. ASSUME NEW id, Content!RefreshItem(id) PROVE Keeps
  <2> DEFINE stale(r) == r \in Content!Members(copy, id) /\ Content!Imported(copy, r)
             new(r) == IF stale(r) THEN [copy.imports[r] EXCEPT
                                           !.value = source[copy.imports[r].locator]]
                                   ELSE copy.imports[r]
  <2>1. /\ op' = "refresh" /\ UNCHANGED <<file, source>>
        /\ copy' = [copy EXCEPT !.imports = [r \in Resource |-> new(r)]]
    <3>1. \A r \in Resource :
            stale(r) <=> r \in {q \in Content!Members(copy, id) : Content!Imported(copy, q)}
      OBVIOUS
    <3> QED BY <1>9, <3>1 DEF Content!RefreshItem, Content!Edits, Content!Performs
  <2>2. ASSUME NEW r \in Resource
        PROVE  /\ new(r) \in Content!ImportType /\ new(r).locator = copy.imports[r].locator
               /\ new(r).meta = copy.imports[r].meta
    <3>1. /\ copy.imports[r] \in Content!ImportType
          /\ source \in [Locator -> Value \cup {"none"}]
          /\ Content!Imported(copy, r) => copy.imports[r].locator \in Locator
      BY DEF Content!IInv, Content!TypeOK, Content!CatalogType, Content!ImportType,
         Content!Imported, Content!None
    <3> HIDE DEF stale
    <3>2. CASE Content!Imported(copy, r)
      BY <3>1, <3>2 DEF Content!ImportType, Content!None
    <3>3. CASE ~Content!Imported(copy, r)
      BY <3>1, <3>3 DEF stale, Content!ImportType
    <3> QED BY <3>2, <3>3
  <2> HIDE DEF new
  <2>3. /\ copy' \in Content!CatalogType
        /\ copy'.secrets = copy.secrets /\ copy'.literals = copy.literals
        /\ \A r \in Resource : copy'.imports[r] = new(r)
    BY <1>1, <2>1, <2>2 DEF Content!CatalogType
  <2>4. \A r \in Resource :
          /\ Content!Literal(copy', r) <=> Content!Literal(copy, r)
          /\ Content!Imported(copy', r) <=> Content!Imported(copy, r)
          /\ Content!Meta(copy, r)' = Content!Meta(copy, r)
    BY <2>2, <2>3 DEF Content!Literal, Content!Imported, Content!Meta
  <2>5. Content!IInv'
    BY <1>1, <2>1, <2>3, <2>4 DEF Content!IInv, Content!TypeOK, Content!OneHome,
       Content!HasOneHome, Content!Literal, Content!Imported
  <2>6. ASSUME NEW r \in Content!Fields(copy) PROVE Tells(r)
    BY <1>1, <2>4 DEF Tells, Content!Effective
  <2> QED BY <2>1, <2>5, <2>6 DEF Keeps
<1>10. ASSUME NEW id \in Content!Records(copy),
              \/ \E next \in Item \cup {"none"}, replace \in BOOLEAN :
                   Content!UpdateItem(id, next, replace)
              \/ \E p \in ItemPolicy : Content!SetItemPolicy(id, p)
       PROVE  Keeps
  BY <1>10, DescriptionsKeep
<1> QED BY <1>3, <1>4, <1>5, <1>6, <1>7, <1>8, <1>9, <1>10, FieldOperationsKeep, RenamingKeeps
     DEF Content!Operations, Content!None

\* A reference that is written to a name has it alone.
LEMMA ReferenceWritten ==
  ASSUME NEW c \in Content!CatalogType, Content!HasOneHome(c), NEW r \in Resource,
         NEW i \in Content!ImportType, i.locator # "none" => ~Content!Literal(c, r),
         NEW n, n = [c EXCEPT !.imports[r] = i]
  PROVE  n \in Content!CatalogType /\ Content!HasOneHome(n)
<1>1. /\ n \in Content!CatalogType /\ n.secrets = c.secrets /\ n.literals = c.literals
      /\ \A q \in Resource : n.imports[q] = IF q = r THEN i ELSE c.imports[q]
  BY DEF Content!CatalogType
<1> QED BY <1>1 DEF Content!HasOneHome, Content!Literal, Content!Imported, Content!None

\* What a command of the desktop writes is a catalog in which every password has one home.
LEMMA CommandsKeep ==
  ASSUME Content!IInv, Content!Commands PROVE Content!IInv' /\ ~editing'
<1> DEFINE Fine(n) == n \in Content!CatalogType /\ Content!HasOneHome(n)
<1>1. /\ Fine(file) /\ Fine(copy) /\ source \in [Locator -> Value \cup {"none"}]
  BY DEF Content!IInv, Content!TypeOK, Content!OneHome, Content!None
<1>2. /\ \A r \in Resource : file.imports[r] \in Content!ImportType
      /\ \A r \in Resource : Content!Imported(file, r) => file.imports[r].locator \in Locator
  BY <1>1 DEF Content!CatalogType, Content!ImportType, Content!Imported, Content!None
<1>3. \A g \in Content!Given : Content!MetaOf(g) \in Content!MetaType
  BY Nulls DEF Content!Given, Content!MetaOf, Content!NoMeta, Content!MetaType, Content!Names,
     Content!Policies, Content!None
<1>4. ASSUME NEW n, Content!Command, Content!Writes(n), Fine(n)
      PROVE  Content!IInv' /\ ~editing'
  <2>1. file' = n /\ copy' = n /\ source' = source /\ ~editing'
    BY <1>4 DEF Content!Command, Content!Writes
  <2> QED BY <1>1, <1>4, <2>1 DEF Content!IInv, Content!TypeOK, Content!OneHome,
       Content!HasOneHome, Content!Literal, Content!Imported, Content!None
<1>5. ASSUME NEW r \in Resource, NEW v \in Value, NEW g \in Content!Given,
             Content!Upsert(r, v, g)
      PROVE  Content!IInv' /\ ~editing'
  <2> DEFINE n == Content!Upserted(file, r, v, Content!MetaOf(g))
  <2>1. PICK m : m = Content!MetaOf(g)
    OBVIOUS
  <2>2. n = [file EXCEPT !.secrets[r] = v, !.literals[r] = m, !.imports[r] = Content!NoImport]
    BY <2>1 DEF Content!Upserted
  <2>3. /\ n \in Content!CatalogType
        /\ \A q \in Resource : /\ n.secrets[q] = IF q = r THEN v ELSE file.secrets[q]
                               /\ n.literals[q] = IF q = r THEN m ELSE file.literals[q]
                               /\ n.imports[q] = IF q = r THEN Content!NoImport
                                                 ELSE file.imports[q]
    <3> HIDE DEF n
    <3> QED BY <1>1, <1>3, <2>1, <2>2, Nulls DEF Content!CatalogType
  <2> HIDE DEF n
  <2>4. Fine(n)
    BY <1>1, <2>3, Nulls DEF Content!HasOneHome, Content!Literal, Content!Imported, Content!None
  <2> QED BY <1>4, <1>5, <2>4 DEF Content!Upsert, n
<1>6. ASSUME NEW r \in Resource, NEW i \in Content!ImportType, NEW c, Fine(c),
             i.locator # "none" => ~Content!Literal(c, r), Content!Command,
             Content!Writes([c EXCEPT !.imports[r] = i])
      PROVE  Content!IInv' /\ ~editing'
  <2>1. Fine([c EXCEPT !.imports[r] = i])
    BY <1>6, ReferenceWritten
  <2> HIDE DEF Fine
  <2> QED BY <1>4, <1>6, <2>1
<1>7. ASSUME NEW r \in Resource, NEW l \in Locator, NEW v \in Value \cup {"none"},
             NEW g \in Content!Given, Content!Command,
             Content!Writes(Content!Referenced(file, r, l, v, Content!MetaOf(g)))
      PROVE  Content!IInv' /\ ~editing'
  <2> DEFINE c == Content!Without(file, {r})
             i == [locator |-> l, value |-> v, meta |-> Content!MetaOf(g)]
  <2>1. i \in Content!ImportType
    BY <1>3 DEF Content!ImportType, Content!None
  <2>2. Fine(c) /\ ~Content!Literal(c, r)
    <3>1. Fine(c) /\ Content!Fields(c) = Content!Fields(file) \ {r}
      BY <1>1, FieldsRemoved
    <3> HIDE DEF c
    <3> QED BY <3>1 DEF Content!Fields
  <2>3. Content!Writes([c EXCEPT !.imports[r] = i])
    BY <1>7 DEF Content!Referenced
  <2> HIDE DEF c, i, Fine
  <2> QED BY <1>6, <1>7, <2>1, <2>2, <2>3
<1>8. ASSUME NEW r \in Resource, NEW i, Content!Imported(file, r), Content!Command,
             \/ \E m \in Content!MetaType : i = [file.imports[r] EXCEPT !.meta = m]
             \/ \E v \in Value \cup {"none"} : i = [file.imports[r] EXCEPT !.value = v],
             Content!Writes([file EXCEPT !.imports[r] = i])
      PROVE  Content!IInv' /\ ~editing'
  <2>1. i \in Content!ImportType
    BY <1>2, <1>8 DEF Content!ImportType, Content!None
  <2>2. ~Content!Literal(file, r)
    BY <1>1, <1>8 DEF Content!HasOneHome
  <2> HIDE DEF Fine
  <2> QED BY <1>1, <1>6, <1>8, <2>1, <2>2
<1>9. ASSUME NEW r \in Resource, NEW g \in Content!Given, Content!UpdateReference(r, g)
      PROVE  Content!IInv' /\ ~editing'
  <2> DEFINE i == [file.imports[r] EXCEPT !.meta = Content!MetaOf(g)]
  <2>1. /\ Content!Imported(file, r) /\ Content!Command
        /\ Content!Writes([file EXCEPT !.imports[r] = i])
    BY <1>9 DEF Content!UpdateReference
  <2>2. \E m \in Content!MetaType : i = [file.imports[r] EXCEPT !.meta = m]
    BY <1>3
  <2> HIDE DEF i
  <2> QED BY <1>8, <2>1, <2>2
<1>10. ASSUME NEW r \in Resource,
              Content!Refresh(r) \/ (\E v \in Value : Content!Snapshot(r, v))
       PROVE  Content!IInv' /\ ~editing'
  <2>1. PICK v \in Value \cup {"none"} :
          /\ Content!Imported(file, r) /\ Content!Command
          /\ Content!Writes([file EXCEPT !.imports[r].value = v])
    BY <1>1, <1>2, <1>10 DEF Content!Refresh, Content!Snapshot
  <2> DEFINE i == [file.imports[r] EXCEPT !.value = v]
  <2>2. Content!Writes([file EXCEPT !.imports[r] = i])
    BY <2>1
  <2>3. \E w \in Value \cup {"none"} : i = [file.imports[r] EXCEPT !.value = w]
    OBVIOUS
  <2> HIDE DEF i
  <2> QED BY <1>8, <2>1, <2>2, <2>3
<1>11. ASSUME NEW S \in SUBSET Resource, Content!Delete(S) PROVE Content!IInv' /\ ~editing'
  <2>1. Fine(Content!Without(file, S))
    BY <1>1, FieldsRemoved
  <2> QED BY <1>4, <1>11, <2>1 DEF Content!Delete
<1>12. ASSUME NEW r \in Resource, NEW q \in Resource, Content!RenameEntry(r, q)
       PROVE  Content!IInv' /\ ~editing'
  <2>1. r # q /\ q \notin Content!Fields(file)
    BY <1>12 DEF Content!RenameEntry, Content!Known
  <2>2. Fine(Content!Renamed(file, r, q))
    BY <1>1, <2>1, FieldRenamed
  <2> QED BY <1>4, <1>12, <2>2 DEF Content!RenameEntry
<1>13. ASSUME NEW l \in Locator, NEW v \in Value \cup {"none"}, Content!SourceChanges(l, v)
       PROVE  Content!IInv' /\ ~editing'
  <2>1. /\ UNCHANGED <<file, copy>> /\ ~editing'
        /\ source' \in [Locator -> Value \cup {"none"}]
    BY <1>1, <1>13 DEF Content!SourceChanges, Content!Command
  <2> QED BY <1>1, <2>1 DEF Content!IInv, Content!TypeOK, Content!OneHome,
       Content!HasOneHome, Content!Literal, Content!Imported, Content!None
<1>14. ASSUME NEW r \in Resource, NEW l \in Locator, NEW g \in Content!Given,
              Content!Import(r, l, g) \/ Content!Register(r, l, g)
       PROVE  Content!IInv' /\ ~editing'
  <2>1. \E v \in Value \cup {"none"} :
          /\ Content!Command
          /\ Content!Writes(Content!Referenced(file, r, l, v, Content!MetaOf(g)))
    BY <1>1, <1>14 DEF Content!Import, Content!Register, Content!None
  <2> QED BY <1>7, <2>1
<1> QED BY <1>5, <1>9, <1>10, <1>11, <1>12, <1>13, <1>14 DEF Content!Commands, Content!None

\* Every step of the catalog keeps the invariant, and a step that edits keeps the rest.
LEMMA CatalogSteps ==
  ASSUME Content!IInv, [Content!Next]_(Content!vars)
  PROVE  Content!IInv' /\ (Keeps \/ ~editing' \/ UNCHANGED Content!vars)
<1>1. CASE Content!Operations
  BY <1>1, OperationsKeep DEF Keeps
<1>2. CASE Content!Commands
  BY <1>2, CommandsKeep
<1>3. CASE Content!Commit \/ Content!Abandon
  <2>1. /\ ~editing' /\ source' = source
        /\ file' \in {file, copy} /\ copy' \in {file, copy}
    BY <1>3 DEF Content!Commit, Content!Abandon
  <2> QED BY <2>1 DEF Content!IInv, Content!TypeOK, Content!OneHome, Content!HasOneHome,
       Content!Literal, Content!Imported
<1>4. CASE UNCHANGED Content!vars
  BY <1>4 DEF Content!IInv, Content!TypeOK, Content!OneHome, Content!HasOneHome,
     Content!Literal, Content!Imported, Content!vars
<1> QED BY <1>1, <1>2, <1>3, <1>4 DEF Content!Next

\* The stored passwords run the catalog.
LEMMA PasswordsRunCatalog == PasswordsSpec => Content!Spec /\ []Content!IInv
<1>1. PasswordsInit => Content!Init
  BY DEF PasswordsInit
<1>2. Content!Init => Content!IInv
  <2> SUFFICES ASSUME Content!Init PROVE Content!IInv
    OBVIOUS
  <2>1. file \in Content!CatalogType /\ Content!HasOneHome(file)
    BY Nulls DEF Content!Init, Content!CatalogType, Content!HasOneHome, Content!Literal,
       Content!Imported, Content!None
  <2>2. copy = file /\ source \in [Locator -> Value \cup {Content!None}]
    BY DEF Content!Init
  <2> QED BY <2>1, <2>2 DEF Content!IInv, Content!TypeOK, Content!OneHome
<1>3. [PasswordsNext]_passwordsVars => [Content!Next]_(Content!vars)
  BY DEF PasswordsNext, passwordsVars, ChangesStep, CatalogStep, StoreStep, VaultStep,
     catalogVars, Content!vars
<1>4. Content!IInv /\ [Content!Next]_(Content!vars) => Content!IInv'
  BY CatalogSteps
<1> QED BY <1>1, <1>2, <1>3, <1>4, PTL DEF PasswordsSpec, Content!Spec

\* A password has one home, in the catalog and in the copy that a change set edits, whatever
\* commands and operations there were.
THEOREM PasswordsHaveOneHome == PasswordsSpec => []OneHome
<1>1. Content!IInv => OneHome
  BY DEF Content!IInv, OneHome
<1> QED BY <1>1, PasswordsRunCatalog, PTL

\* An operation changes no exposure policy and loses no value that it is not about.
THEOREM EditsAreContained == PasswordsSpec => EditsKeepTheRest
<1>1. Content!IInv /\ [Content!Next]_(Content!vars) =>
        [Content!KeepsPolicies]_(Content!vars) /\ [Content!KeepsSecrets]_(Content!vars)
  BY CatalogSteps DEF Keeps, Tells, Content!KeepsPolicies, Content!KeepsSecrets
<1> QED BY <1>1, PasswordsRunCatalog, PTL
     DEF EditsKeepTheRest, Content!PolicyKept, Content!SecretsSurvive, Content!Spec

-----------------------------------------------------------------------------
(* The files of a local vault                                              *)

\* A key that was drawn stays among the drawn ones, and the last one is one of them.
LEMMA KeysDrawn ==
  ASSUME NEW s \in Seq(Key)
  PROVE  /\ Vault!ToSet(s) \subseteq Key
         /\ s # <<>> => Vault!Last(s) \in Vault!ToSet(s)
         /\ \A k \in Key : /\ Append(s, k) \in Seq(Key)
                           /\ Vault!ToSet(Append(s, k)) = Vault!ToSet(s) \cup {k}
<1>1. Vault!ToSet(s) \subseteq Key
  BY DEF Vault!ToSet
<1>2. s # <<>> => Vault!Last(s) \in Vault!ToSet(s)
  <2>1. s # <<>> => Len(s) \in DOMAIN s
    BY EmptySeq
  <2> QED BY <2>1 DEF Vault!ToSet, Vault!Last
<1>3. ASSUME NEW k \in Key
      PROVE  /\ Append(s, k) \in Seq(Key)
             /\ Vault!ToSet(Append(s, k)) = Vault!ToSet(s) \cup {k}
  <2> DEFINE t == Append(s, k)
  <2>1. t \in Seq(Key) /\ DOMAIN t = DOMAIN s \cup {Len(s) + 1} /\ t[Len(s) + 1] = k
    OBVIOUS
  <2>2. \A i \in DOMAIN s : t[i] = s[i]
    OBVIOUS
  <2> HIDE DEF t
  <2>3. {t[i] : i \in DOMAIN t} = {s[i] : i \in DOMAIN s} \cup {k}
    BY <2>1, <2>2
  <2> QED BY <2>1, <2>3 DEF Vault!ToSet, t
<1> QED BY <1>1, <1>2, <1>3

\* The file that is not there and the command that does not run.
LEMMA NoFiles ==
  /\ Vault!NoFile \in Vault!File /\ Vault!NoFile.key = Vault!NoKey /\ Vault!NoFile.items = {}
  /\ Vault!Idle.kind = "none" /\ Vault!Idle.pc = "idle" /\ Vault!Idle.key = Vault!NoKey
  /\ Vault!Idle.staging = Vault!NoFile /\ Vault!Idle.backup = Vault!NoFile
  /\ Vault!Idle.fresh = FALSE
  /\ Vault!NoKey = "none" /\ Vault!Idle \in Vault!CommandType
BY DEF Vault!NoFile, Vault!File, Vault!NoKey, Vault!Idle, Vault!CommandType

\* A step that leaves for each readable file one with all that was saved in it keeps what was
\* saved readable.
LEMMA StaysRecoverable ==
  ASSUME Vault!SavedIsRecoverable, saved' = saved,
         \A f \in {database} \cup backups \cup trash :
           f.key \in Vault!Keys /\ f.items \cap saved # {} =>
             \E g \in ({database} \cup backups \cup trash)' :
               f.items \cap saved \subseteq g.items /\ g.key \in Vault!Keys'
  PROVE  Vault!SavedIsRecoverable'
<1> SUFFICES ASSUME NEW i \in saved
             PROVE  \E g \in ({database} \cup backups \cup trash)' :
                      i \in g.items /\ g.key \in Vault!Keys'
  BY DEF Vault!SavedIsRecoverable, Vault!Copies
<1>1. PICK f \in {database} \cup backups \cup trash : i \in f.items /\ f.key \in Vault!Keys
  BY DEF Vault!SavedIsRecoverable, Vault!Copies
<1>2. PICK g \in ({database} \cup backups \cup trash)' :
        f.items \cap saved \subseteq g.items /\ g.key \in Vault!Keys'
  BY <1>1
<1> QED BY <1>1, <1>2

\* A file that holds something has a key that was drawn.
LEMMA HoldersHaveKeys ==
  ASSUME Vault!IInv, VaultAssumption,
         NEW f \in {database} \cup backups \cup trash, f.items # {} \/ f # Vault!NoFile
  PROVE  f.key \in Vault!ToSet(issued) /\ f.key \in Key /\ f.key # Vault!NoKey
<1>1. f.key \in Vault!ToSet(issued)
  BY NoFiles DEF Vault!IInv, Vault!KeysAreDrawn
<1>2. Vault!ToSet(issued) \subseteq Key
  BY KeysDrawn DEF Vault!IInv, Vault!TypeOK
<1> QED BY <1>1, <1>2 DEF VaultAssumption, Vault!Drawn

\* A write begins with the key of the vault, or with one that no file has yet.
LEMMA WriteBegins ==
  ASSUME Vault!IInv, VaultAssumption, Vault!BeginWrite
  PROVE  /\ issued' \in Seq(Key) /\ Vault!ToSet(issued) \subseteq Vault!ToSet(issued')
         /\ \E kind \in {"create", "persist"}, k \in Key, items \in SUBSET Credential :
              /\ command' = [kind |-> kind, pc |-> "staged", key |-> k,
                             fresh |-> database = Vault!NoFile,
                             staging |-> [key |-> k, items |-> items], backup |-> Vault!NoFile]
              /\ k \in Vault!ToSet(issued')
              /\ items \cap saved \subseteq database.items
              /\ \/ /\ database = Vault!NoFile /\ unlock = Vault!NoKey
                    /\ k \notin Vault!ToSet(issued)
                 \/ /\ database # Vault!NoFile /\ unlock = k /\ database.key = k
                    /\ kind = "persist" /\ database.items \subseteq items
<1>1. PICK kind \in {"create", "persist"}, k \in Key \cup {Foreign}, i \in Credential \ saved :
        /\ kind = "create" => database = Vault!NoFile
        /\ Vault!UnlockSecret(k)
        /\ database # Vault!NoFile => database.key = k
        /\ command' = [kind |-> kind, pc |-> "staged", key |-> k,
                       fresh |-> database = Vault!NoFile,
                       staging |-> [key |-> k, items |-> IF kind = "create" THEN {}
                                                         ELSE database.items \cup {i}],
                       backup |-> Vault!NoFile]
  BY DEF Vault!BeginWrite
<1> DEFINE items == IF kind = "create" THEN {} ELSE database.items \cup {i}
<1>2. /\ items \in SUBSET Credential /\ items \cap saved \subseteq database.items
      /\ kind = "persist" => database.items \subseteq items
  BY DEF Vault!IInv, Vault!TypeOK, Vault!File
<1>3. command' = [kind |-> kind, pc |-> "staged", key |-> k, fresh |-> database = Vault!NoFile,
                  staging |-> [key |-> k, items |-> items], backup |-> Vault!NoFile]
  BY <1>1
<1> HIDE DEF items
<1>4. issued \in Seq(Key)
  BY DEF Vault!IInv, Vault!TypeOK
<1>5. CASE database = Vault!NoFile
  <2>1. k \in Key /\ unlock = Vault!NoKey /\ k \notin Vault!ToSet(issued)
    BY <1>1, <1>5, VaultAssumption DEF Vault!UnlockSecret
  <2>2. issued' = Append(issued, k)
    BY <1>1, <1>5 DEF Vault!UnlockSecret
  <2>3. /\ issued' \in Seq(Key) /\ Vault!ToSet(issued) \subseteq Vault!ToSet(issued')
        /\ k \in Vault!ToSet(issued')
    BY <1>4, <2>1, <2>2, KeysDrawn
  <2> QED BY <1>2, <1>3, <1>5, <2>1, <2>3
<1>6. CASE database # Vault!NoFile
  <2>1. unlock = k /\ database.key = k /\ issued' = issued /\ kind = "persist"
    BY <1>1, <1>6 DEF Vault!UnlockSecret
  <2>2. k \in Key /\ k \in Vault!ToSet(issued)
    BY <1>6, <2>1, HoldersHaveKeys
  <2> QED BY <1>2, <1>3, <1>4, <1>6, <2>1, <2>2
<1> QED BY <1>5, <1>6

\* Every step of a vault keeps the types.
LEMMA VaultTyped ==
  ASSUME Vault!IInv, VaultAssumption, Careful, MaxMishaps \in Nat, Vault!Next
  PROVE  Vault!TypeOK'
<1> USE NoFiles
      DEF Vault!IInv, Vault!TypeOK, Vault!CommandType,
          Vault!Writing, Vault!At, Vault!Goes, Vault!Ends, Vault!Mishap, Vault!files
<1>1. CASE Vault!BeginWrite
  <2>1. UNCHANGED <<database, unlock, backups, trash, trashKeys, mishaps>>
    BY <1>1 DEF Vault!BeginWrite
  <2>2. PICK kind \in {"create", "persist"}, k \in Key, items \in SUBSET Credential :
          command' = [kind |-> kind, pc |-> "staged", key |-> k,
                      fresh |-> database = Vault!NoFile,
                      staging |-> [key |-> k, items |-> items], backup |-> Vault!NoFile]
    BY <1>1, WriteBegins
  <2>3. issued' \in Seq(Key)
    BY <1>1, WriteBegins
  <2>4. [key |-> k, items |-> items] \in Vault!File
    BY DEF Vault!File
  <2>5. command' \in Vault!CommandType /\ command'.kind # "none"
    BY <2>2, <2>4
  <2> QED BY <2>1, <2>3, <2>5
<1>2. CASE Vault!MoveAside
  BY <1>2 DEF Vault!MoveAside
<1>3. CASE Vault!MoveIn
  BY <1>3 DEF Vault!MoveIn
<1>4. CASE Vault!MoveInFails
  BY <1>4 DEF Vault!MoveInFails
<1>5. CASE Vault!WriteUnlock
  BY <1>5 DEF Vault!WriteUnlock
<1>6. CASE Vault!Register
  BY <1>6 DEF Vault!Register
<1>7. CASE Vault!WriteFails
  BY <1>7 DEF Vault!WriteFails
<1>8. CASE Vault!RemoveUncommitted
  BY <1>8 DEF Vault!RemoveUncommitted
<1>9. CASE Vault!Restore
  BY <1>9 DEF Vault!Restore, Vault!Restored
<1>10. CASE Vault!RestoreFails
  BY <1>10 DEF Vault!RestoreFails
<1>11. CASE Vault!Finalize
  BY <1>11 DEF Vault!Finalize
<1>12. CASE Vault!BeginDelete
  BY <1>12 DEF Vault!BeginDelete, Vault!MayDelete
<1>13. CASE Vault!TrashUnlock
  BY <1>13 DEF Vault!TrashUnlock
<1>14. CASE Vault!TrashUnlockFails
  BY <1>14 DEF Vault!TrashUnlockFails
<1>15. CASE Vault!DeleteReferences
  BY <1>15 DEF Vault!DeleteReferences
<1>16. CASE Vault!DeleteReferencesFails
  BY <1>16 DEF Vault!DeleteReferencesFails
<1>17. CASE Vault!Install
  BY <1>17, KeysDrawn DEF Vault!Install, Vault!MayInstall
<1>18. CASE Vault!Crash
  BY <1>18 DEF Vault!Crash
<1> QED BY <1>1, <1>2, <1>3, <1>4, <1>5, <1>6, <1>7, <1>8, <1>9, <1>10, <1>11, <1>12, <1>13, <1>14,
             <1>15, <1>16, <1>17, <1>18 DEF Vault!Next

\* No step leaves a file whose key was not drawn.
LEMMA VaultKeysDrawn ==
  ASSUME Vault!IInv, VaultAssumption, Careful, MaxMishaps \in Nat, Vault!Next
  PROVE  Vault!KeysAreDrawn'
<1> USE NoFiles
      DEF Vault!IInv, Vault!TypeOK, Vault!CommandType, Vault!KeysAreDrawn, Vault!Writes,
        Vault!FreshWrite,
          Vault!Rewrite, Vault!Deletes,
          Vault!Writing, Vault!At, Vault!Goes, Vault!Ends, Vault!Mishap, Vault!files
<1>1. CASE Vault!BeginWrite
  BY <1>1, WriteBegins DEF Vault!BeginWrite
<1>2. CASE Vault!MoveAside
  BY <1>2 DEF Vault!MoveAside
<1>3. CASE Vault!MoveIn
  BY <1>3 DEF Vault!MoveIn
<1>4. CASE Vault!MoveInFails
  BY <1>4 DEF Vault!MoveInFails
<1>5. CASE Vault!WriteUnlock
  BY <1>5 DEF Vault!WriteUnlock
<1>6. CASE Vault!Register
  BY <1>6 DEF Vault!Register
<1>7. CASE Vault!WriteFails
  BY <1>7 DEF Vault!WriteFails
<1>8. CASE Vault!RemoveUncommitted
  BY <1>8 DEF Vault!RemoveUncommitted
<1>9. CASE Vault!Restore
  BY <1>9 DEF Vault!Restore, Vault!Restored
<1>10. CASE Vault!RestoreFails
  BY <1>10 DEF Vault!RestoreFails
<1>11. CASE Vault!Finalize
  BY <1>11 DEF Vault!Finalize
<1>12. CASE Vault!BeginDelete
  BY <1>12 DEF Vault!BeginDelete, Vault!MayDelete
<1>13. CASE Vault!TrashUnlock
  BY <1>13 DEF Vault!TrashUnlock
<1>14. CASE Vault!TrashUnlockFails
  BY <1>14 DEF Vault!TrashUnlockFails
<1>15. CASE Vault!DeleteReferences
  BY <1>15 DEF Vault!DeleteReferences
<1>16. CASE Vault!DeleteReferencesFails
  BY <1>16 DEF Vault!DeleteReferencesFails
<1>17. CASE Vault!Install
  BY <1>17 DEF Vault!Install, Vault!MayInstall
<1>18. CASE Vault!Crash
  BY <1>18 DEF Vault!Crash
<1> QED BY <1>1, <1>2, <1>3, <1>4, <1>5, <1>6, <1>7, <1>8, <1>9, <1>10, <1>11, <1>12, <1>13, <1>14,
             <1>15, <1>16, <1>17, <1>18 DEF Vault!Next

\* A write keeps to its plan: the step it is at says which files there are.
LEMMA VaultWrites ==
  ASSUME Vault!IInv, VaultAssumption, Careful, MaxMishaps \in Nat, Vault!Next
  PROVE  Vault!Writes'
<1> USE NoFiles, HoldersHaveKeys
      DEF Vault!IInv, Vault!TypeOK, Vault!CommandType, Vault!Writes, Vault!FreshWrite,
        Vault!Rewrite,
          Vault!Writing, Vault!At, Vault!Goes, Vault!Ends, Vault!Mishap, Vault!files
<1>1. CASE Vault!BeginWrite
  <2>1. UNCHANGED <<database, unlock, backups, trash, saved>>
    BY <1>1 DEF Vault!BeginWrite
  <2>2. PICK kind \in {"create", "persist"}, k \in Key, items \in SUBSET Credential :
          /\ command' = [kind |-> kind, pc |-> "staged", key |-> k,
                         fresh |-> database = Vault!NoFile,
                         staging |-> [key |-> k, items |-> items], backup |-> Vault!NoFile]
          /\ k \in Vault!ToSet(issued')
          /\ items \cap saved \subseteq database.items
          /\ \/ /\ database = Vault!NoFile /\ unlock = Vault!NoKey
                /\ k \notin Vault!ToSet(issued)
             \/ /\ database # Vault!NoFile /\ unlock = k /\ database.key = k
                /\ kind = "persist" /\ database.items \subseteq items
    BY <1>1, WriteBegins
  <2>3. \A f \in backups \cup trash : f.key = k => k \in Vault!ToSet(issued)
    BY <2>2, VaultAssumption DEF Vault!KeysAreDrawn, Vault!Drawn
  <2>4. CASE database = Vault!NoFile
    BY <2>1, <2>2, <2>3, <2>4
  <2>5. CASE database # Vault!NoFile
    BY <2>1, <2>2, <2>5
  <2> QED BY <2>4, <2>5
<1>2. CASE Vault!MoveAside
  <2>1. command.kind \in {"create", "persist"} /\ command.pc = "staged"
    BY <1>2 DEF Vault!MoveAside
  <2>2. CASE command.fresh
    <3>1. UNCHANGED <<database, backups, unlock, trash, saved, issued>>
      BY <1>2, <2>2 DEF Vault!MoveAside
    <3>2. command' = [command EXCEPT !.pc = "aside"]
      BY <1>2, <2>2 DEF Vault!MoveAside
    <3> QED BY <2>1, <2>2, <3>1, <3>2
  <2>3. CASE ~command.fresh
    <3>1. /\ UNCHANGED <<unlock, saved, issued>>
          /\ database' = Vault!NoFile /\ backups' = backups \cup {database}
      BY <1>2, <2>3 DEF Vault!MoveAside
    <3>2. command' = [command EXCEPT !.pc = "aside", !.backup = database]
      BY <1>2, <2>3 DEF Vault!MoveAside
    <3> QED BY <2>1, <2>3, <3>1, <3>2
  <2> QED BY <2>2, <2>3
<1>3. CASE Vault!MoveIn
  BY <1>3 DEF Vault!MoveIn
<1>4. CASE Vault!MoveInFails
  BY <1>4 DEF Vault!MoveInFails
<1>5. CASE Vault!WriteUnlock
  BY <1>5 DEF Vault!WriteUnlock
<1>6. CASE Vault!Register
  BY <1>6 DEF Vault!Register
<1>7. CASE Vault!WriteFails
  BY <1>7 DEF Vault!WriteFails
<1>8. CASE Vault!RemoveUncommitted
  BY <1>8 DEF Vault!RemoveUncommitted
<1>9. CASE Vault!Restore
  BY <1>9 DEF Vault!Restore, Vault!Restored
<1>10. CASE Vault!RestoreFails
  BY <1>10 DEF Vault!RestoreFails
<1>11. CASE Vault!Finalize
  BY <1>11 DEF Vault!Finalize
<1>12. CASE Vault!BeginDelete
  BY <1>12 DEF Vault!BeginDelete, Vault!MayDelete
<1>13. CASE Vault!TrashUnlock
  BY <1>13 DEF Vault!TrashUnlock
<1>14. CASE Vault!TrashUnlockFails
  BY <1>14 DEF Vault!TrashUnlockFails
<1>15. CASE Vault!DeleteReferences
  BY <1>15 DEF Vault!DeleteReferences
<1>16. CASE Vault!DeleteReferencesFails
  BY <1>16 DEF Vault!DeleteReferencesFails
<1>17. CASE Vault!Install
  BY <1>17 DEF Vault!Install, Vault!MayInstall
<1>18. CASE Vault!Crash
  BY <1>18 DEF Vault!Crash
<1> QED BY <1>1, <1>2, <1>3, <1>4, <1>5, <1>6, <1>7, <1>8, <1>9, <1>10, <1>11, <1>12, <1>13, <1>14,
             <1>15, <1>16, <1>17, <1>18 DEF Vault!Next

\* So does a deletion.
LEMMA VaultDeletes ==
  ASSUME Vault!IInv, VaultAssumption, Careful, MaxMishaps \in Nat, Vault!Next
  PROVE  Vault!Deletes'
<1> USE NoFiles, HoldersHaveKeys
      DEF Vault!IInv, Vault!TypeOK, Vault!CommandType, Vault!Deletes,
          Vault!Writing, Vault!At, Vault!Goes, Vault!Ends, Vault!Mishap, Vault!files
<1>1. CASE Vault!BeginWrite
  BY <1>1 DEF Vault!BeginWrite, Vault!UnlockSecret
<1>2. CASE Vault!MoveAside
  BY <1>2 DEF Vault!MoveAside
<1>3. CASE Vault!MoveIn
  BY <1>3 DEF Vault!MoveIn
<1>4. CASE Vault!MoveInFails
  BY <1>4 DEF Vault!MoveInFails
<1>5. CASE Vault!WriteUnlock
  BY <1>5 DEF Vault!WriteUnlock
<1>6. CASE Vault!Register
  BY <1>6 DEF Vault!Register
<1>7. CASE Vault!WriteFails
  BY <1>7 DEF Vault!WriteFails
<1>8. CASE Vault!RemoveUncommitted
  BY <1>8 DEF Vault!RemoveUncommitted
<1>9. CASE Vault!Restore
  BY <1>9 DEF Vault!Restore, Vault!Restored
<1>10. CASE Vault!RestoreFails
  BY <1>10 DEF Vault!RestoreFails
<1>11. CASE Vault!Finalize
  BY <1>11 DEF Vault!Finalize
<1>12. CASE Vault!BeginDelete
  BY <1>12 DEF Vault!BeginDelete, Vault!MayDelete
<1>13. CASE Vault!TrashUnlock
  BY <1>13 DEF Vault!TrashUnlock
<1>14. CASE Vault!TrashUnlockFails
  BY <1>14 DEF Vault!TrashUnlockFails
<1>15. CASE Vault!DeleteReferences
  BY <1>15 DEF Vault!DeleteReferences
<1>16. CASE Vault!DeleteReferencesFails
  BY <1>16 DEF Vault!DeleteReferencesFails
<1>17. CASE Vault!Install
  BY <1>17 DEF Vault!Install, Vault!MayInstall
<1>18. CASE Vault!Crash
  BY <1>18 DEF Vault!Crash
<1> QED BY <1>1, <1>2, <1>3, <1>4, <1>5, <1>6, <1>7, <1>8, <1>9, <1>10, <1>11, <1>12, <1>13, <1>14,
             <1>15, <1>16, <1>17, <1>18 DEF Vault!Next

\* Without a mishap the references stay true, and every file stays with its key.
LEMMA VaultStaysWhole ==
  ASSUME Vault!IInv, VaultAssumption, Careful, MaxMishaps \in Nat, Vault!Next
  PROVE  Vault!Whole'
<1> USE NoFiles, HoldersHaveKeys
      DEF Vault!IInv, Vault!TypeOK, Vault!CommandType, Vault!Whole, Vault!Writes, Vault!FreshWrite,
          Vault!Rewrite, Vault!Deletes,
          Vault!Writing, Vault!At, Vault!Goes, Vault!Ends, Vault!Mishap, Vault!files
<1>1. CASE Vault!BeginWrite
  BY <1>1 DEF Vault!BeginWrite, Vault!UnlockSecret
<1>2. CASE Vault!MoveAside
  BY <1>2 DEF Vault!MoveAside
<1>3. CASE Vault!MoveIn
  BY <1>3 DEF Vault!MoveIn
<1>4. CASE Vault!MoveInFails
  BY <1>4 DEF Vault!MoveInFails
<1>5. CASE Vault!WriteUnlock
  BY <1>5 DEF Vault!WriteUnlock
<1>6. CASE Vault!Register
  BY <1>6 DEF Vault!Register
<1>7. CASE Vault!WriteFails
  BY <1>7 DEF Vault!WriteFails
<1>8. CASE Vault!RemoveUncommitted
  BY <1>8 DEF Vault!RemoveUncommitted
<1>9. CASE Vault!Restore
  BY <1>9 DEF Vault!Restore, Vault!Restored
<1>10. CASE Vault!RestoreFails
  BY <1>10 DEF Vault!RestoreFails
<1>11. CASE Vault!Finalize
  BY <1>11 DEF Vault!Finalize
<1>12. CASE Vault!BeginDelete
  BY <1>12 DEF Vault!BeginDelete, Vault!MayDelete
<1>13. CASE Vault!TrashUnlock
  BY <1>13 DEF Vault!TrashUnlock
<1>14. CASE Vault!TrashUnlockFails
  BY <1>14 DEF Vault!TrashUnlockFails
<1>15. CASE Vault!DeleteReferences
  BY <1>15 DEF Vault!DeleteReferences
<1>16. CASE Vault!DeleteReferencesFails
  BY <1>16 DEF Vault!DeleteReferencesFails
<1>17. CASE Vault!Install
  BY <1>17 DEF Vault!Install, Vault!MayInstall
<1>18. CASE Vault!Crash
  BY <1>18 DEF Vault!Crash
<1> QED BY <1>1, <1>2, <1>3, <1>4, <1>5, <1>6, <1>7, <1>8, <1>9, <1>10, <1>11, <1>12, <1>13, <1>14,
             <1>15, <1>16, <1>17, <1>18 DEF Vault!Next

\* Whatever was saved stays readable.
LEMMA VaultRecoverable ==
  ASSUME Vault!IInv, VaultAssumption, Careful, MaxMishaps \in Nat, Vault!Next
  PROVE  Vault!SavedIsRecoverable'
<1> USE NoFiles, HoldersHaveKeys, StaysRecoverable
      DEF Vault!IInv, Vault!TypeOK, Vault!CommandType, Vault!Keys, Vault!Writes, Vault!FreshWrite,
          Vault!Rewrite, Vault!Deletes,
          Vault!Writing, Vault!At, Vault!Goes, Vault!Ends, Vault!Mishap, Vault!files
<1>1. CASE Vault!BeginWrite
  BY <1>1 DEF Vault!BeginWrite, Vault!UnlockSecret
<1>2. CASE Vault!MoveAside
  BY <1>2 DEF Vault!MoveAside
<1>3. CASE Vault!MoveIn
  BY <1>3 DEF Vault!MoveIn
<1>4. CASE Vault!MoveInFails
  BY <1>4 DEF Vault!MoveInFails
<1>5. CASE Vault!WriteUnlock
  BY <1>5 DEF Vault!WriteUnlock
<1>6. CASE Vault!Register
  <2>1. /\ database' = database /\ unlock' = unlock
        /\ saved' = saved \cup command.staging.items
        /\ UNCHANGED <<backups, trash, trashKeys>>
    BY <1>6 DEF Vault!Register
  <2>2. database = command.staging /\ unlock = database.key
    BY <1>6 DEF Vault!Register
  <2>3. ASSUME NEW i \in saved \cup command.staging.items
        PROVE  \E f \in Vault!Copies(i) : f.key \in Vault!Keys
    BY <2>2 DEF Vault!SavedIsRecoverable, Vault!Copies
  <2> QED BY <2>1, <2>3 DEF Vault!SavedIsRecoverable, Vault!Copies
<1>7. CASE Vault!WriteFails
  BY <1>7 DEF Vault!WriteFails
<1>8. CASE Vault!RemoveUncommitted
  BY <1>8 DEF Vault!RemoveUncommitted
<1>9. CASE Vault!Restore
  BY <1>9 DEF Vault!Restore, Vault!Restored
<1>10. CASE Vault!RestoreFails
  BY <1>10 DEF Vault!RestoreFails
<1>11. CASE Vault!Finalize
  BY <1>11 DEF Vault!Finalize
<1>12. CASE Vault!BeginDelete
  BY <1>12 DEF Vault!BeginDelete, Vault!MayDelete
<1>13. CASE Vault!TrashUnlock
  BY <1>13 DEF Vault!TrashUnlock
<1>14. CASE Vault!TrashUnlockFails
  BY <1>14 DEF Vault!TrashUnlockFails
<1>15. CASE Vault!DeleteReferences
  BY <1>15 DEF Vault!DeleteReferences
<1>16. CASE Vault!DeleteReferencesFails
  BY <1>16 DEF Vault!DeleteReferencesFails
<1>17. CASE Vault!Install
  BY <1>17 DEF Vault!Install, Vault!MayInstall
<1>18. CASE Vault!Crash
  BY <1>18 DEF Vault!Crash
<1> QED BY <1>1, <1>2, <1>3, <1>4, <1>5, <1>6, <1>7, <1>8, <1>9, <1>10, <1>11, <1>12, <1>13, <1>14,
             <1>15, <1>16, <1>17, <1>18 DEF Vault!Next

\* The stored passwords run the files of the vault.
LEMMA PasswordsRunVault ==
  ASSUME Careful, MaxMishaps \in Nat
  PROVE  PasswordsSpec => []Vault!IInv
<1>1. PasswordsInit => Vault!Init
  BY DEF PasswordsInit
<1>2. Vault!Init => Vault!IInv
  <2> SUFFICES ASSUME Vault!Init PROVE Vault!IInv
    OBVIOUS
  <2> USE NoFiles DEF Vault!Init
  <2>1. Vault!TypeOK
    BY EmptySeq DEF Vault!TypeOK
  <2>2. Vault!KeysAreDrawn /\ Vault!Writes /\ Vault!Deletes
    BY DEF Vault!KeysAreDrawn, Vault!Writes, Vault!Deletes
  <2>3. Vault!Whole /\ Vault!SavedIsRecoverable
    BY DEF Vault!Whole, Vault!SavedIsRecoverable
  <2> QED BY <2>1, <2>2, <2>3 DEF Vault!IInv
<1>3. [PasswordsNext]_passwordsVars => [Vault!Next]_(Vault!vars)
  BY DEF PasswordsNext, passwordsVars, ChangesStep, CatalogStep, StoreStep, VaultStep,
     fileVars, Vault!vars, Vault!files
<1>4. Vault!IInv /\ Vault!Next => Vault!IInv'
  BY VaultTyped, VaultKeysDrawn, VaultWrites, VaultDeletes, VaultStaysWhole, VaultRecoverable,
     VaultAssumption DEF Vault!IInv
<1>5. Vault!IInv /\ UNCHANGED Vault!vars => Vault!IInv'
  BY DEF Vault!IInv, Vault!vars, Vault!files, Vault!TypeOK, Vault!KeysAreDrawn, Vault!Writes,
     Vault!FreshWrite, Vault!Rewrite, Vault!Deletes, Vault!Whole, Vault!At,
     Vault!SavedIsRecoverable, Vault!Copies, Vault!Keys
<1> QED BY <1>1, <1>2, <1>3, <1>4, <1>5, PTL DEF PasswordsSpec

-----------------------------------------------------------------------------
(* Drafts and their values                                                 *)

\* A step of one command, about secret d, after which the command is r.
Touches(j, d, r) ==
  /\ job' = [job EXCEPT ![j] = r] /\ Values!Typed(r)
  /\ Values!InWork(job[j]) => job[j].draft = d
  /\ Values!InWork(r) => r.draft = d
  /\ disturbed \subseteq disturbed' /\ backup \subseteq backup'
  /\ \A e \in Draft \ {d} :
       /\ draft'[e] = draft[e] /\ current'[e] = current[e] /\ written'[e] = written[e]
       /\ e \notin disturbed' =>
            references'[e] = references[e] /\ \A p \in Values!Place : store'[p][e] = store[p][e]

\* The command that does not run, the vault and the catalog with nothing in them.
LEMMA NoJob ==
  /\ Values!Empty \in Values!Vault /\ \A d \in Draft : Values!Empty[d] = Values!Gone
  /\ Values!Nothing \in Values!Index
  /\ \A d \in Draft, p \in Values!Place : Values!Nothing[d][p] = Values!Absent
  /\ Values!Idle \in Values!JobType /\ Values!Typed(Values!Idle)
  /\ Values!Idle.pc = "idle" /\ Values!Idle.io = "none" /\ Values!Idle.kind = "none"
  /\ Values!Idle.draft = "none"
  /\ Values!Idle.to = "none" /\ Values!Idle.from = "none" /\ Values!Idle.value = Values!Gone
  /\ Values!Idle.copy = Values!Empty /\ Values!Idle.old = Values!Empty
  /\ Values!Idle.read = Values!Nothing /\ Values!Idle.saved = Values!Nothing
<1>1. Values!Empty \in Values!Vault /\ Values!Nothing \in Values!Index
  BY DEF Values!Empty, Values!Vault, Values!Nothing, Values!Index
<1>2. Values!Idle \in Values!JobType
  BY <1>1 DEF Values!Idle, Values!JobType, Values!Stages
<1> QED BY <1>1, <1>2 DEF Values!Idle, Values!Typed, Values!Empty, Values!Nothing

\* What the stages of a command are, by its kind.
LEMMA JobStages ==
  ASSUME NEW o, Values!Typed(o)
  PROVE  /\ o \in Values!JobType
         /\ o.pc = "idle" => o = Values!Idle
         /\ o.pc # "idle" => /\ o.kind \in {"confirm", "update", "migrate"}
                             /\ o.draft \in Draft /\ o.to \in Values!Place
         /\ o.kind = "none" => o.pc = "idle"
         /\ o.kind = "confirm" => /\ o.pc \in {"replace", "confirm", "place", "register",
                                               "rollback", "report"}
                                  /\ o.value \in Value
         /\ o.kind = "update" => /\ o.pc \in {"place", "snapshot", "verify", "restore",
                                              "rollback", "report"}
                                 /\ o.value \in Value /\ o.to \in Local
         /\ o.kind = "migrate" => o.pc \in {"place", "register", "annotate", "verify",
                                            "rollback", "remove", "uncatalog", "report"}
         /\ o.io # "none" => Values!InVault(o) \/ Values!InCatalog(o)
<1>1. CASE o.pc = "idle"
  BY <1>1, NoJob DEF Values!Typed
<1>2. CASE o.pc # "idle"
  BY <1>2 DEF Values!Typed, Values!Stages
<1> QED BY <1>1, <1>2

\* Only the command that makes a step changes.
LEMMA OneMoves ==
  ASSUME Values!TypeOK, NEW j \in Job, NEW d \in Draft, NEW r, Touches(j, d, r)
  PROVE  /\ job'[j] = r /\ \A k \in Job \ {j} : job'[k] = job[k]
         /\ job' \in [Job -> Values!JobType] /\ \A k \in Job : Values!Typed(job'[k])
BY DEF Touches, Values!TypeOK, Values!Typed

\* A command that does not work on a secret, before its step or after it.
LEMMA OtherWork ==
  ASSUME Values!TypeOK, NEW j \in Job, NEW r, job' = [job EXCEPT ![j] = r], NEW e,
         ~Values!WorksOn(job[j], e), ~Values!WorksOn(r, e)
  PROVE  \A k \in Job : /\ Values!WorksOn(job'[k], e) <=> Values!WorksOn(job[k], e)
                        /\ Values!WorksOn(job[k], e) => k # j /\ job'[k] = job[k]
BY DEF Values!TypeOK

\* What could be read of a secret can be read where nothing of it changed.
LEMMA ReadsKept ==
  ASSUME NEW e \in Draft, NEW P, backup \subseteq backup', references'[e] = references[e],
         \A p \in P : store'[p][e] = store[p][e]
  PROVE  \A v : Values!Reads(P, e, v) => Values!Reads(P, e, v)'
BY DEF Values!Reads, Values!Read, Values!Reading

\* The commands that work on another secret know what they knew.
LEMMA OthersKnow ==
  ASSUME NEW e \in Draft, backup \subseteq backup', references'[e] = references[e],
         \A p \in Values!Place : store'[p][e] = store[p][e], current'[e] = current[e],
         NEW o, Values!Typed(o), o.draft = e, o.pc # "idle", Values!Good(o)
  PROVE  Values!Good(o)'
<1>1. CASE o.kind = "confirm"
  BY <1>1 DEF Values!Good, Values!Saves, Values!Typed
<1>2. CASE o.kind = "update"
  <2>1. Values!Returns(o) => Values!Returns(o)'
    BY DEF Values!Returns
  <2> QED BY <1>2, <2>1 DEF Values!Good, Values!Updates, Values!Typed, Values!Beside
<1>3. CASE o.kind = "migrate"
  <2>1. Values!Holds(Values!Place \ {o.to}, e) => Values!Holds(Values!Place \ {o.to}, e)'
    BY ReadsKept DEF Values!Holds
  <2>2. o.from \in Values!Place \cup {"none"}
    BY DEF Values!Typed, Values!JobType
  <2> QED BY <1>3, <2>1, <2>2 DEF Values!Good, Values!Migrates, Values!Read
<1> QED BY <1>1, <1>2, <1>3 DEF Values!Typed, Values!Stages

\* Its step leaves the secret alone, if nothing of it changes.
LEMMA OthersKept ==
  ASSUME Values!TypeOK, NEW j \in Job, NEW r, job' = [job EXCEPT ![j] = r], NEW e \in Draft,
         ~Values!WorksOn(job[j], e), ~Values!WorksOn(r, e), Values!Kept(e),
         backup \subseteq backup', references'[e] = references[e], current'[e] = current[e],
         \A p \in Values!Place : store'[p][e] = store[p][e]
  PROVE  Values!Kept(e)'
<1>1. /\ backup \subseteq backup' /\ references'[e] = references[e] /\ current'[e] = current[e]
      /\ \A p \in Values!Place : store'[p][e] = store[p][e]
  OBVIOUS
<1>2. \A k \in Job : /\ Values!WorksOn(job'[k], e) <=> Values!WorksOn(job[k], e)
                     /\ Values!WorksOn(job[k], e) => job'[k] = job[k]
  BY OtherWork
<1>3. ASSUME NEW k \in Job, Values!WorksOn(job'[k], e) PROVE Values!Good(job[k])'
  <2>1. Values!Good(job[k]) /\ Values!Typed(job[k]) /\ job[k].draft = e /\ job[k].pc # "idle"
    BY <1>2, <1>3 DEF Values!Kept, Values!TypeOK, Values!WorksOn, Values!InWork
  <2>2. PICK o : o = job[k] /\ o = job'[k]
    BY <1>2, <1>3
  <2>3. Values!Good(o)'
    BY <1>1, <2>1, <2>2, OthersKnow
  <2> QED BY <2>2, <2>3
<1>4. \A v : Values!Reads(Values!Place, e, v) => Values!Reads(Values!Place, e, v)'
  BY <1>1, ReadsKept
<1>5. \A k \in Job : Values!Changes(job[k], e) => Values!WorksOn(job[k], e)
  BY JobStages DEF Values!Changes, Values!WorksOn, Values!InWork, Values!TypeOK
<1>6. ASSUME NEW k \in Job, Values!Changes(job[k], e), Values!Reads(Values!Place, e, job[k].value)
      PROVE  Values!Changes(job'[k], e) /\ Values!Reads(Values!Place, e, job[k].value)'
  <2>1. job'[k] = job[k]
    BY <1>2, <1>5, <1>6
  <2>2. PICK v : v = job[k].value /\ v = job'[k].value
    BY <2>1
  <2>3. Values!Reads(Values!Place, e, v)'
    BY <1>4, <1>6, <2>2
  <2> QED BY <1>6, <2>1, <2>2, <2>3
<1>7. Values!Holds(Values!Place, e) => Values!Holds(Values!Place, e)'
  BY <1>1, <1>4 DEF Values!Holds
<1>8. current'[e] # {} =>
        \/ Values!Holds(Values!Place, e)'
        \/ \E k \in Job : Values!Changes(job'[k], e) /\ Values!Reads(Values!Place, e, job[k].value)'
  BY <1>1, <1>6, <1>7 DEF Values!Kept
<1> QED BY <1>2, <1>3, <1>8 DEF Values!Kept

LEMMA OthersSettled ==
  ASSUME Values!TypeOK, NEW j \in Job, NEW r, job' = [job EXCEPT ![j] = r], NEW e \in Draft,
         ~Values!WorksOn(job[j], e), ~Values!WorksOn(r, e), Values!Settled(e),
         draft'[e] = draft[e], current'[e] = current[e], written'[e] = written[e]
  PROVE  Values!Settled(e)'
<1>1. draft'[e] = draft[e] /\ current'[e] = current[e] /\ written'[e] = written[e]
  OBVIOUS
<1>2. \A k \in Job : /\ Values!WorksOn(job'[k], e) <=> Values!WorksOn(job[k], e)
                     /\ Values!WorksOn(job[k], e) => job'[k] = job[k]
  BY OtherWork
<1>3. \A k \in Job : Values!Takes(job'[k], e) <=> Values!Takes(job[k], e)
  BY <1>2 DEF Values!Takes
<1> QED BY <1>1, <1>2, <1>3 DEF Values!Settled, Values!Ended, Values!Takes

\* Nobody but j works on a secret.
Alone(j, d) == \A k \in Job \ {j} : ~Values!WorksOn(job[k], d)

\* So it is with a secret that is not disturbed; and only one confirmation has a draft.
LEMMA OneWorks ==
  ASSUME Values!TypeOK, NEW d \in Draft, NEW j \in Job, Values!WorksOn(job[j], d)
  PROVE  /\ Values!Kept(d) => Alone(j, d) /\ Values!Good(job[j])
         /\ Values!Kept(d) /\ current[d] # {} =>
              \/ Values!Holds(Values!Place, d)
              \/ Values!Changes(job[j], d) /\ Values!Reads(Values!Place, d, job[j].value)
         /\ Values!Settled(d) =>
              /\ job[j].kind # "confirm" => Values!Ended(d)
              /\ job[j].kind = "confirm" =>
                          /\ draft[d] = "committing" /\ current[d] = {}
                          /\ written[d] = IF job[j].pc = "place" THEN {} ELSE {job[j].to}
                          /\ Alone(j, d)
<1>1. Values!Kept(d) => Alone(j, d) /\ Values!Good(job[j])
  BY DEF Values!Kept, Alone
<1>2. ASSUME NEW k \in Job, Values!Changes(job[k], d) PROVE Values!WorksOn(job[k], d)
  BY <1>2, JobStages DEF Values!Changes, Values!WorksOn, Values!InWork, Values!TypeOK
<1> QED BY <1>1, <1>2 DEF Values!Kept, Values!Settled, Values!Takes, Values!Ended, Alone

\* What a command about an undisturbed secret has to know after its step.
LEMMA OwnKept ==
  ASSUME Values!TypeOK, NEW j \in Job, NEW d \in Draft, NEW r, Touches(j, d, r), Alone(j, d),
         Values!WorksOn(r, d) => Values!Good(r)',
         current'[d] # {} =>
           \/ Values!Holds(Values!Place, d)'
           \/ Values!Changes(r, d) /\ Values!Reads(Values!Place, d, r.value)'
  PROVE  Values!Kept(d)'
<1>1. job'[j] = r /\ \A k \in Job \ {j} : job'[k] = job[k]
  BY OneMoves
<1>2. \A k \in Job : Values!WorksOn(job'[k], d) => k = j
  BY <1>1 DEF Alone
<1>3. ASSUME NEW k \in Job, Values!WorksOn(job'[k], d) PROVE Values!Good(job[k])'
  BY <1>1, <1>2, <1>3
<1>4. Values!Changes(r, d) /\ Values!Reads(Values!Place, d, r.value)' =>
        \E k \in Job : Values!Changes(job'[k], d) /\ Values!Reads(Values!Place, d, job[k].value)'
  BY <1>1
<1> QED BY <1>2, <1>3, <1>4 DEF Values!Kept

\* The ledger after a step of a change or a migration.
LEMMA LaterSettled ==
  ASSUME Values!TypeOK, NEW j \in Job, NEW d \in Draft, NEW r, Touches(j, d, r), Values!Settled(d),
         Values!Ended(d),
         draft'[d] = draft[d], written'[d] = written[d], Values!WorksOn(r, d) => r.kind # "confirm"
  PROVE  Values!Settled(d)'
<1>1. job'[j] = r /\ \A k \in Job \ {j} : job'[k] = job[k]
  BY OneMoves
<1>2. \A k \in Job : ~Values!Takes(job[k], d)
  BY DEF Values!Settled, Values!Ended
<1>3. \A k \in Job : ~Values!Takes(job'[k], d)
  BY <1>1, <1>2 DEF Values!Takes
<1> QED BY <1>3 DEF Values!Settled, Values!Ended

\* ... of the confirmation that has the draft.
LEMMA SavingSettled ==
  ASSUME Values!TypeOK, NEW j \in Job, NEW d \in Draft, NEW r, Touches(j, d, r), Values!Settled(d),
         Alone(j, d),
         \/ /\ Values!Takes(r, d) /\ draft'[d] = "committing" /\ current'[d] = {}
            /\ written'[d] = IF r.pc = "place" THEN {} ELSE {r.to}
         \/ ~Values!WorksOn(r, d) /\ draft'[d] = "pending" /\ current'[d] = {} /\ written'[d] = {}
         \/ ~Values!WorksOn(r, d) /\ draft'[d] = "committed" /\ \E p : written'[d] = {p}
  PROVE  Values!Settled(d)'
<1>1. job'[j] = r /\ \A k \in Job \ {j} : job'[k] = job[k]
  BY OneMoves
<1>2. \A k \in Job : Values!WorksOn(job'[k], d) => k = j
  BY <1>1 DEF Alone
<1> QED BY <1>1, <1>2 DEF Values!Settled, Values!Takes, Values!Ended

\* The files after a step.
LEMMA Tidied ==
  ASSUME Values!TypeOK, Values!FilesAreWhole, NEW j \in Job, NEW r, job' = [job EXCEPT ![j] = r],
         emptied' => \/ references' = Values!Nothing
                     \/ Values!Rewrites(r)
                     \/ emptied /\ references' = references /\ ~Values!Rewrites(job[j]),
         \A p \in aside' : Values!Moves(r, p) \/ (p \in aside /\ ~Values!Moves(job[j], p))
  PROVE  Values!FilesAreWhole'
<1>1. job'[j] = r /\ \A k \in Job \ {j} : job'[k] = job[k]
  BY DEF Values!TypeOK
<1>2. emptied' => references' = Values!Nothing \/ \E k \in Job : Values!Rewrites(job'[k])
  BY <1>1 DEF Values!FilesAreWhole
<1>3. \A p \in aside' : \E k \in Job : Values!Moves(job'[k], p)
  BY <1>1 DEF Values!FilesAreWhole
<1>4. Values!Nothing' = Values!Nothing
  BY DEF Values!Nothing
<1> QED BY <1>2, <1>3, <1>4 DEF Values!FilesAreWhole, Values!Rewrites, Values!InCatalog,
   Values!Moves, Values!InVault

\* A step of command j about secret d that leaves all well.
Done(j, d, r) ==
  /\ Touches(j, d, r) /\ Values!TypeOK' /\ Values!FilesAreWhole' /\ Values!Settled(d)'
  /\ d \notin disturbed' => Values!Kept(d)'

LEMMA DoneIsWell ==
  ASSUME Values!IInv, NEW j \in Job, NEW d \in Draft, NEW r, Done(j, d, r)
  PROVE  Values!IInv'
<1>1. /\ Values!TypeOK /\ disturbed \subseteq disturbed' /\ backup \subseteq backup'
      /\ job' = [job EXCEPT ![j] = r]
  BY DEF Values!IInv, Done, Touches
<1>2. ASSUME NEW e \in Draft \ {d}
      PROVE  /\ ~Values!WorksOn(job[j], e) /\ ~Values!WorksOn(r, e)
             /\ draft'[e] = draft[e] /\ current'[e] = current[e] /\ written'[e] = written[e]
             /\ e \notin disturbed' =>
                  references'[e] = references[e]
                  /\ \A p \in Values!Place : store'[p][e] = store[p][e]
  BY DEF Done, Touches, Values!WorksOn
<1>3. ASSUME NEW e \in Draft PROVE Values!Settled(e)'
  <2>1. CASE e = d
    BY <2>1 DEF Done
  <2>2. CASE e # d
    BY <1>1, <1>2, <2>2, OthersSettled DEF Values!IInv
  <2> QED BY <2>1, <2>2
<1>4. ASSUME NEW e \in Draft \ disturbed' PROVE Values!Kept(e)'
  <2>1. CASE e = d
    BY <1>4, <2>1 DEF Done
  <2>2. CASE e # d
    <3>1. Values!Kept(e) /\ e \notin disturbed'
      BY <1>1, <1>4 DEF Values!IInv
    <3> QED BY <1>1, <1>2, <2>2, <3>1, OthersKept
  <2> QED BY <2>1, <2>2
<1> QED BY <1>3, <1>4 DEF Values!IInv, Done

\* What a command knows depends on the files alone.
LEMMA SameKnowledge ==
  ASSUME NEW r, Values!Typed(r), r.pc # "idle", Values!Good(r),
         UNCHANGED <<store, backup, references, current>>
  PROVE  Values!Good(r)'
<1>1. r.draft \in Draft
  BY JobStages
<1> QED BY <1>1, OthersKnow

LEMMA SameReads ==
  ASSUME NEW d, UNCHANGED <<store, backup, references, current>>
  PROVE  /\ \A P, v : Values!Reads(P, d, v)' <=> Values!Reads(P, d, v)
         /\ \A P : Values!Holds(P, d)' <=> Values!Holds(P, d)
BY DEF Values!Holds, Values!Reads, Values!Read, Values!Reading

\* The types after a step of one command.
LEMMA TypeKept ==
  ASSUME Values!TypeOK, NEW j \in Job, NEW d \in Draft, NEW r, Touches(j, d, r),
         draft' \in [Draft -> {"none", "pending", "committing", "committed", "lost"}],
         content' \in Values!Vault, \A e \in Draft : draft'[e] = "pending" => content'[e] \in Value,
         store' \in [Values!Place -> Values!Vault], aside' \subseteq Local,
         backup' \subseteq Draft \X (Value \cup {Values!Gone}),
         references' \in Values!Index, emptied' \in BOOLEAN,
         current' \in [Draft -> SUBSET Value], written' \in [Draft -> SUBSET Values!Place],
         disturbed' \subseteq Draft
  PROVE  Values!TypeOK'
<1>1. job' \in [Job -> Values!JobType] /\ \A k \in Job : Values!Typed(job'[k])
  BY OneMoves
<1>2. Values!JobType' = Values!JobType /\ Values!Vault' = Values!Vault
      /\ Values!Index' = Values!Index
  BY DEF Values!JobType, Values!Vault, Values!Index, Values!Stages, Values!Place
<1>3. \A k \in Job : Values!Typed(job[k])'
  BY <1>1 DEF Values!Typed, Values!Idle, Values!Empty, Values!Nothing, Values!InVault,
     Values!InCatalog, Values!Stages, Values!JobType, Values!Vault, Values!Index, Values!Place
<1> QED BY <1>1, <1>2, <1>3 DEF Values!TypeOK

\* What a step about secret d leaves of the files, and what it may not reach.
Leaves(d) ==
  /\ store' \in [Values!Place -> Values!Vault] /\ aside' \subseteq Local /\ Values!FilesAreWhole'
  /\ backup \subseteq backup' /\ backup' \subseteq Draft \X (Value \cup {Values!Gone})
  /\ references' \in Values!Index /\ emptied' \in BOOLEAN /\ current' \in [Draft -> SUBSET Value]
  /\ disturbed \subseteq disturbed' /\ disturbed' \subseteq Draft
  /\ \A e \in Draft \ {d} :
       /\ current'[e] = current[e]
       /\ e \notin disturbed' =>
            references'[e] = references[e] /\ \A p \in Values!Place : store'[p][e] = store[p][e]

\* What a person may find of the secret a command works on.
Found(r) ==
  current[r.draft] # {} =>
    \/ Values!Holds(Values!Place, r.draft)
    \/ Values!Changes(r, r.draft) /\ Values!Reads(Values!Place, r.draft, r.value)

\* A command goes on.
LEMMA GoesOn ==
  ASSUME Values!IInv, NEW j \in Job, NEW o, o = job[j], Values!InWork(o), NEW r, Values!Typed(r),
         Values!InWork(r),
         job' = [job EXCEPT ![j] = r], r.kind = o.kind, r.draft = o.draft,
         Leaves(o.draft), UNCHANGED <<draft, content>>,
         IF o.kind = "confirm"
         THEN /\ UNCHANGED current
              /\ written' = [written EXCEPT ![o.draft] = IF r.pc = "place" THEN {} ELSE {r.to}]
         ELSE UNCHANGED written,
         o.draft \notin disturbed' /\ Values!Good(o) /\ Found(o) =>
           Values!Good(r)' /\ (o.kind = "confirm" \/ Found(r)')
  PROVE  Done(j, o.draft, r)
<1> DEFINE d == o.draft
<1>1. Values!TypeOK /\ Values!Typed(o)
  BY DEF Values!IInv, Values!TypeOK
<1>2. d \in Draft /\ Values!WorksOn(o, d) /\ Values!WorksOn(r, d)
  BY <1>1, JobStages DEF Values!InWork, Values!WorksOn
<1>3. Values!Settled(d) /\ (d \notin disturbed => Values!Kept(d))
  BY <1>2 DEF Values!IInv
<1>4. written' \in [Draft -> SUBSET Values!Place] /\ \A e \in Draft \ {d} : written'[e] = written[e]
  BY <1>1, <1>2, JobStages DEF Values!TypeOK, Values!InWork
<1>5. Touches(j, d, r)
  BY <1>4 DEF Touches, Leaves
<1>6. Values!TypeOK'
  <2>1. draft' = draft /\ content' = content
    OBVIOUS
  <2> QED BY <1>1, <1>2, <1>4, <1>5, <2>1, TypeKept DEF Values!TypeOK, Leaves
<1>7. Values!Settled(d)'
  <2>1. CASE o.kind = "confirm"
    <3>1. Values!Takes(r, d)
      BY <1>2, <2>1 DEF Values!Takes
    <3>2. Alone(j, d) /\ draft[d] = "committing" /\ current[d] = {}
      BY <1>1, <1>2, <1>3, <2>1, OneWorks
    <3>3. written'[d] = IF r.pc = "place" THEN {} ELSE {r.to}
      BY <1>1, <1>2, <2>1 DEF Values!TypeOK
    <3> QED BY <1>1, <1>2, <1>3, <1>5, <2>1, <3>1, <3>2, <3>3, SavingSettled
  <2>2. CASE o.kind # "confirm"
    BY <1>1, <1>2, <1>3, <1>5, <2>2, OneWorks, LaterSettled
  <2> QED BY <2>1, <2>2
<1>8. ASSUME d \notin disturbed' PROVE Values!Kept(d)'
  <2>1. Values!Kept(d)
    BY <1>2, <1>3, <1>8 DEF Leaves
  <2>2. Alone(j, d) /\ Values!Good(o) /\ Found(o)
    BY <1>1, <1>2, <2>1, OneWorks DEF Found
  <2>3. o.kind = "confirm" => current'[d] = {}
    BY <1>1, <1>2, <1>3, OneWorks
  <2>4. Values!Good(r)' /\ (current'[d] # {} => Found(r)')
    BY <1>8, <2>2, <2>3
  <2> QED BY <1>1, <1>2, <1>5, <2>2, <2>4, OwnKept DEF Found
<1> QED BY <1>5, <1>6, <1>7, <1>8 DEF Done, Leaves

\* A command ends: its draft is given back, or the secret is what it was.
LEMMA Quits ==
  ASSUME Values!IInv, NEW j \in Job, NEW o, o = job[j], Values!InWork(o), Leaves(o.draft),
         \/ Values!Fails(j)
         \/ o.kind # "confirm" /\ Values!Ends(j) /\ UNCHANGED <<Values!ledger, written>>,
         o.kind = "confirm" => UNCHANGED current,
         /\ o.draft \notin disturbed' /\ Values!Good(o) /\ Found(o)
         /\ o.kind # "confirm" /\ current'[o.draft] # {}
         => Values!Holds(Values!Place, o.draft)'
  PROVE  Done(j, o.draft, Values!Idle)
<1> DEFINE d == o.draft
<1>1. Values!TypeOK /\ Values!Typed(o) /\ Values!Typed(Values!Idle)
      /\ ~Values!WorksOn(Values!Idle, d) /\ ~Values!InWork(Values!Idle)
  BY NoJob DEF Values!IInv, Values!TypeOK, Values!WorksOn, Values!InWork
<1>2. d \in Draft /\ Values!WorksOn(o, d) /\ job' = [job EXCEPT ![j] = Values!Idle]
  BY <1>1, JobStages DEF Values!InWork, Values!WorksOn, Values!Fails, Values!Ends
<1>3. Values!Settled(d) /\ (d \notin disturbed => Values!Kept(d))
  BY <1>2 DEF Values!IInv
<1>4. /\ o.kind = "confirm" => /\ draft' = [draft EXCEPT ![d] = "pending"]
                               /\ content' = [content EXCEPT ![d] = o.value]
                               /\ written' = [written EXCEPT ![d] = @ \ {o.to}]
      /\ o.kind # "confirm" => draft' = draft /\ content' = content /\ written' = written
  BY DEF Values!Fails, Values!ledger
<1>5. /\ draft' \in [Draft -> {"none", "pending", "committing", "committed", "lost"}]
      /\ content' \in Values!Vault
      /\ \A e \in Draft : draft'[e] = "pending" => content'[e] \in Value
      /\ written' \in [Draft -> SUBSET Values!Place]
      /\ \A e \in Draft \ {d} : draft'[e] = draft[e] /\ written'[e] = written[e]
  BY <1>1, <1>2, <1>4, JobStages DEF Values!TypeOK, Values!Vault
<1>6. Touches(j, d, Values!Idle)
  BY <1>1, <1>2, <1>5 DEF Touches, Leaves
<1>7. Values!TypeOK'
  BY <1>1, <1>2, <1>5, <1>6, TypeKept DEF Leaves
<1>8. Values!Settled(d)'
  <2>1. CASE o.kind = "confirm"
    <3>1. Alone(j, d) /\ current[d] = {} /\ written[d] \subseteq {o.to}
      BY <1>1, <1>2, <1>3, <2>1, OneWorks
    <3>2. draft'[d] = "pending" /\ written'[d] = {} /\ current'[d] = {}
      BY <1>1, <1>2, <1>4, <2>1, <3>1 DEF Values!TypeOK
    <3> QED BY <1>1, <1>2, <1>3, <1>6, <3>1, <3>2, SavingSettled
  <2>2. CASE o.kind # "confirm"
    BY <1>1, <1>2, <1>3, <1>4, <1>6, <2>2, OneWorks, LaterSettled
  <2> QED BY <2>1, <2>2
<1>9. ASSUME d \notin disturbed' PROVE Values!Kept(d)'
  <2>1. Values!Kept(d)
    BY <1>2, <1>3, <1>9 DEF Leaves
  <2>2. Alone(j, d) /\ Values!Good(o) /\ Found(o)
    BY <1>1, <1>2, <2>1, OneWorks DEF Found
  <2>3. o.kind = "confirm" => current'[d] = {}
    BY <1>1, <1>2, <1>3, OneWorks
  <2> QED BY <1>1, <1>2, <1>6, <1>9, <2>2, <2>3, OwnKept
<1> QED BY <1>6, <1>7, <1>8, <1>9 DEF Done, Leaves

\* A step that changes no value and no reference.
LEMMA Quiet ==
  ASSUME Values!IInv, NEW j \in Job, NEW o, o = job[j], Values!InWork(o), NEW r, Values!Typed(r),
         Values!InWork(r),
         job' = [job EXCEPT ![j] = r], r.kind = o.kind, r.draft = o.draft,
         o.kind = "confirm" => r.to = o.to /\ (r.pc = "place" <=> o.pc = "place"),
         UNCHANGED <<Values!ledger, store, backup, references, Values!told>>,
         aside' \subseteq Local, emptied' \in BOOLEAN, Values!FilesAreWhole',
         disturbed \subseteq disturbed', disturbed' \subseteq Draft,
         o.draft \notin disturbed' /\ Values!Good(o) => Values!Good(r),
         Values!Changes(o, o.draft) => Values!Changes(r, o.draft) /\ r.value = o.value
  PROVE  Done(j, o.draft, r)
<1>1. Values!TypeOK /\ Values!Typed(o) /\ o.draft \in Draft /\ Values!WorksOn(o, o.draft)
  BY JobStages DEF Values!IInv, Values!TypeOK, Values!InWork, Values!WorksOn
<1>2. /\ UNCHANGED <<draft, content>> /\ store' = store /\ backup' = backup
      /\ references' = references /\ current' = current /\ written' = written
  BY DEF Values!ledger, Values!told
<1>3. Leaves(o.draft)
  BY <1>1, <1>2 DEF Leaves, Values!TypeOK
<1>4. o.kind = "confirm" =>
        written[o.draft] = IF o.pc = "place" THEN {} ELSE {o.to}
  BY <1>1, OneWorks DEF Values!IInv
<1>5. o.kind = "confirm" =>
        written' = [written EXCEPT ![o.draft] = IF r.pc = "place" THEN {} ELSE {r.to}]
  BY <1>1, <1>2, <1>4 DEF Values!TypeOK
<1>6. ASSUME o.draft \notin disturbed', Values!Good(o) PROVE Values!Good(r)'
  BY <1>2, <1>6, SameKnowledge DEF Values!InWork
<1>7. Found(o) => Found(r)'
  BY <1>2, SameReads DEF Found
<1> QED BY <1>2, <1>3, <1>5, <1>6, <1>7, GoesOn

\* A step that leaves all well.
Well(j) == \E d \in Draft : \E r : Done(j, d, r)

LEMMA IsWell ==
  ASSUME Values!IInv, NEW j \in Job, Values!InWork(job[j])
  PROVE  /\ (\E r : Done(j, job[j].draft, r)) => Well(j)
         /\ Values!TypeOK /\ Values!FilesAreWhole /\ Values!Typed(job[j]) /\ job[j].draft \in Draft
         /\ job[j].to \in Values!Place
BY JobStages DEF Values!IInv, Values!TypeOK, Values!InWork, Well

\* What a command may find in the file of the catalog.
LEMMA FileKept ==
  ASSUME Values!TypeOK
  PROVE  Values!File \in Values!Index /\ Values!Empty \in Values!Vault
         /\ Values!Nothing \in Values!Index
BY NoJob DEF Values!File, Values!TypeOK

LEMMA CopyWell ==
  ASSUME Values!IInv, NEW j \in Job, Values!Copy(j)
  PROVE  Well(j)
<1>1. PICK o : o = job[j]
  OBVIOUS
<1>2. PICK r : r = [o EXCEPT !.io = "read", !.copy = store[o.to]]
  OBVIOUS
<1>3. Values!InVault(o) /\ o.io = "none" /\ Values!InWork(o)
  BY <1>1 DEF Values!Copy, Values!InVault, Values!InWork
<1>4. Values!TypeOK /\ Values!FilesAreWhole /\ Values!Typed(o) /\ o.draft \in Draft
      /\ o.to \in Values!Place
  BY <1>1, <1>3, IsWell
<1>5. /\ job' = [job EXCEPT ![j] = r]
      /\ UNCHANGED <<Values!ledger, Values!vaults, Values!index, Values!told, disturbed>>
  BY <1>2, <1>1 DEF Values!Copy
<1>6. Values!Typed(r) /\ r.kind = o.kind /\ r.draft = o.draft /\ r.to = o.to /\ r.pc = o.pc
      /\ r.from = o.from /\ r.value = o.value /\ r.io = "read"
  BY <1>2, <1>3, <1>4 DEF Values!Typed, Values!JobType, Values!TypeOK, Values!InVault
<1>7. Values!FilesAreWhole'
  BY <1>1, <1>3, <1>4, <1>5, Tidied DEF Values!vaults, Values!index, Values!Moves, Values!InVault,
     Values!Rewrites, Values!InCatalog
<1>8. Values!Good(o) => Values!Good(r)
  BY <1>3, <1>6 DEF Values!Good, Values!Saves, Values!Updates, Values!Migrates, Values!InVault
<1>9. Done(j, o.draft, r)
  BY <1>1, <1>3, <1>4, <1>5, <1>6, <1>7, <1>8, Quiet DEF Values!vaults, Values!index,
     Values!InWork, Values!Changes, Values!TypeOK
<1> QED BY <1>1, <1>3, <1>9, IsWell

LEMMA MoveAsideWell ==
  ASSUME Values!IInv, NEW j \in Job, Values!MoveAside(j)
  PROVE  Well(j)
<1>1. PICK o : o = job[j]
  OBVIOUS
<1>2. PICK r : r = [o EXCEPT !.io = "cut",
                          !.old = IF o.to \in aside THEN Values!Empty ELSE store[o.to],
                          !.saved = IF o.kind = "update" THEN Values!File ELSE Values!Nothing]
  OBVIOUS
<1>3. Values!InVault(o) /\ o.io = "read" /\ Values!InWork(o)
  BY <1>1 DEF Values!MoveAside, Values!InVault, Values!InWork
<1>4. Values!TypeOK /\ Values!FilesAreWhole /\ Values!Typed(o) /\ o.draft \in Draft
      /\ o.to \in Values!Place
  BY <1>1, <1>3, IsWell
<1>5. /\ job' = [job EXCEPT ![j] = r] /\ aside' = aside \cup {o.to}
      /\ UNCHANGED <<Values!ledger, store, backup, Values!index, Values!told>>
      /\ disturbed' = disturbed \cup
           (IF o.to \in aside \/ (o.kind = "update" /\ emptied) THEN {o.draft} ELSE {})
  BY <1>2, <1>1 DEF Values!MoveAside, Values!Disturbs
<1>6. /\ r.kind = o.kind /\ r.draft = o.draft /\ r.to = o.to /\ r.pc = o.pc
      /\ r.from = o.from /\ r.value = o.value /\ r.io = "cut"
  BY <1>2, <1>4 DEF Values!Typed, Values!JobType
<1>7. /\ r.old = (IF o.to \in aside THEN Values!Empty ELSE store[o.to])
      /\ r.saved = (IF o.kind = "update" THEN Values!File ELSE Values!Nothing)
  BY <1>2, <1>4 DEF Values!Typed, Values!JobType
<1>8. Values!Typed(r)
  <2>1. r \in Values!JobType
    <3>1. (IF o.to \in aside THEN Values!Empty ELSE store[o.to]) \in Values!Vault
      BY <1>4, FileKept DEF Values!TypeOK
    <3>2. (IF o.kind = "update" THEN Values!File ELSE Values!Nothing) \in Values!Index
      BY <1>4, FileKept
    <3> QED BY <1>2, <1>4, <3>1, <3>2 DEF Values!Typed, Values!JobType
  <2> QED BY <1>3, <1>4, <1>6, <2>1 DEF Values!Typed, Values!InVault
<1>9. Values!FilesAreWhole'
  <2>1. \A p \in aside' : Values!Moves(r, p) \/ (p \in aside /\ ~Values!Moves(o, p))
    BY <1>3, <1>5, <1>6 DEF Values!Moves, Values!InVault
  <2>2. ~Values!Rewrites(o) /\ emptied' = emptied /\ references' = references
    BY <1>3, <1>5 DEF Values!Rewrites, Values!InCatalog, Values!InVault, Values!index
  <2> QED BY <1>1, <1>4, <1>5, <2>1, <2>2, Tidied
<1>10. ASSUME Values!Good(o), o.draft \notin disturbed' PROVE Values!Good(r)
  <2>1. o.to \notin aside /\ (o.kind = "update" => ~emptied)
    BY <1>5, <1>10
  <2>2. r.old = store[o.to] /\ (o.kind = "update" => r.saved = references)
    BY <1>7, <2>1 DEF Values!File
  <2>3. CASE o.kind = "update"
    BY <1>3, <1>4, <1>6, <2>2, <2>3 DEF Values!Good, Values!Updates, Values!InVault, Values!Typed,
       Values!Stages
  <2>4. CASE o.kind # "update"
    BY <1>3, <1>4, <1>6, <1>10, <2>4, JobStages DEF Values!Good, Values!Saves, Values!Migrates,
       Values!InVault, Values!InWork
  <2> QED BY <2>3, <2>4
<1>11. Done(j, o.draft, r)
  BY <1>1, <1>3, <1>4, <1>5, <1>6, <1>8, <1>9, <1>10, Quiet DEF Values!index, Values!InWork,
     Values!InVault, Values!Changes, Values!TypeOK
<1> QED BY <1>1, <1>3, <1>11, IsWell

LEMMA LoadWell ==
  ASSUME Values!IInv, NEW j \in Job, Values!Load(j)
  PROVE  Well(j)
<1>1. PICK o : o = job[j]
  OBVIOUS
<1>2. PICK r : r = [o EXCEPT !.io = "read", !.read = Values!File]
  OBVIOUS
<1>3. Values!InCatalog(o) /\ o.io = "none" /\ Values!InWork(o)
  BY <1>1 DEF Values!Load, Values!InCatalog, Values!InWork
<1>4. Values!TypeOK /\ Values!FilesAreWhole /\ Values!Typed(o) /\ o.draft \in Draft
      /\ o.to \in Values!Place
  BY <1>1, <1>3, IsWell
<1>5. /\ job' = [job EXCEPT ![j] = r]
      /\ UNCHANGED <<Values!ledger, Values!vaults, Values!index, Values!told, disturbed>>
  BY <1>2, <1>1 DEF Values!Load
<1>6. Values!Typed(r) /\ r.kind = o.kind /\ r.draft = o.draft /\ r.to = o.to /\ r.pc = o.pc
      /\ r.from = o.from /\ r.value = o.value /\ r.io = "read" /\ r.saved = o.saved
      /\ r.old = o.old
  BY <1>2, <1>3, <1>4, FileKept DEF Values!Typed, Values!JobType, Values!TypeOK, Values!InCatalog
<1>7. Values!FilesAreWhole'
  BY <1>1, <1>3, <1>4, <1>5, Tidied DEF Values!vaults, Values!index, Values!Moves, Values!InVault,
     Values!Rewrites, Values!InCatalog
<1>8. Values!Good(o) => Values!Good(r)
  BY <1>3, <1>6 DEF Values!Good, Values!Saves, Values!Updates, Values!Migrates, Values!InCatalog,
     Values!Returns, Values!Beside
<1>9. Done(j, o.draft, r)
  BY <1>1, <1>3, <1>4, <1>5, <1>6, <1>7, <1>8, Quiet DEF Values!vaults, Values!index,
     Values!InWork, Values!Changes, Values!TypeOK
<1> QED BY <1>1, <1>3, <1>9, IsWell

LEMMA TruncateWell ==
  ASSUME Values!IInv, NEW j \in Job, Values!Truncate(j)
  PROVE  Well(j)
<1>1. PICK o : o = job[j]
  OBVIOUS
<1>2. PICK r : r = [o EXCEPT !.io = "cut"]
  OBVIOUS
<1>3. Values!InCatalog(o) /\ o.io = "read" /\ Values!InWork(o)
  BY <1>1 DEF Values!Truncate, Values!InCatalog, Values!InWork
<1>4. Values!TypeOK /\ Values!FilesAreWhole /\ Values!Typed(o) /\ o.draft \in Draft
      /\ o.to \in Values!Place
  BY <1>1, <1>3, IsWell
<1>5. /\ job' = [job EXCEPT ![j] = r] /\ emptied' = TRUE
      /\ UNCHANGED <<Values!ledger, Values!vaults, references, Values!told, disturbed>>
  BY <1>2, <1>1 DEF Values!Truncate
<1>6. Values!Typed(r) /\ r.kind = o.kind /\ r.draft = o.draft /\ r.to = o.to /\ r.pc = o.pc
      /\ r.from = o.from /\ r.value = o.value /\ r.io = "cut" /\ r.saved = o.saved
      /\ r.old = o.old
  BY <1>2, <1>3, <1>4 DEF Values!Typed, Values!JobType, Values!TypeOK, Values!InCatalog
<1>7. Values!FilesAreWhole'
  BY <1>1, <1>3, <1>4, <1>5, <1>6, Tidied DEF Values!vaults, Values!Moves, Values!InVault,
     Values!Rewrites, Values!InCatalog
<1>8. Values!Good(o) => Values!Good(r)
  BY <1>3, <1>6 DEF Values!Good, Values!Saves, Values!Updates, Values!Migrates, Values!InCatalog,
     Values!Returns, Values!Beside
<1>9. Done(j, o.draft, r)
  BY <1>1, <1>3, <1>4, <1>5, <1>6, <1>7, <1>8, Quiet DEF Values!vaults, Values!InWork,
     Values!Changes, Values!TypeOK
<1> QED BY <1>1, <1>3, <1>9, IsWell

LEMMA VerifyWell ==
  ASSUME Values!IInv, NEW j \in Job, Values!Verify(j)
  PROVE  Well(j)
<1>1. PICK o : o = job[j]
  OBVIOUS
<1>2. o.pc = "verify" /\ Values!Matches(o) /\ Values!InWork(o)
  BY <1>1 DEF Values!Verify, Values!InWork
<1>3. Values!TypeOK /\ Values!FilesAreWhole /\ Values!Typed(o) /\ o.draft \in Draft
      /\ o.to \in Values!Place
  BY <1>1, <1>2, IsWell
<1>4. o.io = "none" /\ o.kind \in {"update", "migrate"} /\ (o.kind = "update" => o.from = "none")
  BY <1>2, <1>3, JobStages DEF Values!InVault, Values!InCatalog, Values!Typed
<1>5. UNCHANGED <<Values!ledger, Values!vaults, Values!index, Values!told, disturbed>>
  BY DEF Values!Verify
<1>6. CASE o.from = "none"
  <2>1. PICK r : r = [o EXCEPT !.pc = "report"]
    OBVIOUS
  <2>2. job' = [job EXCEPT ![j] = r]
    BY <1>1, <1>6, <2>1 DEF Values!Verify
  <2>3. /\ Values!Typed(r) /\ r.kind = o.kind /\ r.draft = o.draft /\ r.to = o.to /\ r.pc = "report"
        /\ r.from = "none" /\ r.value = o.value /\ r.io = "none"
    BY <1>3, <1>4, <1>6, <2>1 DEF Values!Typed, Values!JobType, Values!Stages
  <2>4. Values!FilesAreWhole'
    BY <1>1, <1>2, <1>3, <1>5, <2>2, Tidied DEF Values!vaults, Values!index, Values!Moves,
       Values!InVault, Values!Rewrites, Values!InCatalog
  <2>5. Values!Good(o) => Values!Good(r)
    BY <1>2, <1>4, <2>3 DEF Values!Good, Values!Updates, Values!Migrates
  <2>6. Done(j, o.draft, r)
    BY <1>1, <1>2, <1>3, <1>4, <1>5, <2>2, <2>3, <2>4, <2>5, Quiet
       DEF Values!vaults, Values!index, Values!InWork, Values!Changes, Values!TypeOK
  <2> QED BY <1>1, <1>2, <2>6, IsWell
<1>7. CASE o.from # "none"
  <2>1. PICK r : r = [o EXCEPT !.pc = "remove", !.to = o.from, !.from = "none",
                               !.value = Values!Gone]
    OBVIOUS
  <2>2. job' = [job EXCEPT ![j] = r]
    BY <1>1, <1>7, <2>1 DEF Values!Verify
  <2>3. o.kind = "migrate" /\ o.from \in Values!Place
    BY <1>3, <1>4, <1>7 DEF Values!Typed, Values!JobType
  <2>4. /\ Values!Typed(r) /\ r.kind = "migrate" /\ r.draft = o.draft /\ r.to = o.from
        /\ r.pc = "remove" /\ r.from = "none" /\ r.value = Values!Gone /\ r.io = "none"
    <3>1. /\ r \in Values!JobType /\ r.kind = "migrate" /\ r.draft = o.draft /\ r.to = o.from
          /\ r.pc = "remove" /\ r.from = "none" /\ r.value = Values!Gone /\ r.io = "none"
      <4>1. o \in Values!JobType
            /\ "remove" \in UNION {Values!Stages[k] : k \in DOMAIN Values!Stages}
        BY <1>3 DEF Values!Typed, Values!Stages
      <4> QED BY <1>4, <2>1, <2>3, <4>1 DEF Values!JobType
    <3> QED BY <1>3, <2>3, <3>1 DEF Values!Typed, Values!Stages
  <2>5. Values!FilesAreWhole'
    BY <1>1, <1>2, <1>3, <1>5, <2>2, Tidied DEF Values!vaults, Values!index, Values!Moves,
       Values!InVault, Values!Rewrites, Values!InCatalog
  <2>6. ASSUME Values!Good(o), current[o.draft] # {}
        PROVE  Values!Holds(Values!Place \ {o.from}, o.draft)
    <3>1. /\ Values!Holds(Values!Place \ {o.to}, o.draft) /\ o.from # o.to
          /\ Values!Read(o.from, o.draft) = o.value
      BY <1>2, <1>7, <2>3, <2>6 DEF Values!Good, Values!Migrates
    <3>2. Values!Read(o.to, o.draft) = o.value
      BY <1>2, <2>3 DEF Values!Matches
    <3>3. PICK v \in current[o.draft] : Values!Reads(Values!Place \ {o.to}, o.draft, v)
      BY <3>1 DEF Values!Holds
    <3>4. Values!Reads(Values!Place \ {o.from}, o.draft, v)
      BY <1>3, <3>1, <3>2, <3>3 DEF Values!Reads
    <3> QED BY <3>3, <3>4 DEF Values!Holds
  <2>7. Values!Good(o) => Values!Good(r)
    BY <2>4, <2>6 DEF Values!Good, Values!Migrates
  <2>8. ~Values!Changes(o, o.draft) /\ Values!InWork(r) /\ o.kind # "confirm"
    BY <2>3, <2>4 DEF Values!Changes, Values!InWork
  <2>9. Done(j, o.draft, r)
    <3>1. /\ UNCHANGED <<Values!ledger, store, backup, references, Values!told>>
          /\ aside' \subseteq Local
          /\ emptied' \in BOOLEAN /\ disturbed' = disturbed /\ disturbed \subseteq Draft
      BY <1>3, <1>5 DEF Values!vaults, Values!index, Values!TypeOK
    <3> QED BY <1>1, <1>2, <2>2, <2>3, <2>4, <2>5, <2>7, <2>8, <3>1, Quiet
  <2> QED BY <1>1, <1>2, <2>9, IsWell
<1> QED BY <1>6, <1>7

\* Where nothing is written.
LEMMA StillLeaves ==
  ASSUME Values!TypeOK, Values!FilesAreWhole',
         UNCHANGED <<Values!vaults, Values!index, current, disturbed>>, NEW d
  PROVE  Leaves(d)
<1>1. /\ store' = store /\ aside' = aside /\ backup' = backup /\ references' = references
      /\ emptied' = emptied /\ current' = current /\ disturbed' = disturbed
  BY DEF Values!vaults, Values!index
<1> QED BY <1>1 DEF Leaves, Values!TypeOK

\* A command that ends, where it writes nothing.
LEMMA QuietQuits ==
  ASSUME Values!IInv, NEW j \in Job, Values!InWork(job[j]),
         UNCHANGED <<Values!vaults, Values!index, current, disturbed>>,
         \/ Values!Fails(j)
         \/ job[j].kind # "confirm" /\ Values!Ends(j) /\ UNCHANGED <<Values!ledger, written>>,
         Values!Moves(job[j], job[j].to) => job[j].to \notin aside,
         ~Values!Rewrites(job[j]) \/ ~emptied, ~Values!Changes(job[j], job[j].draft)
  PROVE  Well(j)
<1>1. PICK o : o = job[j]
  OBVIOUS
<1>2. Values!TypeOK /\ Values!FilesAreWhole /\ Values!Typed(o) /\ o.draft \in Draft
      /\ o.to \in Values!Place
  BY <1>1, IsWell
<1>3. job' = [job EXCEPT ![j] = Values!Idle]
  BY DEF Values!Fails, Values!Ends
<1>4. /\ store' = store /\ aside' = aside /\ backup' = backup /\ references' = references
      /\ emptied' = emptied /\ current' = current
  BY DEF Values!vaults, Values!index
<1>5. Values!FilesAreWhole'
  BY <1>1, <1>2, <1>3, <1>4, Tidied DEF Values!Moves
<1>6. Leaves(o.draft)
  BY <1>2, <1>5, StillLeaves
<1>7. Values!Holds(Values!Place, o.draft) => Values!Holds(Values!Place, o.draft)'
  BY <1>4, SameReads
<1>8. Found(o) /\ current'[o.draft] # {} => Values!Holds(Values!Place, o.draft)'
  BY <1>1, <1>4, <1>7 DEF Found
<1>9. Done(j, o.draft, Values!Idle)
  BY <1>1, <1>4, <1>6, <1>8, Quits
<1> QED BY <1>1, <1>9, IsWell

LEMMA VerifyFailsWell ==
  ASSUME Values!IInv, NEW j \in Job, Values!VerifyFails(j)
  PROVE  Well(j)
<1>1. PICK o : o = job[j]
  OBVIOUS
<1>2. o.pc = "verify" /\ Values!InWork(o)
  BY <1>1 DEF Values!VerifyFails, Values!InWork
<1>3. Values!TypeOK /\ Values!FilesAreWhole /\ Values!Typed(o) /\ o.draft \in Draft
      /\ o.to \in Values!Place
  BY <1>1, <1>2, IsWell
<1>4. o.io = "none" /\ o.kind \in {"update", "migrate"}
  BY <1>2, <1>3, JobStages DEF Values!InVault, Values!InCatalog
<1>5. UNCHANGED <<Values!ledger, Values!vaults, Values!index, Values!told, disturbed>>
  BY DEF Values!VerifyFails
<1>6. CASE o.kind = "update" /\ Values!Goes(j, "restore")
  <2>1. PICK r : r = [o EXCEPT !.pc = "restore"]
    OBVIOUS
  <2>2. job' = [job EXCEPT ![j] = r]
    BY <1>1, <1>3, <1>6, <2>1 DEF Values!Goes, Values!TypeOK
  <2>3. /\ Values!Typed(r) /\ r.kind = o.kind /\ r.draft = o.draft /\ r.to = o.to
        /\ r.pc = "restore"
        /\ r.value = o.value /\ r.io = "none" /\ r.old = o.old /\ r.saved = o.saved
    BY <1>3, <1>4, <1>6, <2>1 DEF Values!Typed, Values!JobType, Values!Stages
  <2>4. Values!FilesAreWhole'
    BY <1>1, <1>2, <1>3, <1>5, <2>2, Tidied DEF Values!vaults, Values!index, Values!Moves,
       Values!InVault, Values!Rewrites, Values!InCatalog
  <2>5. Values!Good(o) => Values!Good(r)
    BY <1>2, <1>6, <2>3 DEF Values!Good, Values!Updates, Values!Beside, Values!Returns
  <2>6. Done(j, o.draft, r)
    BY <1>1, <1>2, <1>3, <1>5, <1>6, <2>2, <2>3, <2>4, <2>5, Quiet
       DEF Values!vaults, Values!index, Values!InWork, Values!Changes, Values!TypeOK
  <2> QED BY <1>1, <1>2, <2>6, IsWell
<1>7. CASE o.kind = "migrate" /\ Values!Ends(j)
  BY <1>1, <1>2, <1>5, <1>7, QuietQuits
     DEF Values!told, Values!Moves, Values!InVault, Values!Rewrites, Values!InCatalog,
        Values!Changes
<1>8. CASE o.kind = "migrate" /\
           job' = [job EXCEPT ![j] = [@ EXCEPT !.pc = "remove", !.from = "none",
                                               !.value = Values!Gone]]
  <2>1. PICK r : r = [o EXCEPT !.pc = "remove", !.from = "none", !.value = Values!Gone]
    OBVIOUS
  <2>2. job' = [job EXCEPT ![j] = r]
    BY <1>1, <1>3, <1>8, <2>1 DEF Values!TypeOK
  <2>3. /\ Values!Typed(r) /\ r.kind = "migrate" /\ r.draft = o.draft /\ r.to = o.to
        /\ r.pc = "remove" /\ r.from = "none" /\ r.value = Values!Gone /\ r.io = "none"
    <3>1. /\ r \in Values!JobType /\ r.kind = "migrate" /\ r.draft = o.draft /\ r.to = o.to
          /\ r.pc = "remove" /\ r.from = "none" /\ r.value = Values!Gone /\ r.io = "none"
      <4>1. o \in Values!JobType
            /\ "remove" \in UNION {Values!Stages[k] : k \in DOMAIN Values!Stages}
        BY <1>3 DEF Values!Typed, Values!Stages
      <4> QED BY <1>4, <1>8, <2>1, <4>1 DEF Values!JobType
    <3> QED BY <1>3, <3>1 DEF Values!Typed, Values!Stages
  <2>4. Values!FilesAreWhole'
    BY <1>1, <1>2, <1>3, <1>5, <2>2, Tidied DEF Values!vaults, Values!index, Values!Moves,
       Values!InVault, Values!Rewrites, Values!InCatalog
  <2>5. Values!Good(o) => Values!Good(r)
    BY <1>2, <1>8, <2>3 DEF Values!Good, Values!Migrates
  <2>6. ~Values!Changes(o, o.draft) /\ Values!InWork(r) /\ o.kind # "confirm"
    BY <1>8, <2>3 DEF Values!Changes, Values!InWork
  <2>7. Done(j, o.draft, r)
    <3>1. /\ UNCHANGED <<Values!ledger, store, backup, references, Values!told>>
          /\ aside' \subseteq Local
          /\ emptied' \in BOOLEAN /\ disturbed' = disturbed /\ disturbed \subseteq Draft
      BY <1>3, <1>5 DEF Values!vaults, Values!index, Values!TypeOK
    <3> QED BY <1>1, <1>2, <1>8, <2>2, <2>3, <2>4, <2>5, <2>6, <3>1, Quiet
  <2> QED BY <1>1, <1>2, <2>7, IsWell
<1> QED BY <1>1, <1>6, <1>7, <1>8 DEF Values!VerifyFails

\* What is read in places that do not change is read on.
LEMMA ReadsStay ==
  ASSUME NEW d, NEW P, backup \subseteq backup',
         \A p \in P : references'[d][p] = references[d][p] /\ store'[p][d] = store[p][d]
  PROVE  /\ \A v : Values!Reads(P, d, v) => Values!Reads(P, d, v)'
         /\ current[d] \subseteq current'[d] => (Values!Holds(P, d) => Values!Holds(P, d)')
<1>1. \A v : Values!Reads(P, d, v) => Values!Reads(P, d, v)'
  BY DEF Values!Reads, Values!Read, Values!Reading
<1> QED BY <1>1 DEF Values!Holds

\* A migration goes on when nothing changes but its target, or the source it removes.
LEMMA MigratesOn ==
  ASSUME NEW o, Values!Typed(o), o.kind = "migrate", o.pc # "report", Values!Good(o),
         NEW r, r.kind = "migrate", r.draft = o.draft, r.to = o.to,
         r.from = "none" \/ (r.from = o.from /\ r.value = o.value),
         backup \subseteq backup', current' = current,
         \A p \in Values!Place \ {o.to} : /\ references'[o.draft][p] = references[o.draft][p]
                                          /\ store'[p][o.draft] = store[p][o.draft]
  PROVE  /\ Values!Good(r)' /\ Found(r)'
         /\ current'[o.draft] # {} => Values!Holds(Values!Place, o.draft)'
<1> DEFINE d == o.draft
<1>1. current[d] # {} => Values!Holds(Values!Place \ {o.to}, d)
  BY DEF Values!Good, Values!Migrates
<1>2. current'[d] # {} => Values!Holds(Values!Place \ {o.to}, d)'
  BY <1>1, ReadsStay
<1>3. Values!Holds(Values!Place \ {o.to}, d)' => Values!Holds(Values!Place, d)'
  BY DEF Values!Holds, Values!Reads
<1>4. ASSUME r.from # "none"
      PROVE  r.from # r.to /\ Values!Read(r.from, d)' = r.value /\ r.value \in Value
  <2>1. /\ o.from # "none" /\ o.from \in Values!Place \ {o.to} /\ Values!Read(o.from, d) = o.value
        /\ o.value \in Value
    BY <1>4 DEF Values!Good, Values!Migrates, Values!Typed, Values!JobType
  <2> QED BY <1>4, <2>1 DEF Values!Read, Values!Reading
<1> QED BY <1>2, <1>3, <1>4 DEF Values!Good, Values!Migrates, Found

\* A command at work on a vault has its draft among the vault's secrets.
LEMMA MovesWell ==
  ASSUME Values!IInv, NEW j \in Job, NEW o, o = job[j], Values!Moves(o, o.to)
  PROVE  /\ Values!InWork(o) /\ o.to \in Local /\ o.io = "cut" /\ o.pc \in {"place", "remove"}
         /\ o.pc = "remove" => o.kind = "migrate"
         /\ o.copy \in Values!Vault /\ o.old \in Values!Vault
         /\ o.value \in Value \cup {Values!Gone}
         /\ Values!TypeOK /\ Values!FilesAreWhole /\ Values!Typed(o) /\ o.draft \in Draft
         /\ o.to \in Values!Place
         /\ ~Values!Rewrites(o)
<1>1. Values!InWork(o) /\ o.to \in Local /\ o.io = "cut" /\ o.pc \in {"place", "remove"}
  BY DEF Values!Moves, Values!InVault, Values!InWork
<1>2. Values!TypeOK /\ Values!FilesAreWhole /\ Values!Typed(o) /\ o.draft \in Draft
      /\ o.to \in Values!Place
  BY <1>1, IsWell
<1>3. o.copy \in Values!Vault /\ o.old \in Values!Vault /\ o.value \in Value \cup {Values!Gone}
  BY <1>2 DEF Values!Typed, Values!JobType
<1> QED BY <1>1, <1>2, <1>3, JobStages DEF Values!Rewrites, Values!InCatalog

LEMMA MoveInWell ==
  ASSUME Values!IInv, NEW j \in Job, Values!MoveIn(j)
  PROVE  Well(j)
<1>1. PICK o : o = job[j]
  OBVIOUS
<1>2. Values!Moves(o, o.to)
  BY <1>1 DEF Values!MoveIn
<1>3. /\ Values!InWork(o) /\ o.to \in Local /\ o.io = "cut" /\ o.pc \in {"place", "remove"}
      /\ o.pc = "remove" => o.kind = "migrate"
      /\ o.copy \in Values!Vault /\ o.old \in Values!Vault /\ o.value \in Value \cup {Values!Gone}
      /\ Values!TypeOK /\ Values!FilesAreWhole /\ Values!Typed(o) /\ o.draft \in Draft
      /\ o.to \in Values!Place
      /\ ~Values!Rewrites(o)
  BY <1>1, <1>2, MovesWell
<1>4. PICK r : r = [o EXCEPT !.pc = Values!AfterMove(j), !.io = "none", !.copy = Values!Empty]
  OBVIOUS
<1>5. /\ job' = [job EXCEPT ![j] = r] /\ aside' = aside \ {o.to}
      /\ store' = [store EXCEPT ![o.to] = [o.copy EXCEPT ![o.draft] = o.value]]
      /\ disturbed' = disturbed \cup Values!Differ(o.copy, store[o.to])
      /\ written' = IF o.kind = "confirm" THEN [written EXCEPT ![o.draft] = @ \cup {o.to}]
                    ELSE written
      /\ UNCHANGED <<draft, content, backup, references, emptied, current>>
  BY <1>1, <1>4 DEF Values!MoveIn, Values!Edited, Values!Disturbs, Values!Wrote, Values!ledger,
     Values!index
<1>6. /\ r.kind = o.kind /\ r.draft = o.draft /\ r.to = o.to /\ r.from = o.from
      /\ r.value = o.value /\ r.io = "none" /\ r.old = o.old /\ r.saved = o.saved
      /\ r.pc = Values!AfterMove(j)
  BY <1>3, <1>4 DEF Values!Typed, Values!JobType
<1>7. r.pc = IF o.pc = "remove" THEN "uncatalog"
             ELSE IF o.kind = "update" THEN "snapshot" ELSE "register"
  BY <1>1, <1>6 DEF Values!AfterMove
<1>8. Values!Typed(r) /\ Values!InWork(r)
  <2>1. r \in Values!JobType
    <3>1. Values!AfterMove(j) \in UNION {Values!Stages[k] : k \in DOMAIN Values!Stages}
      BY <1>6, <1>7 DEF Values!Stages
    <3> QED BY <1>3, <1>4, <3>1, FileKept DEF Values!Typed, Values!JobType
  <2> QED BY <1>3, <1>6, <1>7, <2>1, JobStages DEF Values!Typed, Values!Stages, Values!InWork
<1>9. Values!FilesAreWhole'
  <2>1. \A p \in aside' : Values!Moves(r, p) \/ (p \in aside /\ ~Values!Moves(o, p))
    BY <1>5 DEF Values!Moves
  <2> QED BY <1>1, <1>3, <1>5, <2>1, Tidied
<1>10. /\ store' \in [Values!Place -> Values!Vault]
       /\ \A p \in Values!Place \ {o.to}, e \in Draft : store'[p][e] = store[p][e]
       /\ \A e \in Draft : store'[o.to][e] = IF e = o.draft THEN o.value ELSE o.copy[e]
  BY <1>3, <1>5 DEF Values!TypeOK, Values!Vault
<1>11. Leaves(o.draft)
  <2>1. \A e \in Draft \ {o.draft} : e \notin disturbed' =>
          \A p \in Values!Place : store'[p][e] = store[p][e]
    BY <1>5, <1>10 DEF Values!Differ
  <2> QED BY <1>3, <1>5, <1>9, <1>10, <2>1 DEF Leaves, Values!TypeOK, Values!Differ
<1>12. o.kind = "confirm" =>
         written' = [written EXCEPT ![o.draft] = IF r.pc = "place" THEN {} ELSE {r.to}]
  <2>1. o.kind = "confirm" => o.pc = "place" /\ r.pc = "register"
    BY <1>3, <1>7
  <2>2. o.kind = "confirm" => written[o.draft] = {}
    BY <1>1, <1>3, <2>1, OneWorks DEF Values!IInv, Values!WorksOn
  <2> QED BY <1>3, <1>5, <1>6, <2>1, <2>2 DEF Values!TypeOK
<1>13. ASSUME o.draft \notin disturbed', Values!Good(o), Found(o)
       PROVE  Values!Good(r)' /\ (o.kind = "confirm" \/ Found(r)')
  <2>1. CASE o.kind = "confirm"
    BY <1>3, <1>6, <1>7, <1>10, <2>1 DEF Values!Good, Values!Saves
  <2>2. CASE o.kind = "migrate"
    BY <1>3, <1>5, <1>6, <1>10, <1>13, <2>2, MigratesOn
  <2>3. CASE o.kind = "update"
    <3> DEFINE d == o.draft
    <3>1. /\ o.pc = "place" /\ r.pc = "snapshot"
          /\ o.old[d] = store[o.to][d] /\ o.saved[d] = references[d]
      BY <1>3, <1>7, <1>13, <2>3 DEF Values!Good, Values!Updates
    <3>2. current[d] # {} => Values!Holds(Values!Place, d)
      BY <1>13, <2>3, <3>1 DEF Found, Values!Changes
    <3>3. ASSUME NEW v, Values!Reads(Values!Place, d, v)
          PROVE  \/ <<d, v>> \in backup
                 \/ \E p \in Values!Place : Values!Reading(r.saved[d][p], IF p = r.to THEN r.old[d]
                                                                          ELSE store'[p][d]) = v
      BY <1>3, <1>6, <1>10, <3>1, <3>3 DEF Values!Reads, Values!Read
    <3>4. current'[d] # {} => Values!Returns(r)'
      BY <1>5, <1>6, <3>2, <3>3 DEF Values!Holds, Values!Returns
    <3>5. ASSUME NEW v, Values!Reads(Values!Place, d, v)
          PROVE  Values!Reads(Values!Place, d, v)' \/ Values!Reads(Values!Place, d, r.value)'
      <4>1. CASE <<d, v>> \in backup
        BY <1>5, <4>1 DEF Values!Reads
      <4>2. CASE \E p \in Values!Place : Values!Read(p, d) = v
        <5>1. PICK p \in Values!Place : Values!Read(p, d) = v
          BY <4>2
        <5>2. CASE p # o.to \/ references[d][p] # Values!Live
          BY <1>3, <1>5, <1>10, <5>1, <5>2 DEF Values!Reads, Values!Read, Values!Reading
        <5>3. CASE p = o.to /\ references[d][p] = Values!Live
          BY <1>3, <1>5, <1>6, <1>10, <5>3 DEF Values!Reads, Values!Read, Values!Reading
        <5> QED BY <5>2, <5>3
      <4> QED BY <3>5, <4>1, <4>2 DEF Values!Reads
    <3>6. Found(r)'
      BY <1>5, <1>6, <2>3, <3>1, <3>2, <3>5 DEF Found, Values!Holds, Values!Changes
    <3>7. Values!Updates(r)'
      BY <1>3, <1>5, <1>6, <1>10, <3>1, <3>4 DEF Values!Updates
    <3> QED BY <1>6, <2>3, <3>6, <3>7 DEF Values!Good
  <2> QED BY <1>3, <2>1, <2>2, <2>3, JobStages DEF Values!InWork
<1>14. Done(j, o.draft, r)
  BY <1>1, <1>3, <1>5, <1>6, <1>8, <1>11, <1>12, <1>13, GoesOn
<1> QED BY <1>1, <1>3, <1>14, IsWell

LEMMA MoveInFailsWell ==
  ASSUME Values!IInv, NEW j \in Job, Values!MoveInFails(j)
  PROVE  Well(j)
<1>1. PICK o : o = job[j]
  OBVIOUS
<1>2. Values!Moves(o, o.to)
  BY <1>1 DEF Values!MoveInFails
<1>3. /\ Values!InWork(o) /\ o.to \in Local /\ o.io = "cut" /\ o.pc \in {"place", "remove"}
      /\ o.pc = "remove" => o.kind = "migrate"
      /\ o.copy \in Values!Vault /\ o.old \in Values!Vault /\ o.value \in Value \cup {Values!Gone}
      /\ Values!TypeOK /\ Values!FilesAreWhole /\ Values!Typed(o) /\ o.draft \in Draft
      /\ o.to \in Values!Place
      /\ ~Values!Rewrites(o)
  BY <1>1, <1>2, MovesWell
<1> DEFINE d == o.draft
<1>4. /\ \/ /\ store' = (IF o.old = Values!Empty THEN store ELSE [store EXCEPT ![o.to] = o.old])
            /\ backup' = backup
         \/ Values!Strands(o.to, o.old)
      /\ disturbed' = disturbed \cup (Values!Differ(store'[o.to], store[o.to]) \ {d})
      /\ aside' = aside \ {o.to} /\ Values!Fails(j)
      /\ UNCHANGED <<references, emptied, current>>
  BY <1>1 DEF Values!MoveInFails, Values!Disturbs, Values!index
<1>5. job' = [job EXCEPT ![j] = Values!Idle]
  BY <1>4 DEF Values!Fails, Values!Ends
<1>6. Values!FilesAreWhole'
  <2>1. \A p \in aside' : p \in aside /\ ~Values!Moves(o, p)
    BY <1>4 DEF Values!Moves
  <2> QED BY <1>1, <1>3, <1>4, <1>5, <2>1, Tidied
<1>7. /\ store' \in [Values!Place -> Values!Vault]
      /\ \A p \in Values!Place \ {o.to}, e \in Draft : store'[p][e] = store[p][e]
      /\ backup \subseteq backup' /\ backup' \subseteq Draft \X (Value \cup {Values!Gone})
      /\ \/ store'[o.to] = store[o.to]
         \/ store'[o.to] = o.old
         \/ \A e \in Draft : <<e, o.old[e]>> \in backup' /\ store'[o.to][e] = Values!Gone
  BY <1>3, <1>4, NoJob DEF Values!TypeOK, Values!Vault, Values!Strands
<1>8. Leaves(d)
  <2>1. \A e \in Draft \ {d} : e \notin disturbed' =>
          \A p \in Values!Place : store'[p][e] = store[p][e]
    BY <1>4, <1>7 DEF Values!Differ
  <2> QED BY <1>3, <1>4, <1>6, <1>7, <2>1 DEF Leaves, Values!TypeOK, Values!Differ
<1>9. ASSUME Values!Good(o), Found(o), o.kind # "confirm", current'[d] # {}
      PROVE  Values!Holds(Values!Place, d)'
  <2>1. CASE o.kind = "migrate"
    BY <1>3, <1>4, <1>7, <1>9, <2>1, MigratesOn
  <2>2. CASE o.kind = "update"
    <3>1. o.pc = "place" /\ o.old[d] = store[o.to][d]
      BY <1>3, <1>9, <2>2 DEF Values!Good, Values!Updates
    <3>2. PICK v \in current[d] : Values!Reads(Values!Place, d, v)
      BY <1>4, <1>9, <3>1 DEF Found, Values!Changes, Values!Holds
    <3>3. v \in Value
      BY <1>3 DEF Values!TypeOK
    <3>4. Values!Reads(Values!Place, d, v)'
      <4>1. CASE <<d, v>> \in backup
        BY <1>7, <4>1 DEF Values!Reads
      <4>2. CASE \E p \in Values!Place : Values!Read(p, d) = v
        <5>1. PICK p \in Values!Place : Values!Read(p, d) = v
          BY <4>2
        <5>2. CASE p # o.to \/ references[d][p] # Values!Live
          BY <1>3, <1>4, <1>7, <5>1, <5>2 DEF Values!Reads, Values!Read, Values!Reading
        <5>3. CASE p = o.to /\ references[d][p] = Values!Live
          BY <1>3, <1>4, <1>7, <3>1, <5>1, <5>3 DEF Values!Reads, Values!Read, Values!Reading
        <5> QED BY <5>2, <5>3
      <4> QED BY <3>2, <4>1, <4>2 DEF Values!Reads
    <3> QED BY <1>4, <3>2, <3>4 DEF Values!Holds
  <2> QED BY <1>3, <1>9, <2>1, <2>2, JobStages DEF Values!InWork
<1>10. Done(j, d, Values!Idle)
  BY <1>1, <1>3, <1>4, <1>8, <1>9, Quits
<1> QED BY <1>1, <1>3, <1>10, IsWell

\* The same command, further on.
Follows(r, o) ==
  /\ r.kind = o.kind /\ r.draft = o.draft /\ r.to = o.to /\ r.from = o.from
  /\ r.value = o.value

\* A vault of a password manager.
LEMMA ItemWell ==
  ASSUME Values!IInv, NEW j \in Job, NEW o, o = job[j], Values!InWork(o), o.to \in External,
         store' = [store EXCEPT ![o.to][o.draft] = store'[o.to][o.draft]],
         store'[o.to][o.draft] \in Value \cup {Values!Gone},
         UNCHANGED <<aside, backup, Values!index, current, disturbed>>, NEW r,
         job' = [job EXCEPT ![j] = r], ~Values!Rewrites(o), o.pc # "report"
  PROVE  /\ Leaves(o.draft) /\ o.kind \in {"confirm", "migrate"}
         /\ Values!TypeOK /\ Values!Typed(o) /\ o.draft \in Draft /\ o.to \in Values!Place
         /\ ~Values!Changes(o, o.draft)
         /\ Values!Good(o) /\ o.kind = "migrate" /\ current'[o.draft] # {} =>
              Values!Holds(Values!Place, o.draft)'
         /\ Values!Good(o) /\ o.kind = "migrate" /\ Follows(r, o) => Values!Good(r)' /\ Found(r)'
<1>1. Values!TypeOK /\ Values!FilesAreWhole /\ Values!Typed(o) /\ o.draft \in Draft
      /\ o.to \in Values!Place
  BY IsWell
<1>2. o.to \notin Local
  BY ValuesAssumption DEF Values!Apart
<1>3. o.kind \in {"confirm", "migrate"} /\ ~Values!Changes(o, o.draft)
  BY <1>1, <1>2, JobStages DEF Values!InWork, Values!Changes
<1>4. /\ store' \in [Values!Place -> Values!Vault]
      /\ \A p \in Values!Place, e \in Draft : p # o.to \/ e # o.draft => store'[p][e] = store[p][e]
  BY <1>1 DEF Values!TypeOK, Values!Vault
<1>5. Values!FilesAreWhole'
  BY <1>1, <1>2, Tidied DEF Values!index, Values!Moves, Values!InVault
<1>6. UNCHANGED <<references, emptied>> /\ backup' = backup /\ current' = current
  BY DEF Values!index
<1>7. Leaves(o.draft)
  BY <1>1, <1>4, <1>5, <1>6 DEF Leaves, Values!TypeOK
<1>8. ASSUME Values!Good(o), o.kind = "migrate", current'[o.draft] # {}
      PROVE  Values!Holds(Values!Place, o.draft)'
  BY <1>1, <1>4, <1>6, <1>8, MigratesOn
<1>9. ASSUME Values!Good(o), o.kind = "migrate", Follows(r, o)
      PROVE  Values!Good(r)' /\ Found(r)'
  BY <1>1, <1>4, <1>6, <1>9, MigratesOn DEF Follows
<1> QED BY <1>1, <1>3, <1>7, <1>8, <1>9

LEMMA CreateItemWell ==
  ASSUME Values!IInv, NEW j \in Job, Values!CreateItem(j)
  PROVE  Well(j)
<1>1. PICK o : o = job[j]
  OBVIOUS
<1>2. o.pc = "place" /\ o.to \in External /\ Values!InWork(o) /\ ~Values!Rewrites(o)
  BY <1>1 DEF Values!CreateItem, Values!InWork, Values!Rewrites, Values!InCatalog
<1>3. Values!TypeOK /\ Values!Typed(o) /\ o.draft \in Draft /\ o.to \in Values!Place
  BY <1>1, <1>2, IsWell
<1>4. store' = [store EXCEPT ![o.to][o.draft] = o.value]
      /\ UNCHANGED <<aside, backup, Values!index, current, disturbed>>
  BY <1>1 DEF Values!CreateItem
<1>5. o.value \in Value \cup {Values!Gone} /\ store'[o.to][o.draft] = o.value
      /\ store' = [store EXCEPT ![o.to][o.draft] = store'[o.to][o.draft]]
  BY <1>3, <1>4 DEF Values!Typed, Values!JobType, Values!TypeOK, Values!Vault
<1>6. CASE Values!Goes(j, "register") /\ Values!Wrote(j) /\ UNCHANGED Values!ledger
  <2>1. PICK r : r = [o EXCEPT !.pc = "register"]
    OBVIOUS
  <2>2. job' = [job EXCEPT ![j] = r] /\ UNCHANGED <<draft, content>>
        /\ written' = IF o.kind = "confirm" THEN [written EXCEPT ![o.draft] = @ \cup {o.to}]
                      ELSE written
    BY <1>1, <1>3, <1>6, <2>1 DEF Values!Goes, Values!TypeOK, Values!ledger, Values!Wrote
  <2>3. /\ Leaves(o.draft) /\ o.kind \in {"confirm", "migrate"}
        /\ Values!Good(o) /\ o.kind = "migrate" /\ Follows(r, o) => Values!Good(r)' /\ Found(r)'
    BY <1>1, <1>2, <1>4, <1>5, <2>2, ItemWell
  <2>4. /\ Values!Typed(r) /\ r.kind = o.kind /\ r.draft = o.draft /\ r.to = o.to
        /\ r.pc = "register"
        /\ r.from = o.from /\ r.value = o.value /\ Values!InWork(r)
    <3>1. "register" \in UNION {Values!Stages[k] : k \in DOMAIN Values!Stages}
      BY DEF Values!Stages
    <3>2. /\ r \in Values!JobType /\ r.kind = o.kind /\ r.draft = o.draft /\ r.to = o.to
          /\ r.pc = "register" /\ r.from = o.from /\ r.value = o.value /\ r.io = o.io
      BY <1>3, <2>1, <3>1 DEF Values!Typed, Values!JobType
    <3>3. o.io = "none"
      BY <1>2, <1>3, ValuesAssumption DEF Values!Typed, Values!InVault, Values!InCatalog,
         Values!Apart
    <3> QED BY <1>3, <2>3, <3>2, <3>3 DEF Values!Typed, Values!Stages, Values!InWork
  <2>5. o.kind = "confirm" =>
          written' = [written EXCEPT ![o.draft] = IF r.pc = "place" THEN {} ELSE {r.to}]
    <3>1. o.kind = "confirm" => written[o.draft] = {}
      BY <1>1, <1>2, <1>3, OneWorks DEF Values!IInv, Values!WorksOn
    <3> QED BY <1>3, <2>2, <2>4, <3>1 DEF Values!TypeOK
  <2>6. ASSUME Values!Good(o) PROVE Values!Good(r)' /\ (o.kind = "confirm" \/ Found(r)')
    <3>1. CASE o.kind = "confirm"
      BY <1>5, <2>4, <3>1 DEF Values!Good, Values!Saves
    <3>2. CASE o.kind = "migrate"
      BY <2>3, <2>4, <2>6, <3>2 DEF Follows
    <3> QED BY <2>3, <3>1, <3>2
  <2>7. Done(j, o.draft, r)
    BY <1>1, <1>2, <1>4, <2>2, <2>3, <2>4, <2>5, <2>6, GoesOn
  <2> QED BY <1>1, <1>2, <2>7, IsWell
<1>7. CASE Values!Fails(j)
  <2>1. job' = [job EXCEPT ![j] = Values!Idle]
    BY <1>7 DEF Values!Fails, Values!Ends
  <2>2. /\ Leaves(o.draft) /\ o.kind \in {"confirm", "migrate"}
        /\ Values!Good(o) /\ o.kind = "migrate" =>
             (current'[o.draft] # {} => Values!Holds(Values!Place, o.draft)')
    BY <1>1, <1>2, <1>4, <1>5, <2>1, ItemWell
  <2>3. Done(j, o.draft, Values!Idle)
    BY <1>1, <1>2, <1>4, <1>7, <2>2, Quits
  <2> QED BY <1>1, <1>2, <2>3, IsWell
<1> QED BY <1>6, <1>7 DEF Values!CreateItem

LEMMA DeleteItemWell ==
  ASSUME Values!IInv, NEW j \in Job, Values!DeleteItem(j)
  PROVE  Well(j)
<1>1. PICK o : o = job[j]
  OBVIOUS
<1>2. o.pc = "remove" /\ o.to \in External /\ Values!InWork(o) /\ ~Values!Rewrites(o)
  BY <1>1 DEF Values!DeleteItem, Values!InWork, Values!Rewrites, Values!InCatalog
<1>3. Values!TypeOK /\ Values!Typed(o) /\ o.draft \in Draft /\ o.to \in Values!Place
      /\ o.kind = "migrate"
  BY <1>1, <1>2, IsWell, JobStages DEF Values!InWork
<1>4. /\ store' = [store EXCEPT ![o.to][o.draft] = Values!Gone]
      /\ UNCHANGED <<aside, backup, Values!index, current, disturbed>>
      /\ UNCHANGED <<Values!ledger, written>>
  BY <1>1 DEF Values!DeleteItem, Values!told
<1>5. Values!Gone \in Value \cup {Values!Gone} /\ store'[o.to][o.draft] = Values!Gone
      /\ store' = [store EXCEPT ![o.to][o.draft] = store'[o.to][o.draft]]
  BY <1>3, <1>4 DEF Values!TypeOK, Values!Vault
<1>6. CASE Values!Goes(j, "uncatalog")
  <2>1. PICK r : r = [o EXCEPT !.pc = "uncatalog"]
    OBVIOUS
  <2>2. job' = [job EXCEPT ![j] = r] /\ UNCHANGED <<draft, content, written>>
    BY <1>1, <1>3, <1>4, <1>6, <2>1 DEF Values!Goes, Values!TypeOK, Values!ledger
  <2>3. /\ Leaves(o.draft)
        /\ Values!Good(o) /\ Follows(r, o) => Values!Good(r)' /\ Found(r)'
    BY <1>1, <1>2, <1>3, <1>4, <1>5, <2>2, ItemWell
  <2>4. /\ Values!Typed(r) /\ r.kind = o.kind /\ r.draft = o.draft /\ r.to = o.to
        /\ r.from = o.from /\ r.value = o.value /\ Values!InWork(r)
    <3>1. "uncatalog" \in UNION {Values!Stages[k] : k \in DOMAIN Values!Stages}
      BY DEF Values!Stages
    <3>2. /\ r \in Values!JobType /\ r.kind = o.kind /\ r.draft = o.draft /\ r.to = o.to
          /\ r.pc = "uncatalog" /\ r.from = o.from /\ r.value = o.value /\ r.io = o.io
      BY <1>3, <2>1, <3>1 DEF Values!Typed, Values!JobType
    <3> QED BY <1>3, <3>2 DEF Values!Typed, Values!Stages, Values!InWork, Values!InCatalog
  <2>5. Done(j, o.draft, r)
    BY <1>1, <1>2, <1>3, <1>4, <2>2, <2>3, <2>4, GoesOn DEF Follows
  <2> QED BY <1>1, <1>2, <2>5, IsWell
<1>7. CASE Values!Ends(j)
  <2>1. job' = [job EXCEPT ![j] = Values!Idle]
    BY <1>7 DEF Values!Ends
  <2>2. /\ Leaves(o.draft)
        /\ Values!Good(o) => (current'[o.draft] # {} => Values!Holds(Values!Place, o.draft)')
    BY <1>1, <1>2, <1>3, <1>4, <1>5, <2>1, ItemWell
  <2>3. Done(j, o.draft, Values!Idle)
    BY <1>1, <1>2, <1>3, <1>4, <1>7, <2>2, Quits
  <2> QED BY <1>1, <1>2, <2>3, IsWell
<1> QED BY <1>6, <1>7 DEF Values!DeleteItem

LEMMA DropItemWell ==
  ASSUME Values!IInv, NEW j \in Job, Values!DropItem(j)
  PROVE  Well(j)
<1>1. PICK o : o = job[j]
  OBVIOUS
<1>2. o.pc = "rollback" /\ o.to \in External /\ Values!InWork(o) /\ ~Values!Rewrites(o)
  BY <1>1 DEF Values!DropItem, Values!InWork, Values!Rewrites, Values!InCatalog
<1>3. Values!TypeOK /\ Values!Typed(o) /\ o.draft \in Draft /\ o.to \in Values!Place
  BY <1>1, <1>2, IsWell
<1>4. /\ store' \in {store, [store EXCEPT ![o.to][o.draft] = Values!Gone]} /\ Values!Fails(j)
      /\ UNCHANGED <<aside, backup, Values!index, current, disturbed>>
  BY <1>1 DEF Values!DropItem
<1>5. /\ store'[o.to][o.draft] \in Value \cup {Values!Gone}
      /\ store' = [store EXCEPT ![o.to][o.draft] = store'[o.to][o.draft]]
  BY <1>3, <1>4 DEF Values!TypeOK, Values!Vault
<1>6. job' = [job EXCEPT ![j] = Values!Idle]
  BY <1>4 DEF Values!Fails, Values!Ends
<1>7. /\ Leaves(o.draft) /\ o.kind \in {"confirm", "migrate"}
      /\ Values!Good(o) /\ o.kind = "migrate" =>
           (current'[o.draft] # {} => Values!Holds(Values!Place, o.draft)')
  BY <1>1, <1>2, <1>4, <1>5, <1>6, ItemWell
<1>8. Done(j, o.draft, Values!Idle)
  BY <1>1, <1>2, <1>4, <1>7, Quits
<1> QED BY <1>1, <1>2, <1>8, IsWell

LEMMA PlaceFailsWell ==
  ASSUME Values!IInv, NEW j \in Job, Values!PlaceFails(j)
  PROVE  Well(j)
<1>1. /\ job[j].pc \in {"place", "remove"} /\ job[j].io # "cut" /\ Values!Fails(j)
      /\ UNCHANGED <<Values!vaults, Values!index, current, disturbed>>
  BY DEF Values!PlaceFails
<1>2. Values!InWork(job[j]) /\ ~Values!Rewrites(job[j]) /\ ~Values!Moves(job[j], job[j].to)
  BY <1>1 DEF Values!InWork, Values!Rewrites, Values!InCatalog, Values!Moves
<1>3. ~Values!Changes(job[j], job[j].draft)
  BY <1>1, <1>2, IsWell, JobStages DEF Values!Changes
<1> QED BY <1>1, <1>2, <1>3, QuietQuits

\* A command that writes the catalog.
LEMMA CatalogWell ==
  ASSUME Values!IInv, NEW j \in Job, NEW o, o = job[j], Values!InCatalog(o)
  PROVE  /\ Values!InWork(o) /\ Values!TypeOK /\ Values!FilesAreWhole /\ Values!Typed(o)
         /\ o.draft \in Draft /\ o.to \in Values!Place
         /\ o.pc = "snapshot" <=> o.kind = "update"
         /\ o.pc \in {"annotate", "uncatalog"} => o.kind = "migrate"
         /\ o.pc # "register" => o.kind # "confirm"
         /\ \A p : ~Values!Moves(o, p)
<1>1. Values!InWork(o)
  BY DEF Values!InWork, Values!InCatalog
<1>2. Values!TypeOK /\ Values!FilesAreWhole /\ Values!Typed(o) /\ o.draft \in Draft
      /\ o.to \in Values!Place
  BY <1>1, IsWell
<1>3. \A p : ~Values!Moves(o, p)
  BY DEF Values!Moves, Values!InVault, Values!InCatalog
<1> QED BY <1>1, <1>2, <1>3, JobStages DEF Values!InCatalog, Values!InWork

LEMMA WriteWell ==
  ASSUME Values!IInv, NEW j \in Job, Values!Write(j)
  PROVE  Well(j)
<1>1. PICK o : o = job[j]
  OBVIOUS
<1>2. Values!InCatalog(o) /\ o.io = "cut"
  BY <1>1 DEF Values!Write
<1>3. /\ Values!InWork(o) /\ Values!TypeOK /\ Values!FilesAreWhole /\ Values!Typed(o)
      /\ o.draft \in Draft /\ o.to \in Values!Place
      /\ o.pc = "snapshot" <=> o.kind = "update"
      /\ o.pc \in {"annotate", "uncatalog"} => o.kind = "migrate"
      /\ o.pc # "register" => o.kind # "confirm"
      /\ \A p : ~Values!Moves(o, p)
  BY <1>1, <1>2, CatalogWell
<1> DEFINE d == o.draft
<1>4. PICK r : r = [o EXCEPT !.pc = Values!AfterWrite(j), !.io = "none", !.read = Values!Nothing]
  OBVIOUS
<1>5. PICK e : e = Values!Entry(j)
  OBVIOUS
<1>6. PICK new : new = [o.read EXCEPT ![d][o.to] = e]
  OBVIOUS
<1>7. /\ IF emptied
         THEN references' = new /\ disturbed' = disturbed \cup Values!Differ(o.read, references)
         ELSE /\ references' \in {new, Values!Nothing, references}
              /\ disturbed' = disturbed \cup Values!Differ(references', references) \cup {d}
      /\ emptied' = FALSE /\ job' = [job EXCEPT ![j] = r]
      /\ UNCHANGED <<draft, content, store, aside, backup, current, written>>
  BY <1>1, <1>4, <1>5, <1>6 DEF Values!Write, Values!Recorded, Values!Disturbs, Values!ledger,
     Values!vaults, Values!told
<1>8. /\ r.kind = o.kind /\ r.draft = o.draft /\ r.to = o.to /\ r.from = o.from
      /\ r.value = o.value /\ r.io = "none" /\ r.old = o.old /\ r.saved = o.saved
      /\ r.pc = Values!AfterWrite(j)
  BY <1>3, <1>4 DEF Values!Typed, Values!JobType
<1>9. r.pc = IF o.pc = "register" /\ o.kind = "migrate" THEN "annotate"
             ELSE IF o.pc \in {"snapshot", "annotate"} THEN "verify" ELSE "report"
  BY <1>1, <1>8 DEF Values!AfterWrite
<1>10. Values!Typed(r) /\ Values!InWork(r)
  <2>1. r \in Values!JobType
    <3>1. Values!AfterWrite(j) \in UNION {Values!Stages[k] : k \in DOMAIN Values!Stages}
      BY <1>8, <1>9 DEF Values!Stages
    <3> QED BY <1>3, <1>4, <3>1, FileKept DEF Values!Typed, Values!JobType
  <2> QED BY <1>2, <1>3, <1>8, <1>9, <2>1, JobStages DEF Values!Typed, Values!Stages,
     Values!InWork, Values!InCatalog
<1>11. /\ o.pc = "register" => e = Values!Live
       /\ o.pc = "snapshot" => e = o.value /\ o.value \in Value
       /\ e \in Value \cup {Values!Absent, Values!Live}
  <2>1. o.read \in Values!Index
    BY <1>3 DEF Values!Typed, Values!JobType
  <2>2. CASE o.pc = "register"
    BY <1>1, <1>5, <2>2 DEF Values!Entry
  <2>3. CASE o.pc = "snapshot"
    BY <1>1, <1>3, <1>5, <2>3, JobStages DEF Values!Entry
  <2>4. CASE o.pc = "annotate"
    BY <1>1, <1>3, <1>5, <2>1, <2>4 DEF Values!Entry, Values!Index
  <2>5. CASE o.pc = "uncatalog"
    BY <1>1, <1>5, <2>5 DEF Values!Entry
  <2> QED BY <1>2, <2>2, <2>3, <2>4, <2>5 DEF Values!InCatalog
<1>12. /\ new \in Values!Index /\ new[d] = [o.read[d] EXCEPT ![o.to] = e]
       /\ \A f \in Draft \ {d} : new[f] = o.read[f]
  BY <1>3, <1>6, <1>11 DEF Values!Typed, Values!JobType, Values!Index
<1>13. Values!FilesAreWhole'
  BY <1>1, <1>3, <1>7, Tidied
<1>14. Leaves(d)
  <2>1. references' \in Values!Index
    BY <1>3, <1>7, <1>12, FileKept DEF Values!TypeOK
  <2>2. \A f \in Draft \ {d} : f \notin disturbed' => references'[f] = references[f]
    BY <1>7, <1>12 DEF Values!Differ
  <2>3. disturbed \subseteq disturbed' /\ disturbed' \subseteq Draft
    BY <1>3, <1>7 DEF Values!Differ, Values!TypeOK
  <2> QED BY <1>3, <1>7, <1>13, <2>1, <2>2, <2>3 DEF Leaves, Values!TypeOK
<1>15. o.kind = "confirm" =>
         written' = [written EXCEPT ![d] = IF r.pc = "place" THEN {} ELSE {r.to}]
  <2>1. o.kind = "confirm" => written[d] = {o.to} /\ r.pc # "place"
    BY <1>1, <1>2, <1>3, <1>9, OneWorks DEF Values!IInv, Values!WorksOn, Values!InCatalog
  <2> QED BY <1>3, <1>7, <1>8, <2>1 DEF Values!TypeOK
<1>16. ASSUME d \notin disturbed', Values!Good(o), Found(o)
       PROVE  Values!Good(r)' /\ (o.kind = "confirm" \/ Found(r)')
  <2>1. references'[d] = [references[d] EXCEPT ![o.to] = e]
    BY <1>3, <1>7, <1>12, <1>16 DEF Values!Differ
  <2>2. references'[d][o.to] = e
        /\ \A p \in Values!Place \ {o.to} : references'[d][p] = references[d][p]
    BY <1>3, <2>1 DEF Values!TypeOK, Values!Index
  <2>3. CASE o.kind = "confirm"
    <3>1. o.pc = "register" /\ r.pc = "report"
      BY <1>3, <1>9, <2>3
    <3> QED BY <1>7, <1>8, <1>11, <1>16, <2>2, <2>3, <3>1 DEF Values!Good, Values!Saves
  <2>4. CASE o.kind = "migrate"
    <3>1. o.pc # "report"
      BY <1>2 DEF Values!InCatalog
    <3> QED BY <1>3, <1>7, <1>8, <1>16, <2>2, <2>4, <3>1, MigratesOn
  <2>5. CASE o.kind = "update"
    <3>1. o.pc = "snapshot" /\ r.pc = "verify" /\ e = o.value /\ o.value \in Value
      BY <1>3, <1>9, <1>11, <2>5
    <3>2. /\ store[o.to][d] = o.value /\ references[d] = o.saved[d]
          /\ current[d] # {} => Values!Returns(o)
      BY <1>16, <2>5, <3>1 DEF Values!Good, Values!Updates
    <3>3. current[d] # {} => Values!Returns(r)'
      BY <1>7, <1>8, <3>2 DEF Values!Returns
    <3>4. references'[d] = Values!Beside(r)
      BY <1>8, <2>1, <3>1, <3>2 DEF Values!Beside
    <3>5. Values!Reads(Values!Place, d, r.value)'
      BY <1>3, <1>8, <2>2, <3>1, ValuesAssumption DEF Values!Reads, Values!Read, Values!Reading,
         Values!Apart
    <3>6. Values!Updates(r)'
      BY <1>7, <1>8, <2>2, <3>1, <3>2, <3>3, <3>4 DEF Values!Updates, Values!Beside
    <3>7. Found(r)'
      BY <1>8, <2>5, <3>1, <3>5 DEF Found, Values!Changes
    <3> QED BY <1>8, <2>5, <3>6, <3>7 DEF Values!Good
  <2> QED BY <1>3, <2>3, <2>4, <2>5, JobStages DEF Values!InWork
<1>17. Done(j, d, r)
  BY <1>1, <1>3, <1>7, <1>8, <1>10, <1>14, <1>15, <1>16, GoesOn
<1> QED BY <1>1, <1>3, <1>17, IsWell

LEMMA CatalogFailsWell ==
  ASSUME Values!IInv, NEW j \in Job, Values!CatalogFails(j)
  PROVE  Well(j)
<1>1. PICK o : o = job[j]
  OBVIOUS
<1>2. Values!InCatalog(o)
  BY <1>1 DEF Values!CatalogFails
<1>3. /\ Values!InWork(o) /\ Values!TypeOK /\ Values!FilesAreWhole /\ Values!Typed(o)
      /\ o.draft \in Draft /\ o.to \in Values!Place
      /\ o.pc = "snapshot" <=> o.kind = "update"
      /\ o.pc \in {"annotate", "uncatalog"} => o.kind = "migrate"
      /\ o.pc # "register" => o.kind # "confirm"
      /\ \A p : ~Values!Moves(o, p)
  BY <1>1, <1>2, CatalogWell
<1> DEFINE d == o.draft
<1>4. /\ IF o.io = "cut" /\ ~(emptied /\ o.pc = "snapshot")
         THEN references' \in {Values!File, Values!Nothing} ELSE references' = references
      /\ disturbed' = disturbed \cup Values!Differ(references', references)
      /\ UNCHANGED <<draft, content, store, aside, backup, emptied, current, written>>
  BY <1>1 DEF Values!CatalogFails, Values!Disturbs, Values!ledger, Values!vaults, Values!told
<1>5. PICK back : back = [o EXCEPT !.io = "none", !.read = Values!Nothing]
  OBVIOUS
<1>6. /\ back \in Values!JobType /\ back.kind = o.kind /\ back.draft = o.draft /\ back.to = o.to
      /\ back.from = o.from /\ back.value = o.value /\ back.io = "none" /\ back.old = o.old
      /\ back.saved = o.saved /\ back.pc = o.pc
  BY <1>3, <1>5, FileKept DEF Values!Typed, Values!JobType
<1>7. \/ o.kind = "migrate" /\ job' = [job EXCEPT ![j] = Values!Idle]
      \/ /\ o.pc # "annotate"
         /\ job' = [job EXCEPT ![j] = [back EXCEPT !.pc = IF o.pc = "snapshot" THEN "restore"
                                                           ELSE "rollback"]]
      \/ /\ o.pc = "annotate"
         /\ job' = [job EXCEPT ![j] = [back EXCEPT !.pc = "remove", !.from = "none",
                                                   !.value = Values!Gone]]
  BY <1>1, <1>3, <1>5, <1>6 DEF Values!CatalogFails, Values!GoesBack, Values!Ends
<1>8. /\ references' \in Values!Index /\ disturbed' \subseteq Draft
      /\ \A f \in Draft : f \notin disturbed' => references'[f] = references[f]
  BY <1>3, <1>4, FileKept DEF Values!TypeOK, Values!Differ
<1>9. emptied' => \/ references' = Values!Nothing
                  \/ emptied /\ o.io = "cut" /\ o.pc = "snapshot"
                  \/ emptied /\ references' = references /\ ~Values!Rewrites(o)
  BY <1>2, <1>4 DEF Values!File, Values!Rewrites, Values!InCatalog
<1>10. ASSUME Values!FilesAreWhole' PROVE Leaves(d)
  BY <1>3, <1>4, <1>8, <1>10 DEF Leaves, Values!TypeOK
<1>11. CASE o.kind = "migrate" /\ job' = [job EXCEPT ![j] = Values!Idle]
  <2>1. Values!FilesAreWhole'
    BY <1>1, <1>3, <1>4, <1>9, <1>11, Tidied
  <2>2. ASSUME d \notin disturbed', Values!Good(o), current'[d] # {}
        PROVE  Values!Holds(Values!Place, d)'
    <3>1. o.pc # "report" /\ references'[d] = references[d]
      BY <1>2, <1>3, <1>8, <2>2 DEF Values!InCatalog
    <3> QED BY <1>3, <1>4, <1>11, <2>2, <3>1, MigratesOn
  <2>3. Values!Ends(j) /\ UNCHANGED <<Values!ledger, written>>
    BY <1>4, <1>11 DEF Values!Ends, Values!ledger
  <2>4. Done(j, d, Values!Idle)
    BY <1>1, <1>3, <1>10, <1>11, <2>1, <2>2, <2>3, Quits
  <2> QED BY <1>1, <1>3, <2>4, IsWell
<1>12. CASE /\ o.pc # "annotate"
            /\ job' = [job EXCEPT ![j] = [back EXCEPT !.pc = IF o.pc = "snapshot"
                                                             THEN "restore" ELSE "rollback"]]
  <2>1. PICK pc : pc = IF o.pc = "snapshot" THEN "restore" ELSE "rollback"
    OBVIOUS
  <2>2. PICK r : r = [back EXCEPT !.pc = pc]
    OBVIOUS
  <2>3. job' = [job EXCEPT ![j] = r]
    BY <1>12, <2>1, <2>2
  <2>4. /\ Values!Typed(r) /\ Values!InWork(r) /\ r.kind = o.kind /\ r.draft = o.draft
        /\ r.to = o.to
        /\ r.from = o.from /\ r.value = o.value /\ r.io = "none" /\ r.old = o.old
        /\ r.saved = o.saved /\ r.pc = pc
    <3>1. pc \in UNION {Values!Stages[k] : k \in DOMAIN Values!Stages}
      BY <2>1 DEF Values!Stages
    <3>2. /\ r \in Values!JobType /\ r.kind = o.kind /\ r.draft = o.draft /\ r.to = o.to
          /\ r.from = o.from /\ r.value = o.value /\ r.io = "none" /\ r.old = o.old
          /\ r.saved = o.saved /\ r.pc = pc
      BY <1>6, <2>2, <3>1 DEF Values!JobType
    <3> QED BY <1>2, <1>3, <2>1, <3>2, JobStages DEF Values!Typed, Values!Stages, Values!InWork
  <2>5. Values!FilesAreWhole'
    <3>1. emptied /\ o.io = "cut" /\ o.pc = "snapshot" => Values!Rewrites(r)
      BY <2>1, <2>4 DEF Values!Rewrites
    <3> QED BY <1>1, <1>3, <1>4, <1>9, <2>3, <3>1, Tidied
  <2>6. o.kind = "confirm" =>
          written' = [written EXCEPT ![d] = IF r.pc = "place" THEN {} ELSE {r.to}]
    <3>1. o.kind = "confirm" => written[d] = {o.to} /\ r.pc # "place"
      BY <1>1, <1>2, <1>3, <2>1, <2>4, OneWorks DEF Values!IInv, Values!WorksOn, Values!InCatalog
    <3> QED BY <1>3, <1>4, <2>4, <3>1 DEF Values!TypeOK
  <2>7. ASSUME d \notin disturbed', Values!Good(o), Found(o)
        PROVE  Values!Good(r)' /\ (o.kind = "confirm" \/ Found(r)')
    <3>1. references'[d] = references[d]
      BY <1>3, <1>8, <2>7
    <3>2. CASE o.kind = "confirm"
      BY <1>3, <2>1, <2>4, <3>2 DEF Values!Good, Values!Saves
    <3>3. CASE o.kind = "migrate"
      <4>1. o.pc # "report"
        BY <1>2 DEF Values!InCatalog
      <4> QED BY <1>3, <1>4, <2>4, <2>7, <3>1, <3>3, <4>1, MigratesOn
    <3>4. CASE o.kind = "update"
      <4>1. o.pc = "snapshot" /\ r.pc = "restore"
        BY <1>3, <2>1, <2>4, <3>4
      <4>2. /\ store[o.to][d] = o.value /\ references[d] = o.saved[d]
            /\ current[d] # {} => Values!Returns(o)
        BY <2>7, <3>4, <4>1 DEF Values!Good, Values!Updates
      <4>3. current[d] # {} => Values!Returns(r)'
        BY <1>4, <2>4, <4>2 DEF Values!Returns
      <4>4. Values!Updates(r)'
        BY <1>4, <2>4, <3>1, <4>1, <4>2, <4>3 DEF Values!Updates
      <4>5. Values!Holds(Values!Place, d) => Values!Holds(Values!Place, d)'
        BY <1>3, <1>4, <3>1, ReadsStay
      <4>6. Values!Reads(Values!Place, d, o.value) => Values!Reads(Values!Place, d, r.value)'
        BY <1>3, <1>4, <2>4, <3>1, ReadsStay
      <4>7. Found(r)'
        BY <1>4, <2>4, <2>7, <3>4, <4>1, <4>5, <4>6 DEF Found, Values!Changes
      <4> QED BY <2>4, <3>4, <4>4, <4>7 DEF Values!Good
    <3> QED BY <1>3, <3>2, <3>3, <3>4, JobStages DEF Values!InWork
  <2>8. Done(j, d, r)
    BY <1>1, <1>3, <1>4, <1>10, <2>3, <2>4, <2>5, <2>6, <2>7, GoesOn
  <2> QED BY <1>1, <1>3, <2>8, IsWell
<1>13. CASE /\ o.pc = "annotate"
            /\ job' = [job EXCEPT ![j] = [back EXCEPT !.pc = "remove", !.from = "none",
                                                      !.value = Values!Gone]]
  <2>1. PICK r : r = [back EXCEPT !.pc = "remove", !.from = "none", !.value = Values!Gone]
    OBVIOUS
  <2>2. job' = [job EXCEPT ![j] = r] /\ o.kind = "migrate"
    BY <1>3, <1>13, <2>1
  <2>3. /\ Values!Typed(r) /\ Values!InWork(r) /\ r.kind = "migrate" /\ r.draft = o.draft
        /\ r.to = o.to
        /\ r.from = "none"
    <3>1. "remove" \in UNION {Values!Stages[k] : k \in DOMAIN Values!Stages}
      BY DEF Values!Stages
    <3>2. /\ r \in Values!JobType /\ r.kind = "migrate" /\ r.draft = o.draft /\ r.to = o.to
          /\ r.from = "none" /\ r.value = Values!Gone /\ r.io = "none" /\ r.pc = "remove"
      BY <1>6, <2>1, <2>2, <3>1 DEF Values!JobType
    <3> QED BY <1>3, <3>2 DEF Values!Typed, Values!Stages, Values!InWork
  <2>4. Values!FilesAreWhole'
    BY <1>1, <1>3, <1>4, <1>9, <1>13, <2>2, Tidied
  <2>5. ASSUME d \notin disturbed', Values!Good(o)
        PROVE  Values!Good(r)' /\ Found(r)'
    <3>1. references'[d] = references[d] /\ o.pc # "report"
      BY <1>3, <1>8, <1>13, <2>5
    <3> QED BY <1>3, <1>4, <2>2, <2>3, <2>5, <3>1, MigratesOn
  <2>6. Done(j, d, r)
    BY <1>1, <1>3, <1>4, <1>10, <2>2, <2>3, <2>4, <2>5, GoesOn
  <2> QED BY <1>1, <1>3, <2>6, IsWell
<1> QED BY <1>7, <1>11, <1>12, <1>13

LEMMA RestoreWell ==
  ASSUME Values!IInv, NEW j \in Job, Values!Restore(j)
  PROVE  Well(j)
<1>1. PICK o : o = job[j]
  OBVIOUS
<1>2. o.pc = "restore" /\ Values!InWork(o)
  BY <1>1 DEF Values!Restore, Values!InWork
<1>3. /\ Values!TypeOK /\ Values!FilesAreWhole /\ Values!Typed(o) /\ o.draft \in Draft
      /\ o.to \in Values!Place
      /\ o.kind = "update" /\ o.value \in Value /\ o.io = "none" /\ o.saved \in Values!Index
  BY <1>1, <1>2, IsWell, JobStages DEF Values!Typed, Values!JobType, Values!InVault,
     Values!InCatalog
<1> DEFINE d == o.draft
<1>4. PICK r : r = [o EXCEPT !.pc = "rollback"]
  OBVIOUS
<1>5. job' = [job EXCEPT ![j] = r] /\ UNCHANGED <<draft, content, store, aside, backup, written>>
  BY <1>1, <1>3, <1>4 DEF Values!Restore, Values!Goes, Values!TypeOK, Values!ledger, Values!vaults
<1>6. \/ /\ references' = o.saved /\ emptied' = FALSE /\ current' = current
         /\ disturbed' = disturbed \cup (Values!Differ(o.saved, references) \ {d})
      \/ /\ references' = Values!File /\ emptied' = emptied
         /\ disturbed' = disturbed \cup Values!Differ(Values!File, references)
         /\ current' = IF current[d] # {}
                       THEN [current EXCEPT ![d] = @ \cup {o.value}] ELSE current
  BY <1>1, <1>3 DEF Values!Restore, Values!Disturbs, Values!Unsure
<1>7. /\ Values!Typed(r) /\ Values!InWork(r) /\ r.kind = "update" /\ r.draft = d /\ r.to = o.to
      /\ r.value = o.value /\ r.old = o.old /\ r.saved = o.saved /\ r.pc = "rollback"
  <2>1. "rollback" \in UNION {Values!Stages[k] : k \in DOMAIN Values!Stages}
    BY DEF Values!Stages
  <2>2. /\ r \in Values!JobType /\ r.kind = "update" /\ r.draft = d /\ r.to = o.to /\ r.io = "none"
        /\ r.value = o.value /\ r.old = o.old /\ r.saved = o.saved /\ r.pc = "rollback"
        /\ r.from = o.from
    BY <1>3, <1>4, <2>1 DEF Values!Typed, Values!JobType
  <2> QED BY <1>3, <2>2 DEF Values!Typed, Values!Stages, Values!InWork
<1>8. Values!FilesAreWhole'
  <2>1. emptied' => references' = Values!Nothing
    BY <1>6 DEF Values!File
  <2>2. \A p : ~Values!Moves(o, p)
    BY <1>2 DEF Values!Moves, Values!InVault
  <2> QED BY <1>1, <1>3, <1>5, <2>1, <2>2, Tidied
<1>9. /\ references' \in Values!Index /\ disturbed' \subseteq Draft /\ emptied' \in BOOLEAN
      /\ current' \in [Draft -> SUBSET Value]
      /\ \A f \in Draft \ {d} : current'[f] = current[f]
      /\ current[d] \subseteq current'[d] /\ (current'[d] # {} => current[d] # {})
      /\ \A f \in Draft \ {d} : f \notin disturbed' => references'[f] = references[f]
  <2>1. references' \in Values!Index /\ emptied' \in BOOLEAN
    BY <1>3, <1>6, FileKept DEF Values!TypeOK
  <2>2. /\ disturbed' \subseteq Draft
        /\ \A f \in Draft \ {d} : f \notin disturbed' => references'[f] = references[f]
    BY <1>3, <1>6 DEF Values!TypeOK, Values!Differ
  <2>3. /\ current' \in [Draft -> SUBSET Value]
        /\ \A f \in Draft \ {d} : current'[f] = current[f]
        /\ current[d] \subseteq current'[d] /\ (current'[d] # {} => current[d] # {})
    BY <1>3, <1>6 DEF Values!TypeOK
  <2> QED BY <2>1, <2>2, <2>3
<1>10. Leaves(d)
  BY <1>3, <1>5, <1>6, <1>8, <1>9 DEF Leaves, Values!TypeOK
<1>11. ASSUME d \notin disturbed', Values!Good(o), Found(o)
       PROVE  Values!Good(r)' /\ Found(r)'
  <2>1. /\ store[o.to][d] = o.value /\ references[d] \in {o.saved[d], Values!Beside(o)}
        /\ current[d] # {} => Values!Returns(o)
    BY <1>2, <1>3, <1>11 DEF Values!Good, Values!Updates
  <2>2. Values!Beside(r) = Values!Beside(o)
    BY <1>7 DEF Values!Beside
  <2>3. current'[d] # {} => Values!Returns(r)'
    BY <1>5, <1>7, <1>9, <2>1 DEF Values!Returns
  <2>4. \/ references'[d] = o.saved[d] /\ current' = current
        \/ /\ references'[d] = references[d]
           /\ current'[d] = {} \/ o.value \in current'[d]
    BY <1>3, <1>6, <1>11 DEF Values!Differ, Values!TypeOK
  <2>5. Values!Updates(r)'
    BY <1>5, <1>7, <2>1, <2>2, <2>3, <2>4 DEF Values!Updates, Values!Beside
  <2>6. Found(r)'
    <3>1. CASE references'[d] = references[d]
      <4>1. Values!Holds(Values!Place, d) => Values!Holds(Values!Place, d)'
        BY <1>3, <1>5, <1>9, <3>1, ReadsStay
      <4>2. Values!Reads(Values!Place, d, o.value) => Values!Reads(Values!Place, d, r.value)'
        BY <1>3, <1>5, <1>7, <3>1, ReadsStay
      <4> QED BY <1>7, <1>9, <1>11, <4>1, <4>2 DEF Found, Values!Changes
    <3>2. CASE references'[d] = o.saved[d] /\ current' = current
      <4>1. SUFFICES ASSUME current[d] # {}
                     PROVE  \/ Values!Holds(Values!Place, d)'
                            \/ Values!Reads(Values!Place, d, r.value)'
        BY <1>7, <3>2 DEF Found, Values!Changes
      <4>2. PICK v \in current[d] :
              \/ <<d, v>> \in backup
              \/ \E p \in Values!Place : Values!Reading(o.saved[d][p], IF p = o.to THEN o.old[d]
                                                                       ELSE store[p][d]) = v
        BY <2>1, <4>1 DEF Values!Returns
      <4>3. CASE <<d, v>> \in backup
        BY <1>5, <3>2, <4>2, <4>3 DEF Values!Holds, Values!Reads
      <4>4. CASE \E p \in Values!Place : Values!Reading(o.saved[d][p], IF p = o.to THEN o.old[d]
                                                                       ELSE store[p][d]) = v
        <5>1. PICK p \in Values!Place : Values!Reading(o.saved[d][p], IF p = o.to THEN o.old[d]
                                                                      ELSE store[p][d]) = v
          BY <4>4
        <5>2. CASE p # o.to \/ o.saved[d][p] # Values!Live
          BY <1>5, <3>2, <4>2, <5>1, <5>2 DEF Values!Holds, Values!Reads, Values!Read,
             Values!Reading
        <5>3. CASE p = o.to /\ o.saved[d][p] = Values!Live
          BY <1>3, <1>5, <1>7, <2>1, <3>2, <5>3 DEF Values!Reads, Values!Read, Values!Reading
        <5> QED BY <5>2, <5>3
      <4> QED BY <4>2, <4>3, <4>4
    <3> QED BY <2>4, <3>1, <3>2
  <2> QED BY <1>7, <2>5, <2>6 DEF Values!Good
<1>12. Done(j, d, r)
  BY <1>1, <1>2, <1>3, <1>5, <1>7, <1>10, <1>11, GoesOn
<1> QED BY <1>1, <1>2, <1>12, IsWell

\* A value that a change can bring back is read once its vault is rolled back.
LEMMA ReturnsHold ==
  ASSUME Values!TypeOK, NEW o, Values!Typed(o), o.kind = "update", o.pc = "rollback",
         Values!Good(o),
         references'[o.draft] = references[o.draft], backup \subseteq backup',
         current[o.draft] # {}, current[o.draft] \subseteq current'[o.draft],
         \A p \in Values!Place \ {o.to} : store'[p][o.draft] = store[p][o.draft],
         \/ store'[o.to][o.draft] = o.old[o.draft]
         \/ <<o.draft, o.old[o.draft]>> \in backup'
  PROVE  Values!Holds(Values!Place, o.draft)'
<1> DEFINE d == o.draft
<1>1. /\ d \in Draft /\ o.to \in Values!Place /\ o.value \in Value /\ o.saved \in Values!Index
  BY JobStages DEF Values!Typed, Values!JobType
<1>2. /\ Values!Returns(o) /\ references[d] \in {o.saved[d], Values!Beside(o)}
      /\ references[d] = o.saved[d] \/ o.value \in current[d]
  BY DEF Values!Good, Values!Updates
<1>3. o.value \notin {Values!Gone, Values!Absent, Values!Live}
  BY <1>1, ValuesAssumption DEF Values!Apart
<1>4. CASE references[d] = o.saved[d]
  <2>1. PICK v \in current[d] :
          \/ <<d, v>> \in backup
          \/ \E p \in Values!Place : Values!Reading(o.saved[d][p], IF p = o.to THEN o.old[d]
                                                                   ELSE store[p][d]) = v
    BY <1>2 DEF Values!Returns
  <2>2. CASE <<d, v>> \in backup
    BY <2>1, <2>2 DEF Values!Holds, Values!Reads
  <2>3. CASE \E p \in Values!Place : Values!Reading(o.saved[d][p], IF p = o.to THEN o.old[d]
                                                                   ELSE store[p][d]) = v
    <3>1. PICK p \in Values!Place : Values!Reading(o.saved[d][p], IF p = o.to THEN o.old[d]
                                                                  ELSE store[p][d]) = v
      BY <2>3
    <3>2. CASE p # o.to \/ o.saved[d][p] # Values!Live
      BY <1>4, <2>1, <3>1, <3>2 DEF Values!Holds, Values!Reads, Values!Read, Values!Reading
    <3>3. CASE p = o.to /\ o.saved[d][p] = Values!Live
      <4>1. o.old[d] = v
        BY <3>1, <3>3 DEF Values!Reading
      <4> QED BY <1>4, <2>1, <3>3, <4>1 DEF Values!Holds, Values!Reads, Values!Read, Values!Reading
    <3> QED BY <3>2, <3>3
  <2> QED BY <2>1, <2>2, <2>3
<1>5. CASE references[d] = Values!Beside(o) /\ o.value \in current[d]
  <2>1. references'[d][o.to] = o.value
    BY <1>1, <1>5 DEF Values!Beside, Values!Index
  <2> QED BY <1>1, <1>3, <1>5, <2>1 DEF Values!Holds, Values!Reads, Values!Read, Values!Reading
<1> QED BY <1>2, <1>4, <1>5

LEMMA RollbackWell ==
  ASSUME Values!IInv, NEW j \in Job, Values!Rollback(j)
  PROVE  Well(j)
<1>1. PICK o : o = job[j]
  OBVIOUS
<1>2. o.pc = "rollback" /\ Values!InWork(o) /\ ~Values!Rewrites(o) /\ \A p : ~Values!Moves(o, p)
  BY <1>1 DEF Values!Rollback, Values!InWork, Values!Rewrites, Values!InCatalog, Values!Moves,
     Values!InVault
<1>3. /\ Values!TypeOK /\ Values!FilesAreWhole /\ Values!Typed(o) /\ o.draft \in Draft
      /\ o.to \in Values!Place
      /\ o.old \in Values!Vault
  BY <1>1, <1>2, IsWell DEF Values!Typed, Values!JobType
<1> DEFINE d == o.draft
<1>4. /\ store' = [store EXCEPT ![o.to] = o.old] /\ Values!Fails(j)
      /\ disturbed' = disturbed \cup (Values!Differ(o.old, store[o.to]) \ {d})
      /\ UNCHANGED <<aside, backup, references, emptied, current>>
  BY <1>1 DEF Values!Rollback, Values!Restored, Values!Disturbs, Values!index
<1>5. job' = [job EXCEPT ![j] = Values!Idle]
  BY <1>4 DEF Values!Fails, Values!Ends
<1>6. Values!FilesAreWhole'
  BY <1>1, <1>2, <1>3, <1>4, <1>5, Tidied
<1>7. /\ store' \in [Values!Place -> Values!Vault] /\ store'[o.to] = o.old
      /\ \A p \in Values!Place \ {o.to} : store'[p] = store[p]
  BY <1>3, <1>4 DEF Values!TypeOK
<1>8. Leaves(d)
  <2>1. \A e \in Draft \ {d} : e \notin disturbed' =>
          \A p \in Values!Place : store'[p][e] = store[p][e]
    BY <1>4, <1>7 DEF Values!Differ
  <2> QED BY <1>3, <1>4, <1>6, <1>7, <2>1 DEF Leaves, Values!TypeOK, Values!Differ
<1>9. ASSUME Values!Good(o), o.kind # "confirm", current'[d] # {}
      PROVE  Values!Holds(Values!Place, d)'
  <2>1. CASE o.kind = "migrate"
    BY <1>2, <1>3, <1>4, <1>7, <1>9, <2>1, MigratesOn
  <2>2. CASE o.kind = "update"
    BY <1>2, <1>3, <1>4, <1>7, <1>9, <2>2, ReturnsHold
  <2> QED BY <1>2, <1>3, <1>9, <2>1, <2>2, JobStages DEF Values!InWork
<1>10. Done(j, d, Values!Idle)
  BY <1>1, <1>2, <1>4, <1>8, <1>9, Quits
<1> QED BY <1>1, <1>2, <1>10, IsWell

LEMMA RollbackFailsWell ==
  ASSUME Values!IInv, NEW j \in Job, Values!RollbackFails(j)
  PROVE  Well(j)
<1>1. PICK o : o = job[j]
  OBVIOUS
<1>2. o.pc = "rollback" /\ Values!InWork(o) /\ ~Values!Rewrites(o) /\ \A p : ~Values!Moves(o, p)
  BY <1>1 DEF Values!RollbackFails, Values!InWork, Values!Rewrites, Values!InCatalog, Values!Moves,
     Values!InVault
<1>3. /\ Values!TypeOK /\ Values!FilesAreWhole /\ Values!Typed(o) /\ o.draft \in Draft
      /\ o.to \in Values!Place
      /\ o.old \in Values!Vault /\ (o.kind = "update" => o.value \in Value)
  BY <1>1, <1>2, IsWell, JobStages DEF Values!Typed, Values!JobType
<1> DEFINE d == o.draft
<1>4. /\ \/ UNCHANGED <<store, backup, disturbed>>
         \/ /\ Values!Strands(o.to, o.old)
            /\ disturbed' = disturbed \cup (Values!Differ(Values!Empty, store[o.to]) \ {d})
      /\ current' = (IF o.kind = "update" /\ current[d] # {}
                     THEN [current EXCEPT ![d] = @ \cup {o.value}] ELSE current)
      /\ Values!Fails(j) /\ UNCHANGED <<aside, references, emptied>>
  BY <1>1 DEF Values!RollbackFails, Values!Unsure, Values!Disturbs, Values!index
<1>5. job' = [job EXCEPT ![j] = Values!Idle]
  BY <1>4 DEF Values!Fails, Values!Ends
<1>6. Values!FilesAreWhole'
  BY <1>1, <1>2, <1>3, <1>4, <1>5, Tidied
<1>7. /\ current' \in [Draft -> SUBSET Value]
      /\ \A e \in Draft \ {d} : current'[e] = current[e]
      /\ current[d] \subseteq current'[d] /\ (current'[d] # {} => current[d] # {})
      /\ o.kind = "update" /\ current'[d] # {} => o.value \in current'[d]
      /\ o.kind # "update" => current' = current
  BY <1>3, <1>4 DEF Values!TypeOK
<1>8. /\ store' \in [Values!Place -> Values!Vault]
      /\ \A p \in Values!Place \ {o.to} : store'[p] = store[p]
      /\ backup \subseteq backup' /\ backup' \subseteq Draft \X (Value \cup {Values!Gone})
      /\ \/ store' = store
         \/ store'[o.to] = Values!Empty /\ \A e \in Draft : <<e, o.old[e]>> \in backup'
  BY <1>3, <1>4, NoJob DEF Values!TypeOK, Values!Vault, Values!Strands
<1>9. Leaves(d)
  <2>1. \A e \in Draft \ {d} : e \notin disturbed' =>
          \A p \in Values!Place : store'[p][e] = store[p][e]
    <3>1. CASE store' = store
      BY <3>1
    <3>2. CASE store' # store
      BY <1>4, <1>8, <3>2 DEF Values!Differ
    <3> QED BY <3>1, <3>2
  <2> QED BY <1>3, <1>4, <1>6, <1>7, <1>8, <2>1 DEF Leaves, Values!TypeOK, Values!Differ
<1>10. ASSUME Values!Good(o), Found(o), o.kind # "confirm", current'[d] # {}
       PROVE  Values!Holds(Values!Place, d)'
  <2>1. CASE o.kind = "migrate"
    BY <1>2, <1>3, <1>4, <1>7, <1>8, <1>10, <2>1, MigratesOn
  <2>2. CASE o.kind = "update" /\ store' = store
    <3>1. \A v : Values!Reads(Values!Place, d, v) => Values!Reads(Values!Place, d, v)'
      BY <1>4, <1>8, <2>2, ReadsStay
    <3>2. \E v \in current'[d] : Values!Reads(Values!Place, d, v)
      BY <1>7, <1>10, <2>2 DEF Found, Values!Holds
    <3> QED BY <3>1, <3>2 DEF Values!Holds
  <2>3. CASE o.kind = "update" /\ store' # store
    BY <1>2, <1>3, <1>4, <1>7, <1>8, <1>10, <2>3, ReturnsHold
  <2> QED BY <1>2, <1>3, <1>10, <2>1, <2>2, <2>3, JobStages DEF Values!InWork
<1>11. Done(j, d, Values!Idle)
  <2>1. o.kind = "confirm" => UNCHANGED current
    BY <1>4
  <2> QED BY <1>1, <1>2, <1>4, <1>9, <1>10, <2>1, Quits
<1> QED BY <1>1, <1>2, <1>11, IsWell

LEMMA ReportWell ==
  ASSUME Values!IInv, NEW j \in Job, Values!Report(j)
  PROVE  Well(j)
<1>1. PICK o : o = job[j]
  OBVIOUS
<1>2. o.pc = "report" /\ Values!InWork(o) /\ ~Values!Rewrites(o) /\ \A p : ~Values!Moves(o, p)
  BY <1>1 DEF Values!Report, Values!InWork, Values!Rewrites, Values!InCatalog, Values!Moves,
     Values!InVault
<1>3. Values!TypeOK /\ Values!FilesAreWhole /\ Values!Typed(o) /\ o.draft \in Draft
      /\ o.to \in Values!Place
  BY <1>1, <1>2, IsWell
<1> DEFINE d == o.draft
<1>4. /\ job' = [job EXCEPT ![j] = Values!Idle]
      /\ draft' = (IF o.kind = "confirm" THEN [draft EXCEPT ![d] = "committed"] ELSE draft)
      /\ current' = (IF o.kind = "migrate" THEN current ELSE [current EXCEPT ![d] = {o.value}])
      /\ UNCHANGED <<content, store, aside, backup, references, emptied, written, disturbed>>
  BY <1>1 DEF Values!Report, Values!Ends, Values!vaults, Values!index
<1>5. Values!FilesAreWhole'
  BY <1>1, <1>2, <1>3, <1>4, Tidied
<1>6. /\ o.kind \in {"confirm", "update", "migrate"} /\ Values!WorksOn(o, d)
      /\ o.kind # "migrate" => o.value \in Value
  BY <1>2, <1>3, JobStages DEF Values!InWork, Values!WorksOn
<1>7. Leaves(d)
  <2>1. current' \in [Draft -> SUBSET Value] /\ \A e \in Draft \ {d} : current'[e] = current[e]
    BY <1>3, <1>4, <1>6 DEF Values!TypeOK
  <2> QED BY <1>3, <1>4, <1>5, <2>1 DEF Leaves, Values!TypeOK
<1>8. /\ \A v : Values!Reads(Values!Place, d, v)' <=> Values!Reads(Values!Place, d, v)
      /\ current'[d] = IF o.kind = "migrate" THEN current[d] ELSE {o.value}
  BY <1>3, <1>4 DEF Values!Reads, Values!Read, Values!Reading, Values!TypeOK
<1>9. ASSUME Values!Good(o), Found(o), current'[d] # {} PROVE Values!Holds(Values!Place, d)'
  <2>1. CASE o.kind = "migrate"
    BY <1>8, <1>9, <2>1 DEF Found, Values!Changes, Values!Holds
  <2>2. CASE o.kind = "confirm"
    <3>1. Values!Read(o.to, d) = o.value
      BY <1>2, <1>9, <2>2 DEF Values!Good, Values!Saves, Values!Read, Values!Reading
    <3> QED BY <1>3, <1>8, <2>2, <3>1 DEF Values!Holds, Values!Reads
  <2>3. CASE o.kind = "update"
    <3>1. Values!Read(o.to, d) = o.value
      BY <1>2, <1>6, <1>9, <2>3, ValuesAssumption DEF Values!Good, Values!Updates, Values!Read,
         Values!Reading, Values!Apart
    <3> QED BY <1>3, <1>8, <2>3, <3>1 DEF Values!Holds, Values!Reads
  <2> QED BY <1>6, <2>1, <2>2, <2>3
<1>10. CASE o.kind # "confirm"
  <2>1. Values!Ends(j) /\ UNCHANGED <<Values!ledger, written>>
    BY <1>4, <1>10 DEF Values!Ends, Values!ledger
  <2>2. Done(j, d, Values!Idle)
    BY <1>1, <1>2, <1>7, <1>9, <1>10, <2>1, Quits
  <2> QED BY <1>1, <1>2, <2>2, IsWell
<1>11. CASE o.kind = "confirm"
  <2>1. Values!Settled(d) /\ (d \notin disturbed => Values!Kept(d))
    BY <1>3 DEF Values!IInv
  <2>2. Alone(j, d) /\ written[d] = {o.to}
    BY <1>1, <1>2, <1>3, <1>6, <1>11, <2>1, OneWorks
  <2>3. draft' \in [Draft -> {"none", "pending", "committing", "committed", "lost"}]
        /\ draft'[d] = "committed" /\ \A e \in Draft \ {d} : draft'[e] = draft[e]
    BY <1>3, <1>4, <1>11 DEF Values!TypeOK
  <2>4. Values!Typed(Values!Idle) /\ ~Values!InWork(Values!Idle)
    BY NoJob DEF Values!InWork
  <2>5. Touches(j, d, Values!Idle)
    BY <1>1, <1>4, <1>7, <2>3, <2>4 DEF Touches, Leaves
  <2>6. Values!TypeOK'
    <3>1. /\ content' \in Values!Vault /\ written' \in [Draft -> SUBSET Values!Place]
          /\ \A e \in Draft : draft'[e] = "pending" => content'[e] \in Value
      BY <1>3, <1>4, <2>3 DEF Values!TypeOK
    <3> QED BY <1>3, <1>7, <2>3, <2>5, <3>1, TypeKept DEF Leaves
  <2>7. Values!Settled(d)'
    BY <1>3, <1>4, <2>1, <2>2, <2>3, <2>4, <2>5, SavingSettled DEF Values!WorksOn
  <2>8. ASSUME d \notin disturbed' PROVE Values!Kept(d)'
    <3>1. Values!Good(o) /\ Found(o)
      BY <1>1, <1>3, <1>4, <1>6, <2>1, <2>8, OneWorks DEF Found
    <3> QED BY <1>3, <1>9, <2>2, <2>4, <2>5, <3>1, OwnKept DEF Values!WorksOn
  <2>9. Done(j, d, Values!Idle)
    BY <1>5, <2>5, <2>6, <2>7, <2>8 DEF Done
  <2> QED BY <1>1, <1>2, <2>9, IsWell
<1> QED BY <1>10, <1>11

\* A step of a command that does not work yet, and will not.
LEMMA IdleStep ==
  ASSUME Values!IInv, NEW j \in Job, ~Values!InWork(job[j]), NEW r, Values!Typed(r),
         ~Values!InWork(r),
         job' = [job EXCEPT ![j] = r], content' \in Values!Vault,
         \A e \in Draft : draft[e] = "pending" => content'[e] \in Value,
         UNCHANGED <<draft, Values!vaults, Values!index, Values!told, disturbed>>
  PROVE  Values!IInv'
<1>1. Values!TypeOK /\ Values!FilesAreWhole
  BY DEF Values!IInv
<1>2. /\ draft' = draft /\ store' = store /\ aside' = aside /\ backup' = backup
      /\ references' = references /\ emptied' = emptied /\ current' = current /\ written' = written
      /\ disturbed' = disturbed
  BY DEF Values!vaults, Values!index, Values!told
<1>3. Values!TypeOK'
  <2>1. job' \in [Job -> Values!JobType] /\ \A k \in Job : Values!Typed(job'[k])
    BY <1>1 DEF Values!TypeOK, Values!Typed
  <2>2. Values!JobType' = Values!JobType /\ Values!Vault' = Values!Vault
        /\ Values!Index' = Values!Index
    BY DEF Values!JobType, Values!Vault, Values!Index, Values!Stages, Values!Place
  <2>3. \A k \in Job : Values!Typed(job[k])'
    BY <2>1 DEF Values!Typed, Values!Idle, Values!Empty, Values!Nothing, Values!InVault,
       Values!InCatalog, Values!Stages, Values!JobType, Values!Vault, Values!Index,
                Values!Place
  <2> QED BY <1>1, <1>2, <2>1, <2>2, <2>3 DEF Values!TypeOK
<1>4. Values!FilesAreWhole'
  <2>1. ~Values!Rewrites(job[j])
    BY DEF Values!Rewrites, Values!InCatalog, Values!InWork
  <2>2. \A p : ~Values!Moves(job[j], p)
    BY DEF Values!Moves, Values!InVault, Values!InWork
  <2> QED BY <1>1, <1>2, <2>1, <2>2, Tidied
<1>5. \A e : ~Values!WorksOn(job[j], e) /\ ~Values!WorksOn(r, e)
  BY DEF Values!WorksOn
<1>6. ASSUME NEW e \in Draft PROVE Values!Settled(e)'
  BY <1>1, <1>2, <1>5, OthersSettled DEF Values!IInv
<1>7. ASSUME NEW e \in Draft \ disturbed' PROVE Values!Kept(e)'
  BY <1>1, <1>2, <1>5, OthersKept DEF Values!IInv
<1> QED BY <1>3, <1>4, <1>6, <1>7 DEF Values!IInv

LEMMA BeginConfirmWell ==
  ASSUME Values!IInv, NEW j \in Job, Values!BeginConfirm(j)
  PROVE  Values!IInv'
<1>1. PICK d \in Draft, p \in Values!Place, v \in Value :
        job' = [job EXCEPT ![j] = [Values!Idle EXCEPT !.pc = "replace", !.kind = "confirm",
                                                      !.draft = d, !.to = p, !.value = v]]
  BY DEF Values!BeginConfirm
<1>2. PICK r : r = [Values!Idle EXCEPT !.pc = "replace", !.kind = "confirm", !.draft = d, !.to = p,
                                       !.value = v]
  OBVIOUS
<1>3. Values!Typed(r) /\ ~Values!InWork(r)
  <2>1. "replace" \in UNION {Values!Stages[k] : k \in DOMAIN Values!Stages}
        /\ "confirm" \in DOMAIN Values!Stages
    BY DEF Values!Stages
  <2>2. /\ r \in Values!JobType /\ r.pc = "replace" /\ r.kind = "confirm" /\ r.draft = d /\ r.to = p
        /\ r.value = v /\ r.io = "none" /\ r.from = "none"
    BY <1>2, <2>1, NoJob DEF Values!JobType
  <2> QED BY <2>2 DEF Values!Typed, Values!Stages, Values!InWork
<1>4. ~Values!InWork(job[j])
      /\ UNCHANGED <<Values!ledger, Values!vaults, Values!index, Values!told, disturbed>>
  BY DEF Values!BeginConfirm, Values!InWork
<1>5. /\ content' \in Values!Vault
      /\ UNCHANGED <<draft, Values!vaults, Values!index, Values!told, disturbed>>
      /\ \A e \in Draft : draft[e] = "pending" => content'[e] \in Value
  BY <1>4 DEF Values!IInv, Values!TypeOK, Values!ledger
<1> QED BY <1>1, <1>2, <1>3, <1>4, <1>5, IdleStep

LEMMA ReplaceWell ==
  ASSUME Values!IInv, NEW j \in Job, Values!Replace(j)
  PROVE  Values!IInv'
<1>1. PICK o : o = job[j]
  OBVIOUS
<1>2. o.pc = "replace" /\ ~Values!InWork(o)
  BY <1>1 DEF Values!Replace, Values!InWork
<1>3. Values!TypeOK /\ Values!Typed(o) /\ o.kind = "confirm" /\ o.draft \in Draft
      /\ o.value \in Value
  BY <1>1, <1>2, JobStages DEF Values!IInv, Values!TypeOK
<1>4. UNCHANGED <<draft, Values!vaults, Values!index, Values!told, disturbed>>
  BY DEF Values!Replace
<1>5. CASE draft[o.draft] = "pending"
  <2>1. PICK r : r = [o EXCEPT !.pc = "confirm"]
    OBVIOUS
  <2>2. /\ content' = [content EXCEPT ![o.draft] = o.value] /\ job' = [job EXCEPT ![j] = r]
    BY <1>1, <1>3, <1>5, <2>1 DEF Values!Replace, Values!Goes, Values!TypeOK
  <2>3. Values!Typed(r) /\ ~Values!InWork(r)
    <3>1. "confirm" \in UNION {Values!Stages[k] : k \in DOMAIN Values!Stages}
      BY DEF Values!Stages
    <3>2. /\ r \in Values!JobType /\ r.pc = "confirm" /\ r.kind = "confirm" /\ r.draft = o.draft
          /\ r.to = o.to /\ r.value = o.value /\ r.io = o.io /\ r.from = o.from
      BY <1>3, <2>1, <3>1 DEF Values!Typed, Values!JobType
    <3> QED BY <1>2, <1>3, <3>2 DEF Values!Typed, Values!Stages, Values!InWork, Values!InVault,
       Values!InCatalog
  <2>4. content' \in Values!Vault /\ \A e \in Draft : draft[e] = "pending" => content'[e] \in Value
    BY <1>3, <2>2 DEF Values!TypeOK, Values!Vault
  <2> QED BY <1>1, <1>2, <1>4, <2>2, <2>3, <2>4, IdleStep
<1>6. CASE draft[o.draft] # "pending"
  <2>1. job' = [job EXCEPT ![j] = Values!Idle] /\ content' = content
    BY <1>1, <1>6 DEF Values!Replace, Values!Ends
  <2>2. Values!Typed(Values!Idle) /\ ~Values!InWork(Values!Idle)
    BY NoJob DEF Values!InWork
  <2>3. content' \in Values!Vault /\ \A e \in Draft : draft[e] = "pending" => content'[e] \in Value
    BY <1>3, <2>1 DEF Values!TypeOK
  <2> QED BY <1>1, <1>2, <1>4, <2>1, <2>2, <2>3, IdleStep
<1> QED BY <1>5, <1>6

LEMMA ConfirmWell ==
  ASSUME Values!IInv, NEW j \in Job, Values!Confirm(j)
  PROVE  Values!IInv'
<1>1. PICK o : o = job[j]
  OBVIOUS
<1>2. o.pc = "confirm" /\ ~Values!InWork(o) /\ ~Values!Rewrites(o) /\ \A p : ~Values!Moves(o, p)
  BY <1>1 DEF Values!Confirm, Values!InWork, Values!Rewrites, Values!InCatalog, Values!Moves,
     Values!InVault
<1>3. /\ Values!TypeOK /\ Values!FilesAreWhole /\ Values!Typed(o) /\ o.kind = "confirm"
      /\ o.draft \in Draft
      /\ o.to \in Values!Place
  BY <1>1, <1>2, JobStages DEF Values!IInv, Values!TypeOK
<1> DEFINE d == o.draft
<1>4. UNCHANGED <<content, Values!vaults, Values!index, Values!told, disturbed>>
  BY DEF Values!Confirm
<1>5. CASE draft[d] # "pending"
  <2>1. job' = [job EXCEPT ![j] = Values!Idle] /\ draft' = draft /\ content' = content
    BY <1>1, <1>5 DEF Values!Confirm, Values!Ends
  <2>2. Values!Typed(Values!Idle) /\ ~Values!InWork(Values!Idle)
    BY NoJob DEF Values!InWork
  <2>3. content' \in Values!Vault /\ \A e \in Draft : draft[e] = "pending" => content'[e] \in Value
    BY <1>3, <2>1 DEF Values!TypeOK
  <2> QED BY <1>1, <1>2, <1>4, <2>1, <2>2, <2>3, IdleStep
<1>6. CASE draft[d] = "pending"
  <2>1. PICK r : r = [o EXCEPT !.pc = "place", !.value = content[d]]
    OBVIOUS
  <2>2. job' = [job EXCEPT ![j] = r] /\ draft' = [draft EXCEPT ![d] = "committing"]
    BY <1>1, <1>3, <1>6, <2>1 DEF Values!Confirm, Values!Confirmed, Values!TypeOK
  <2>3. content[d] \in Value
    BY <1>3, <1>6 DEF Values!TypeOK
  <2>4. /\ Values!Typed(r) /\ Values!InWork(r) /\ r.pc = "place" /\ r.kind = "confirm"
        /\ r.draft = d
        /\ r.io = "none"
    <3>1. "place" \in UNION {Values!Stages[k] : k \in DOMAIN Values!Stages}
      BY DEF Values!Stages
    <3>2. /\ r \in Values!JobType /\ r.pc = "place" /\ r.kind = "confirm" /\ r.draft = d
          /\ r.to = o.to /\ r.value = content[d] /\ r.io = o.io /\ r.from = o.from
      BY <1>3, <2>1, <2>3, <3>1 DEF Values!Typed, Values!JobType
    <3>3. o.io = "none"
      BY <1>2, <1>3 DEF Values!Typed, Values!InVault, Values!InCatalog, Values!JobType
    <3> QED BY <1>3, <2>3, <3>2, <3>3 DEF Values!Typed, Values!Stages, Values!InWork
  <2>5. /\ store' = store /\ aside' = aside /\ backup' = backup /\ content' = content
        /\ references' = references /\ emptied' = emptied /\ current' = current
        /\ written' = written
        /\ disturbed' = disturbed
    BY <1>4 DEF Values!vaults, Values!index, Values!told
  <2>6. draft' \in [Draft -> {"none", "pending", "committing", "committed", "lost"}]
        /\ draft'[d] = "committing" /\ \A e \in Draft \ {d} : draft'[e] = draft[e]
    BY <1>3, <2>2 DEF Values!TypeOK
  <2>7. Touches(j, d, r)
    BY <1>1, <1>2, <2>2, <2>4, <2>5, <2>6 DEF Touches
  <2>8. Values!TypeOK'
    <3>1. \A e \in Draft : draft'[e] = "pending" => content'[e] \in Value
      BY <1>3, <2>5, <2>6 DEF Values!TypeOK
    <3> QED BY <1>3, <2>5, <2>6, <2>7, <3>1, TypeKept DEF Values!TypeOK
  <2>9. Values!FilesAreWhole'
    BY <1>1, <1>2, <1>3, <2>2, <2>5, Tidied
  <2>10. Values!Settled(d) /\ current[d] = {} /\ written[d] = {} /\ Alone(j, d)
    BY <1>1, <1>2, <1>3, <1>6 DEF Values!IInv, Values!Settled, Values!Takes, Values!Ended, Alone
  <2>11. Values!Settled(d)'
    BY <1>3, <2>4, <2>5, <2>6, <2>7, <2>10, SavingSettled DEF Values!Takes, Values!WorksOn
  <2>12. Values!Kept(d)'
    <3>1. Values!Good(r)'
      BY <2>4 DEF Values!Good, Values!Saves
    <3> QED BY <1>3, <2>5, <2>7, <2>10, <3>1, OwnKept
  <2>13. Done(j, d, r)
    BY <2>7, <2>8, <2>9, <2>11, <2>12 DEF Done
  <2> QED BY <1>3, <2>13, DoneIsWell
<1> QED BY <1>5, <1>6

\* A change or a migration begins.
LEMMA BeginsWell ==
  ASSUME Values!IInv, NEW j \in Job, job[j].pc = "idle", NEW d \in Draft, Values!Ended(d), NEW r,
         Values!Typed(r),
         r.pc = "place", r.io = "none", r.kind # "confirm", r.draft = d,
         job' = [job EXCEPT ![j] = r], Values!Begins(j, d),
         UNCHANGED <<Values!ledger, Values!vaults, Values!index, Values!told>>,
         Values!Holds(Values!Place, d) \/ current[d] = {} => Values!Good(r)
  PROVE  Values!IInv'
<1>1. Values!TypeOK /\ Values!FilesAreWhole /\ Values!Settled(d)
      /\ (d \notin disturbed => Values!Kept(d))
  BY DEF Values!IInv
<1>2. /\ Values!InWork(r) /\ ~Values!InWork(job[j]) /\ ~Values!Rewrites(job[j])
      /\ \A p : ~Values!Moves(job[j], p)
  BY DEF Values!InWork, Values!Rewrites, Values!InCatalog, Values!Moves, Values!InVault
<1>3. /\ store' = store /\ aside' = aside /\ backup' = backup /\ content' = content
      /\ references' = references /\ emptied' = emptied /\ current' = current /\ written' = written
      /\ draft' = draft
  BY DEF Values!ledger, Values!vaults, Values!index, Values!told
<1>4. /\ disturbed \subseteq disturbed' /\ disturbed' \subseteq disturbed \cup {d}
      /\ d \notin disturbed' => \A k \in Job : ~Values!WorksOn(job[k], d)
  BY DEF Values!Begins, Values!Disturbs
<1>5. Touches(j, d, r)
  BY <1>2, <1>3, <1>4 DEF Touches
<1>6. Values!TypeOK'
  <2>1. disturbed' \subseteq Draft
    BY <1>1, <1>4 DEF Values!TypeOK
  <2> QED BY <1>1, <1>3, <1>5, <2>1, TypeKept DEF Values!TypeOK
<1>7. Values!FilesAreWhole'
  BY <1>1, <1>2, <1>3, Tidied
<1>8. Values!Settled(d)'
  BY <1>1, <1>3, <1>5, LaterSettled
<1>9. ASSUME d \notin disturbed' PROVE Values!Kept(d)'
  <2>1. Values!Kept(d) /\ \A k \in Job : ~Values!WorksOn(job[k], d)
    BY <1>1, <1>4, <1>9
  <2>2. \A k \in Job : ~Values!Changes(job[k], d)
    BY <1>1, <2>1, JobStages DEF Values!Changes, Values!WorksOn, Values!InWork, Values!TypeOK
  <2>3. Values!Holds(Values!Place, d) \/ current[d] = {}
    BY <2>1, <2>2 DEF Values!Kept
  <2>4. Values!Good(r)'
    BY <1>3, <2>3, SameKnowledge
  <2>5. current'[d] # {} => Values!Holds(Values!Place, d)'
    BY <1>3, <2>3, SameReads
  <2> QED BY <1>1, <1>5, <2>1, <2>4, <2>5, OwnKept DEF Alone
<1>10. Done(j, d, r)
  BY <1>5, <1>6, <1>7, <1>8, <1>9 DEF Done
<1> QED BY <1>10, DoneIsWell

LEMMA BeginUpdateWell ==
  ASSUME Values!IInv, NEW j \in Job, Values!BeginUpdate(j)
  PROVE  Values!IInv'
<1>1. PICK p \in Local, d \in Draft, v \in Value :
        /\ Values!Ended(d) /\ Values!Begins(j, d)
        /\ job' = [job EXCEPT ![j] = [Values!Idle EXCEPT !.pc = "place", !.kind = "update",
                                                         !.draft = d, !.to = p, !.value = v]]
  BY DEF Values!BeginUpdate
<1>2. PICK r : r = [Values!Idle EXCEPT !.pc = "place", !.kind = "update", !.draft = d, !.to = p,
                                       !.value = v]
  OBVIOUS
<1>3. Values!Typed(r) /\ r.pc = "place" /\ r.kind = "update" /\ r.draft = d /\ r.io = "none"
  <2>1. /\ "place" \in UNION {Values!Stages[k] : k \in DOMAIN Values!Stages}
        /\ "update" \in DOMAIN Values!Stages
        /\ p \in Values!Place
    BY DEF Values!Stages, Values!Place
  <2>2. /\ r \in Values!JobType /\ r.pc = "place" /\ r.kind = "update" /\ r.draft = d /\ r.to = p
        /\ r.value = v /\ r.io = "none" /\ r.from = "none"
    BY <1>2, <2>1, NoJob DEF Values!JobType
  <2> QED BY <2>1, <2>2 DEF Values!Typed, Values!Stages
<1>4. Values!Good(r)
  BY <1>3 DEF Values!Good, Values!Updates
<1>5. job[j].pc = "idle" /\ UNCHANGED <<Values!ledger, Values!vaults, Values!index, Values!told>>
  BY DEF Values!BeginUpdate
<1> QED BY <1>1, <1>2, <1>3, <1>4, <1>5, BeginsWell

LEMMA BeginMigrateWell ==
  ASSUME Values!IInv, NEW j \in Job, Values!BeginMigrate(j)
  PROVE  Values!IInv'
<1>1. PICK p \in Values!Place, q \in Values!Place, d \in Draft, move \in BOOLEAN :
        /\ Values!Ended(d) /\ Values!Begins(j, d) /\ p # q /\ references[d][q] = Values!Absent
        /\ Values!Read(p, d) \in Value
        /\ job' = [job EXCEPT ![j] =
             [Values!Idle EXCEPT !.pc = "place", !.kind = "migrate", !.draft = d, !.to = q,
                                 !.from = IF move THEN p ELSE "none", !.value = Values!Read(p, d)]]
  BY DEF Values!BeginMigrate
<1>2. PICK from : from = IF move THEN p ELSE "none"
  OBVIOUS
<1>3. PICK v : v = Values!Read(p, d)
  OBVIOUS
<1>4. PICK r : r = [Values!Idle EXCEPT !.pc = "place", !.kind = "migrate", !.draft = d, !.to = q,
                                       !.from = from, !.value = v]
  OBVIOUS
<1>5. /\ Values!Typed(r) /\ r.pc = "place" /\ r.kind = "migrate" /\ r.draft = d /\ r.io = "none"
      /\ r.to = q /\ r.from = from /\ r.value = v
  <2>1. /\ "place" \in UNION {Values!Stages[k] : k \in DOMAIN Values!Stages}
        /\ "migrate" \in DOMAIN Values!Stages
    BY DEF Values!Stages
  <2>2. from \in Values!Place \cup {"none"} /\ v \in Value
    BY <1>1, <1>2, <1>3
  <2>3. /\ r \in Values!JobType /\ r.pc = "place" /\ r.kind = "migrate" /\ r.draft = d /\ r.to = q
        /\ r.value = v /\ r.io = "none" /\ r.from = from
    BY <1>4, <2>1, <2>2, NoJob DEF Values!JobType
  <2> QED BY <2>3 DEF Values!Typed, Values!Stages
<1>6. ASSUME Values!Holds(Values!Place, d) \/ current[d] = {} PROVE Values!Good(r)
  <2>1. current[d] # {} => Values!Holds(Values!Place \ {q}, d)
    <3>1. \A u \in Value : Values!Read(q, d) # u
      <4>1. Values!Read(q, d) = Values!Absent
        BY <1>1 DEF Values!Read, Values!Reading, Values!Absent, Values!Live
      <4> QED BY <4>1, ValuesAssumption DEF Values!Apart
    <3>2. current[d] \subseteq Value
      BY DEF Values!IInv, Values!TypeOK
    <3> QED BY <1>6, <3>1, <3>2 DEF Values!Holds, Values!Reads
  <2>2. from # "none" => from # q /\ Values!Read(from, d) = v /\ v \in Value
    BY <1>1, <1>2, <1>3
  <2> QED BY <1>5, <2>1, <2>2 DEF Values!Good, Values!Migrates
<1>7. job[j].pc = "idle" /\ UNCHANGED <<Values!ledger, Values!vaults, Values!index, Values!told>>
  BY DEF Values!BeginMigrate
<1>8. job' = [job EXCEPT ![j] = r]
  BY <1>1, <1>2, <1>3, <1>4
<1> QED BY <1>1, <1>5, <1>6, <1>7, <1>8, BeginsWell

\* A step of none of the commands.
LEMMA CommandsKept ==
  ASSUME Values!IInv, UNCHANGED <<Values!vaults, Values!index, job, Values!told, disturbed>>,
         NEW e \in Draft
  PROVE  /\ Values!FilesAreWhole' /\ (e \notin disturbed' => Values!Kept(e)')
         /\ draft'[e] = draft[e] => Values!Settled(e)'
<1>1. /\ store' = store /\ aside' = aside /\ backup' = backup /\ references' = references
      /\ emptied' = emptied /\ current' = current /\ written' = written
      /\ disturbed' = disturbed /\ job' = job
  BY DEF Values!vaults, Values!index, Values!told
<1>2. Values!FilesAreWhole'
  BY <1>1 DEF Values!IInv, Values!FilesAreWhole, Values!Nothing, Values!Rewrites, Values!InCatalog,
     Values!Moves, Values!InVault
<1>3. ASSUME e \notin disturbed' PROVE Values!Kept(e)'
  <2>1. Values!Kept(e) /\ Values!TypeOK
    BY <1>1, <1>3 DEF Values!IInv
  <2>2. ASSUME NEW k \in Job, Values!WorksOn(job[k], e) PROVE Values!Good(job[k])'
    <3>1. PICK o : o = job[k] /\ o = job'[k]
      BY <1>1
    <3>2. Values!Typed(o) /\ o.pc # "idle" /\ Values!Good(o)
      BY <2>1, <2>2, <3>1 DEF Values!TypeOK, Values!WorksOn, Values!InWork, Values!Kept
    <3>3. Values!Good(o)'
      BY <1>1, <3>2, SameKnowledge
    <3> QED BY <3>1, <3>3
  <2>3. /\ Values!Holds(Values!Place, e) => Values!Holds(Values!Place, e)'
        /\ \A v : Values!Reads(Values!Place, e, v) => Values!Reads(Values!Place, e, v)'
    BY <1>1, SameReads
  <2>4. ASSUME NEW k \in Job, Values!Changes(job[k], e), Values!Reads(Values!Place, e, job[k].value)
        PROVE  Values!Changes(job'[k], e) /\ Values!Reads(Values!Place, e, job[k].value)'
    <3>1. PICK v : v = job[k].value /\ v = job'[k].value
      BY <1>1
    <3>2. Values!Reads(Values!Place, e, v)'
      BY <2>3, <2>4, <3>1
    <3> QED BY <1>1, <2>4, <3>1, <3>2
  <2> QED BY <1>1, <2>1, <2>2, <2>3, <2>4 DEF Values!Kept
<1>4. draft'[e] = draft[e] => Values!Settled(e)'
  <2>1. \A k \in Job : job'[k] = job[k]
    BY <1>1
  <2> QED BY <1>1, <2>1 DEF Values!IInv, Values!Settled, Values!Ended, Values!Takes,
     Values!WorksOn, Values!InWork
<1> QED BY <1>2, <1>3, <1>4

LEMMA CreateDraftWell ==
  ASSUME Values!IInv, NEW d \in Draft, Values!CreateDraft(d)
  PROVE  Values!IInv'
<1>1. PICK v \in Value : content' = [content EXCEPT ![d] = v]
  BY DEF Values!CreateDraft
<1>2. /\ draft[d] = "none" /\ draft' = [draft EXCEPT ![d] = "pending"]
      /\ UNCHANGED <<Values!vaults, Values!index, job, Values!told, disturbed>>
  BY DEF Values!CreateDraft
<1>3. /\ store' = store /\ aside' = aside /\ backup' = backup /\ references' = references
      /\ emptied' = emptied /\ current' = current /\ written' = written
      /\ disturbed' = disturbed /\ job' = job
  BY <1>2 DEF Values!vaults, Values!index, Values!told
<1>4. Values!TypeOK'
  <2>1. Values!TypeOK
    BY DEF Values!IInv
  <2>2. Values!JobType' = Values!JobType /\ Values!Vault' = Values!Vault
        /\ Values!Index' = Values!Index
    BY DEF Values!JobType, Values!Vault, Values!Index, Values!Stages, Values!Place
  <2>3. \A k \in Job : Values!Typed(job[k])'
    BY <1>3, <2>1 DEF Values!TypeOK, Values!Typed, Values!Idle, Values!Empty, Values!Nothing,
       Values!InVault, Values!InCatalog, Values!Stages, Values!JobType,
                      Values!Vault, Values!Index, Values!Place
  <2> QED BY <1>1, <1>2, <1>3, <2>1, <2>2, <2>3 DEF Values!TypeOK, Values!Vault
<1>5. ASSUME NEW e \in Draft PROVE Values!Settled(e)'
  <2>1. CASE e # d
    <3>1. draft'[e] = draft[e]
      BY <1>2, <2>1 DEF Values!IInv, Values!TypeOK
    <3> QED BY <1>2, <3>1, CommandsKept
  <2>2. CASE e = d
    <3>1. Values!Settled(d) /\ draft'[d] = "pending"
      BY <1>2 DEF Values!IInv, Values!TypeOK
    <3>2. \A k \in Job : ~Values!WorksOn(job[k], d)
      BY <1>2, <3>1 DEF Values!Settled, Values!Takes, Values!Ended
    <3> QED BY <1>2, <1>3, <2>2, <3>1, <3>2 DEF Values!Settled, Values!Takes
  <2> QED BY <2>1, <2>2
<1> QED BY <1>2, <1>4, <1>5, CommandsKept DEF Values!IInv

LEMMA CrashWell ==
  ASSUME Values!IInv, Values!Crash
  PROVE  Values!IInv'
<1>1. Values!TypeOK /\ Values!FilesAreWhole
  BY DEF Values!IInv
<1>2. /\ store' = [p \in Values!Place |-> IF p \in aside THEN Values!Empty ELSE store[p]]
      /\ aside' = {}
      /\ backup' = backup \cup {<<d, store[p][d]>> : d \in Draft, p \in aside}
      /\ references' = Values!File /\ emptied' = emptied /\ written' = written
      /\ disturbed' = disturbed \cup Values!Differ(Values!File, references)
      /\ job' = [j \in Job |-> Values!Idle]
      /\ draft' = [d \in Draft |-> IF draft[d] = "none" THEN "none" ELSE "lost"]
      /\ content' = Values!Empty
      /\ current' = [d \in Draft |-> IF current[d] = {} THEN {} ELSE Values!Expected(d)]
  BY DEF Values!Crash, Values!Disturbs
<1>3. \A k \in Job : job'[k] = Values!Idle /\ ~Values!InWork(Values!Idle)
  BY <1>2, NoJob DEF Values!InWork
<1>4. ASSUME NEW d \in Draft
      PROVE  Values!Expected(d) \subseteq Value /\ current[d] \subseteq Values!Expected(d)
  BY <1>1, JobStages DEF Values!Expected, Values!Changes, Values!TypeOK
<1>5. Values!TypeOK'
  <2>1. job' \in [Job -> Values!JobType] /\ \A k \in Job : Values!Typed(job'[k])
    BY <1>2, NoJob
  <2>2. Values!JobType' = Values!JobType /\ Values!Vault' = Values!Vault
        /\ Values!Index' = Values!Index
    BY DEF Values!JobType, Values!Vault, Values!Index, Values!Stages, Values!Place
  <2>3. \A k \in Job : Values!Typed(job[k])'
    BY <2>1 DEF Values!Typed, Values!Idle, Values!Empty, Values!Nothing, Values!InVault,
       Values!InCatalog, Values!Stages, Values!JobType, Values!Vault, Values!Index,
                Values!Place
  <2>4. store' \in [Values!Place -> Values!Vault] /\ references' \in Values!Index
        /\ content' \in Values!Vault
    BY <1>1, <1>2, FileKept DEF Values!TypeOK
  <2>5. backup' \subseteq Draft \X (Value \cup {Values!Gone})
    BY <1>1, <1>2 DEF Values!TypeOK, Values!Vault, Values!Place
  <2>6. disturbed' \subseteq Draft /\ current' \in [Draft -> SUBSET Value]
    BY <1>1, <1>2, <1>4 DEF Values!TypeOK, Values!Differ
  <2>7. draft' \in [Draft -> {"none", "pending", "committing", "committed", "lost"}]
        /\ \A d \in Draft : draft'[d] # "pending"
    BY <1>2
  <2> QED BY <1>1, <1>2, <2>1, <2>2, <2>3, <2>4, <2>5, <2>6, <2>7 DEF Values!TypeOK
<1>6. Values!FilesAreWhole'
  <2>1. emptied' => references' = Values!Nothing /\ Values!Nothing' = Values!Nothing
    BY <1>2 DEF Values!File, Values!Nothing
  <2> QED BY <1>2, <2>1 DEF Values!FilesAreWhole
<1>7. ASSUME NEW d \in Draft PROVE Values!Settled(d)'
  <2>1. /\ draft'[d] = (IF draft[d] = "none" THEN "none" ELSE "lost") /\ written'[d] = written[d]
        /\ current[d] = {} => current'[d] = {}
    BY <1>2
  <2>2. /\ draft[d] = "none" => current[d] = {} /\ written[d] = {}
        /\ \A p, q \in written[d] : p = q
    BY DEF Values!IInv, Values!Settled
  <2>3. \A k \in Job : ~Values!WorksOn(job'[k], d)
    BY <1>3 DEF Values!WorksOn
  <2> QED BY <2>1, <2>2, <2>3 DEF Values!Settled, Values!Takes
<1>8. ASSUME NEW d \in Draft \ disturbed' PROVE Values!Kept(d)'
  <2>1. Values!Kept(d) /\ references'[d] = references[d]
    BY <1>2, <1>8 DEF Values!IInv, Values!Differ
  <2>2. \A k \in Job : ~Values!WorksOn(job'[k], d)
    BY <1>3 DEF Values!WorksOn
  <2>3. ASSUME current'[d] # {} PROVE Values!Holds(Values!Place, d)'
    <3>1. current[d] # {} /\ current'[d] = Values!Expected(d)
      BY <1>2, <2>3
    <3>2. PICK v \in Values!Expected(d) : Values!Reads(Values!Place, d, v)
      BY <1>4, <2>1, <3>1 DEF Values!Kept, Values!Holds, Values!Expected
    <3>3. Values!Reads(Values!Place, d, v)'
      <4>1. CASE <<d, v>> \in backup
        BY <1>2, <4>1 DEF Values!Reads
      <4>2. CASE \E p \in Values!Place : Values!Read(p, d) = v
        <5>1. PICK p \in Values!Place : Values!Read(p, d) = v
          BY <4>2
        <5>2. CASE references[d][p] # Values!Live
          BY <2>1, <5>1, <5>2 DEF Values!Reads, Values!Read, Values!Reading
        <5>3. CASE references[d][p] = Values!Live /\ p \notin aside
          BY <1>2, <2>1, <5>1, <5>3 DEF Values!Reads, Values!Read, Values!Reading
        <5>4. CASE references[d][p] = Values!Live /\ p \in aside
          <6>1. store[p][d] = v
            BY <5>1, <5>4 DEF Values!Read, Values!Reading
          <6> QED BY <1>2, <5>4, <6>1 DEF Values!Reads
        <5> QED BY <5>2, <5>3, <5>4
      <4> QED BY <3>2, <4>1, <4>2 DEF Values!Reads
    <3> QED BY <3>1, <3>2, <3>3 DEF Values!Holds
  <2> QED BY <2>2, <2>3 DEF Values!Kept
<1> QED BY <1>5, <1>6, <1>7, <1>8 DEF Values!IInv

\* Every step.
LEMMA ValuesSteps ==
  ASSUME Values!IInv, Values!Next
  PROVE  Values!IInv'
<1>1. ASSUME NEW j \in Job, Well(j) PROVE Values!IInv'
  BY <1>1, DoneIsWell DEF Well
<1>2. CASE \E d \in Draft : Values!CreateDraft(d)
  BY <1>2, CreateDraftWell
<1>3. CASE Values!Crash
  BY <1>3, CrashWell
<1>4. ASSUME NEW j \in Job,
             Values!BeginConfirm(j) \/ Values!BeginUpdate(j) \/ Values!BeginMigrate(j)
      PROVE  Values!IInv'
  BY <1>4, BeginConfirmWell, BeginUpdateWell, BeginMigrateWell
<1>5. ASSUME NEW j \in Job, Values!Step(j) PROVE Values!IInv'
  <2>1. CASE Values!Replace(j) \/ Values!Confirm(j)
    BY <2>1, ReplaceWell, ConfirmWell
  <2>2. CASE \/ Values!Report(j) \/ Values!Copy(j) \/ Values!MoveAside(j)
             \/ Values!MoveIn(j) \/ Values!MoveInFails(j)
    BY <1>1, <2>2, ReportWell, CopyWell, MoveAsideWell, MoveInWell, MoveInFailsWell
  <2>3. CASE Values!CreateItem(j) \/ Values!DeleteItem(j) \/ Values!PlaceFails(j)
    BY <1>1, <2>3, CreateItemWell, DeleteItemWell, PlaceFailsWell
  <2>4. CASE Values!Load(j) \/ Values!Truncate(j) \/ Values!Write(j) \/ Values!CatalogFails(j)
    BY <1>1, <2>4, LoadWell, TruncateWell, WriteWell, CatalogFailsWell
  <2>5. CASE \/ Values!Verify(j) \/ Values!VerifyFails(j) \/ Values!Restore(j)
             \/ Values!Rollback(j) \/ Values!RollbackFails(j) \/ Values!DropItem(j)
    BY <1>1, <2>5, VerifyWell, VerifyFailsWell, RestoreWell, RollbackWell, RollbackFailsWell,
       DropItemWell
  <2> QED BY <1>5, <2>1, <2>2, <2>3, <2>4, <2>5 DEF Values!Step
<1> QED BY <1>2, <1>3, <1>4, <1>5 DEF Values!Next

LEMMA ValuesBegin ==
  ASSUME Values!Init
  PROVE  Values!IInv
<1>1. \A k \in Job : job[k] = Values!Idle /\ Values!Typed(job[k]) /\ job[k] \in Values!JobType
  BY NoJob DEF Values!Init
<1>2. ~Values!InWork(Values!Idle)
  BY NoJob DEF Values!InWork
<1>3. \A k \in Job, d \in Draft : ~Values!WorksOn(job[k], d)
  BY <1>1, <1>2 DEF Values!WorksOn
<1>4. Values!TypeOK
  BY <1>1, NoJob DEF Values!Init, Values!TypeOK
<1>5. Values!FilesAreWhole
  BY DEF Values!Init, Values!FilesAreWhole
<1>6. ASSUME NEW d \in Draft PROVE Values!Settled(d)
  BY <1>3 DEF Values!Init, Values!Settled, Values!Takes
<1>7. ASSUME NEW d \in Draft PROVE Values!Kept(d)
  BY <1>3 DEF Values!Init, Values!Kept
<1> QED BY <1>4, <1>5, <1>6, <1>7 DEF Values!IInv

LEMMA ValuesAreSafe ==
  ASSUME Values!IInv
  PROVE  Values!SavedSafely
<1>1. Values!TypeOK
  BY DEF Values!IInv
<1>2. Values!DraftsSettle
  <2>1. ASSUME NEW d \in Draft, draft[d] = "committing"
        PROVE  \E j \in Job : \A k \in Job : Values!Takes(job[k], d) <=> k = j
    BY <2>1 DEF Values!IInv, Values!Settled
  <2> QED BY <2>1 DEF Values!IInv, Values!Settled, Values!DraftsSettle
<1>3. Values!NothingLost
  <2>1. ASSUME NEW d \in Draft \ disturbed, current[d] # {}
        PROVE  Values!Readable(d) \cap Values!Expected(d) # {}
    <3>1. Values!Kept(d) /\ current[d] \subseteq Value
      BY <1>1 DEF Values!IInv, Values!TypeOK
    <3>2. CASE Values!Holds(Values!Place, d)
      BY <3>1, <3>2 DEF Values!Holds, Values!Readable, Values!Expected
    <3>3. CASE \E k \in Job :
                 Values!Changes(job[k], d) /\ Values!Reads(Values!Place, d, job[k].value)
      <4>1. PICK k \in Job :
              Values!Changes(job[k], d) /\ Values!Reads(Values!Place, d, job[k].value)
        BY <3>3
      <4>2. job[k].value \in Value
        BY <1>1, <4>1, JobStages DEF Values!Changes, Values!TypeOK
      <4> QED BY <4>1, <4>2 DEF Values!Readable, Values!Expected
    <3> QED BY <2>1, <3>1, <3>2, <3>3 DEF Values!Kept
  <2> QED BY <2>1 DEF Values!NothingLost
<1> QED BY <1>2, <1>3 DEF Values!IInv, Values!SavedSafely

LEMMA ValuesRest ==
  ASSUME Values!IInv, UNCHANGED Values!vars
  PROVE  Values!IInv'
<1>1. UNCHANGED <<Values!ledger, Values!vaults, Values!index, job, Values!told, disturbed>>
  BY DEF Values!vars
<1>2. draft' = draft /\ content' = content
  BY <1>1 DEF Values!ledger
<1>3. Values!TypeOK'
  <2>1. Values!TypeOK
    BY DEF Values!IInv
  <2>2. Values!JobType' = Values!JobType /\ Values!Vault' = Values!Vault
        /\ Values!Index' = Values!Index
    BY DEF Values!JobType, Values!Vault, Values!Index, Values!Stages, Values!Place
  <2>3. \A k \in Job : Values!Typed(job[k])'
    BY <1>1, <2>1 DEF Values!TypeOK, Values!Typed, Values!Idle, Values!Empty, Values!Nothing,
       Values!InVault, Values!InCatalog, Values!Stages, Values!JobType,
                      Values!Vault, Values!Index, Values!Place
  <2> QED BY <1>1, <2>1, <2>2, <2>3 DEF Values!TypeOK, Values!ledger, Values!vaults, Values!index,
     Values!told
<1>4. Values!FilesAreWhole'
  BY <1>1 DEF Values!IInv, Values!FilesAreWhole, Values!Nothing, Values!Rewrites, Values!InCatalog,
     Values!Moves, Values!InVault, Values!vaults, Values!index
<1>5. ASSUME NEW e \in Draft PROVE Values!Settled(e)' /\ (e \notin disturbed' => Values!Kept(e)')
  BY <1>1, <1>2, CommandsKept
<1> QED BY <1>3, <1>4, <1>5 DEF Values!IInv

\* So in every state of the passwords.
LEMMA PasswordsRunValues == PasswordsSpec => []Values!IInv
<1>1. PasswordsInit => Values!IInv
  BY ValuesBegin DEF PasswordsInit
<1>2. Values!IInv /\ [PasswordsNext]_passwordsVars => Values!IInv'
  <2> SUFFICES ASSUME Values!IInv, [PasswordsNext]_passwordsVars PROVE Values!IInv'
    OBVIOUS
  <2>1. Values!Next \/ UNCHANGED Values!vars
    BY DEF PasswordsNext, ChangesStep, CatalogStep, StoreStep, VaultStep, passwordsVars,
           storeVars, Values!vars, Values!ledger, Values!vaults, Values!index, Values!told
  <2> QED BY <2>1, ValuesSteps, ValuesRest
<1> QED BY <1>1, <1>2, PTL DEF PasswordsSpec

\* A saved secret stays readable: whatever fails or dies on the way, a value last reported of it is
\* behind a reference or in a backup, unless two commands worked on it at once or a write of the
\* catalog was interrupted while it had references (Values!disturbed); a draft is stored by one
\* confirmation, and the files of a vault hold with their key what was saved in it.
THEOREM SavedValuesStay ==
  ASSUME Careful, MaxMishaps \in Nat
  PROVE  PasswordsSpec => []SavedValuesSurvive
<1>1. PasswordsSpec => []Values!IInv
  BY PasswordsRunValues
<1>2. PasswordsSpec => []Vault!IInv
  BY PasswordsRunVault
<1>3. Values!IInv => Values!SavedSafely
  BY ValuesAreSafe
<1>4. Vault!IInv => Vault!SavedIsRecoverable /\ Vault!VaultIsWhole
  <2> SUFFICES ASSUME Vault!IInv, command = Vault!Idle, mishaps = 0
               PROVE  /\ registered \subseteq database.items
                      /\ database # Vault!NoFile => unlock = database.key
                      /\ backups = {}
                      /\ \A f \in trash : f.key \in trashKeys
    BY DEF Vault!IInv, Vault!VaultIsWhole
  <2>1. command.kind = "none" /\ command.pc = "idle" /\ command.backup = Vault!NoFile
    BY DEF Vault!Idle
  <2> QED BY <2>1 DEF Vault!IInv, Vault!Whole, Vault!At
<1> QED BY <1>1, <1>2, <1>3, <1>4, PTL DEF SavedValuesSurvive
=============================================================================
