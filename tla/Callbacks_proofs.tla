--------------------------- MODULE Callbacks_proofs ---------------------------
(***************************************************************************)
(* Theorems about Records and QueryRewrite, for any clients, records,      *)
(* stores and queries.                                                     *)
(***************************************************************************)
EXTENDS Records, QueryRewrite, FiniteSetTheorems, SequenceTheorems, TLAPS

-----------------------------------------------------------------------------
(***************************************************************************)
(* Types.                                                                  *)
(***************************************************************************)
LEMMA ContentType ==
  ASSUME NEW m \in Model
  PROVE  Content(m) \in Row
BY DEF Content, Model, Row

LEMMA MergeType ==
  ASSUME NEW m \in Model, NEW i \in Id, NEW r \in Row
  PROVE  Merge(m, i, r) \in Model
BY DEF Merge, Model, Row

\* The number of records a statement saw is a number.
LEMMA CountType ==
  ASSUME NEW T \in SUBSET Id
  PROVE  Cardinality(T) \in Nat
BY FS_CardinalityType, FS_Subset, RecordsAssumption

LEMMA ReplaceType ==
  ASSUME TypeOK, NEW c \in Client, model[c].id \in Id, Replace(c)
  PROVE  /\ store' \in [Id -> Row \cup {Absent}]
         /\ model' \in [Client -> Model]
         /\ \A d \in Client : model[d].id \in Id => model'[d].id \in Id
         /\ used' \subseteq Id
         /\ \A i \in Id : store'[i] # Absent => i \in used'
<1> DEFINE i == model[c].id
           r == Content(model[c])
<1>1. r \in Row
  BY ContentType DEF TypeOK
<1>2. Merge(model[c], i, r) \in Model
  BY <1>1, MergeType DEF TypeOK
<1>3. CASE Exists(i)
  <2>1. /\ store' = [store EXCEPT ![i] = r]
        /\ used' = used \cup {i}
        /\ model' = [model EXCEPT ![c] = Merge(model[c], i, r)]
    BY <1>3 DEF Replace, Write
  <2>2. Merge(model[c], i, r).id = i
    BY DEF Merge
  <2> HIDE DEF i, r
  <2> QED
    BY <1>1, <1>2, <2>1, <2>2 DEF TypeOK, Exists, i
<1>4. CASE ~Exists(i)
  BY <1>4 DEF Replace, TypeOK, Exists
<1> QED
  BY <1>3, <1>4

\* The type invariant, for every number of clients, records and values: what the
\* callbacks of create, update and delete store and decode (callback_create.go:364-480).
THEOREM TypeCorrect == Spec => []TypeOK
<1>1. Init => TypeOK
  BY RecordsAssumption DEF Init, TypeOK, Model, Exists
<1>2. TypeOK /\ [Next]_vars => TypeOK'
  <2> SUFFICES ASSUME TypeOK, [Next]_vars
               PROVE  TypeOK'
    OBVIOUS
  <2> USE DEF TypeOK, Exists
  <2>1. CASE UNCHANGED vars
    BY <2>1 DEF vars, history
  <2>2. ASSUME NEW c \in Client, NEW i \in Id \cup {NoId}, NEW v \in Text \cup {Zero},
               NewModel(c, i, v)
        PROVE  TypeOK'
    <3>1. [id |-> i, name |-> v, deleted |-> FALSE] \in Model
      BY DEF Model
    <3> QED
      BY <2>2, <3>1 DEF NewModel, history
  <2>3. ASSUME NEW c \in Client, NEW v \in Text \cup {Zero}, SetName(c, v)
        PROVE  TypeOK'
    BY <2>3 DEF SetName, history, Model
  <2>4. ASSUME NEW c \in Client, NEW i \in Id, Create(c, i)
        PROVE  TypeOK'
    <3>1. /\ Content(model[c]) \in Row
          /\ Merge(model[c], i, Content(model[c])) \in Model
      BY ContentType, MergeType
    <3>2. c \notin pending /\ calls' \in 0..MaxCall
      BY <2>4, RecordsAssumption DEF Create, Calls
    <3>3. [op |-> "create", who |-> c, rows |-> 1] \in Reply
      BY DEF Reply, Op
    <3> QED
      BY <2>4, <3>1, <3>2, <3>3 DEF Create, Write, Returns
  <2>5. ASSUME NEW c \in Client, CreateWithID(c)
        PROVE  TypeOK'
    <3>1. model[c].id \in Id
      BY <2>5 DEF CreateWithID, Model
    <3>2. c \notin pending /\ calls' \in 0..MaxCall
      BY <2>5, RecordsAssumption DEF CreateWithID, Calls
    <3>3. [op |-> "create", who |-> c, rows |-> 1] \in Reply
      BY DEF Reply, Op
    <3>4. Replace(c)
      BY <2>5 DEF CreateWithID
    <3> QED
      BY <2>5, <3>1, <3>2, <3>3, <3>4, ReplaceType DEF CreateWithID, Shows, Returns
  <2>6. ASSUME NEW c \in Client, SaveCreates(c)
        PROVE  TypeOK'
    <3>1. model[c].id \in Id
      BY <2>6 DEF SaveCreates
    <3>2. [op |-> "save", who |-> c, rows |-> 1] \in Reply
      BY DEF Reply, Op
    <3>3. Replace(c)
      BY <2>6 DEF SaveCreates
    <3> QED
      BY <2>6, <3>1, <3>2, <3>3, ReplaceType DEF SaveCreates, Returns
  <2>7. ASSUME NEW c \in Client, NEW i \in Id, CreateSlice(c, i)
        PROVE  TypeOK'
    <3>1. /\ Content(model[c]) \in Row
          /\ Merge(model[c], i, Content(model[c])) \in Model
      BY ContentType, MergeType
    <3>2. c \notin pending /\ calls' \in 0..MaxCall
      BY <2>7, RecordsAssumption DEF CreateSlice, Calls
    <3>3. /\ [op |-> "slice", who |-> c, rows |-> 1] \in Reply
          /\ [op |-> "error", who |-> c, rows |-> 0] \in Reply
      BY DEF Reply, Op
    <3> QED
      BY <2>7, <3>1, <3>2, <3>3 DEF CreateSlice, Write, Shows, Returns
  <2>8. ASSUME NEW c \in Client, NEW scope \in Scope, Save(c, scope)
        PROVE  TypeOK'
    <3>1. /\ model[c].id \in Id
          /\ [name |-> model[c].name, deleted |-> model[c].deleted] \in Row
      BY <2>8 DEF Save, Model, Row
    <3>2. calls' \in 0..MaxCall
      BY <2>8, RecordsAssumption DEF Save, Calls
    <3>3. [op |-> "save", who |-> c, rows |-> 1] \in Reply
      BY DEF Reply, Op
    <3> QED
      BY <2>8, <3>1, <3>2, <3>3 DEF Save, Write, Shows, Returns
  <2>9. ASSUME NEW c \in Client, NEW scope \in Scope, NEW i \in Id, Read(c, scope, i)
        PROVE  TypeOK'
    <3>1. Exists(i) => Merge(model[c], i, store[i]) \in Model
      BY MergeType
    <3>2. c \notin pending /\ calls' \in 0..MaxCall
      BY <2>9, RecordsAssumption DEF Read, Calls
    <3>3. /\ [op |-> "read", who |-> c, rows |-> 1] \in Reply
          /\ [op |-> "error", who |-> c, rows |-> 0] \in Reply
      BY DEF Reply, Op
    <3> QED
      BY <2>9, <3>1, <3>2, <3>3 DEF Read, Sees, Returns, history
  <2>10. ASSUME NEW c \in Client, NEW scope \in Scope, NEW w \in Condition, NEW v \in Text,
                Update(c, scope, w, v)
         PROVE  TypeOK'
    <3> DEFINE T == Targets(c, scope, w)
    <3>1. \A i \in T : Exists(i) /\ [store[i] EXCEPT !.name = v] \in Row
      BY DEF Targets, Sees, Row
    <3>2. c \notin pending /\ calls' \in 0..MaxCall
      BY <2>10, RecordsAssumption DEF Update, Calls
    <3>3. [op |-> "update", who |-> c, rows |-> Cardinality(T)] \in Reply
      BY CountType DEF Reply, Op, Targets
    <3>4. /\ \A d \in Client : model'[d].id = model[d].id
          /\ model' \in [Client -> Model]
      BY <2>10 DEF Update, Model
    <3>5. store' = [i \in Id |-> IF i \in T THEN [store[i] EXCEPT !.name = v] ELSE store[i]]
      BY <2>10 DEF Update
    <3>6. last' \in Reply /\ pending' = pending /\ used' = used /\ hidden' = hidden
      BY <2>10, <3>3 DEF Update, Returns, history
    <3>7. store' \in [Id -> Row \cup {Absent}] /\ \A i \in Id : store'[i] # Absent => Exists(i)
      BY <3>1, <3>5
    <3> QED
      BY <3>2, <3>4, <3>6, <3>7
  <2>11. ASSUME NEW c \in Client, Restore(c)
         PROVE  TypeOK'
    <3>1. model[c].id \in Id
      BY <2>11 DEF Restore, Model
    <3>2. c \notin pending /\ calls' \in 0..MaxCall
      BY <2>11, RecordsAssumption DEF Restore, Calls
    <3>3. \A n \in {0, 1} : [op |-> "update", who |-> c, rows |-> n] \in Reply
      BY DEF Reply, Op
    <3>4. Exists(model[c].id) => [store[model[c].id] EXCEPT !.deleted = FALSE] \in Row
      BY <3>1 DEF Row
    <3>5. /\ \A d \in Client : model'[d].id = model[d].id
          /\ model' \in [Client -> Model]
      BY <2>11 DEF Restore, Model
    <3> QED
      BY <2>11, <3>1, <3>2, <3>3, <3>4, <3>5 DEF Restore, Shows, Returns
  <2>12. ASSUME NEW c \in Client, NEW w \in Condition, SoftDelete(c, w)
         PROVE  TypeOK'
    <3> DEFINE byID == model[c].id # NoId
               T == {i \in Id : IF byID THEN i = model[c].id ELSE Exists(i) /\ Matches(i, w)}
    <3>1. \A i \in Id : Exists(i) => [store[i] EXCEPT !.deleted = TRUE] \in Row
      BY DEF Row
    <3>2. calls' \in 0..MaxCall
      BY <2>12, RecordsAssumption DEF SoftDelete, Calls
    <3>3. [op |-> "delete", who |-> c, rows |-> IF byID THEN 1 ELSE Cardinality(T)] \in Reply
      BY CountType DEF Reply, Op
    <3>4. /\ store' = [i \in Id |-> IF i \in T /\ Exists(i) THEN [store[i] EXCEPT !.deleted = TRUE]
                                                          ELSE store[i]]
          /\ last' \in Reply
          /\ hidden' \subseteq Id
          /\ UNCHANGED <<model, pending, used>>
      BY <2>12, <3>3 DEF SoftDelete, Hides, Returns
    <3> QED
      BY <3>1, <3>2, <3>4
  <2>13. ASSUME NEW c \in Client, NEW w \in Condition, HardDelete(c, w)
         PROVE  TypeOK'
    <3>1. calls' \in 0..MaxCall
      BY <2>13, RecordsAssumption DEF HardDelete, Calls
    <3>2. \A n \in {0, 1} : [op |-> "delete", who |-> c, rows |-> n] \in Reply
      BY DEF Reply, Op
    <3> QED
      BY <2>13, <3>1, <3>2 DEF HardDelete, Hides, Returns
  <2> QED
    BY <2>1, <2>2, <2>3, <2>4, <2>5, <2>6, <2>7, <2>8, <2>9, <2>10, <2>11, <2>12, <2>13
    DEF Next, Step
<1> QED
  BY <1>1, <1>2, PTL DEF Spec

-----------------------------------------------------------------------------
(***************************************************************************)
(* Deleted records.                                                        *)
(***************************************************************************)
\* Hidden records alone are not inductive: a Save that found its record deleted
\* will replace it, so none may be on its way to a hidden record.
HiddenInv ==
  /\ hidden \subseteq used
  /\ \A i \in hidden : /\ Exists(i) => store[i].deleted
                       /\ \A c \in pending : model[c].id # i

\* What a create with an id does to a record that is not hidden.
LEMMA ReplaceHidden ==
  ASSUME TypeOK, HiddenInv, NEW c \in Client, model[c].id \in Id, Replace(c)
  PROVE  /\ used \subseteq used'
         /\ \A i \in Id \ {model[c].id} : store'[i] = store[i]
         /\ \A d \in Client \ {c} : model'[d] = model[d]
BY DEF Replace, Write, TypeOK

\* Once a Delete has returned, no update, delete or read of any client makes the
\* record visible again (callback_delete.go:140-170).
THEOREM Hidden == Spec => []DeletedStaysHidden
<1>1. Init => HiddenInv
  BY DEF Init, HiddenInv
<1>2. TypeOK /\ HiddenInv /\ [Next]_vars => HiddenInv'
  <2> SUFFICES ASSUME TypeOK, HiddenInv, [Next]_vars
               PROVE  HiddenInv'
    OBVIOUS
  <2>0. hidden \subseteq used /\ used \subseteq Id
    BY DEF HiddenInv, TypeOK
  <2>1. CASE UNCHANGED vars
    BY <2>1 DEF vars, history, HiddenInv, Exists
  <2>2. ASSUME NEW c \in Client, NEW i \in Id \cup {NoId}, NEW v \in Text \cup {Zero},
               NewModel(c, i, v)
        PROVE  HiddenInv'
    BY <2>2 DEF NewModel, history, HiddenInv, Exists, TypeOK
  <2>3. ASSUME NEW c \in Client, NEW v \in Text \cup {Zero}, SetName(c, v)
        PROVE  HiddenInv'
    BY <2>3 DEF SetName, history, HiddenInv, Exists, TypeOK
  <2>4. ASSUME NEW c \in Client, NEW i \in Id, Create(c, i)
        PROVE  HiddenInv'
    <3>1. /\ i \notin hidden /\ hidden' = hidden /\ pending' = pending /\ c \notin pending
          /\ used' = used \cup {i}
          /\ store' = [store EXCEPT ![i] = Content(model[c])]
          /\ model' = [model EXCEPT ![c] = Merge(model[c], i, Content(model[c]))]
      BY <2>4, <2>0 DEF Create, Calls, Write
    <3> QED
      BY <3>1, <2>0 DEF HiddenInv, Exists, TypeOK
  <2>5. ASSUME NEW c \in Client, CreateWithID(c)
        PROVE  HiddenInv'
    <3>1. /\ model[c].id \in Id /\ Replace(c) /\ c \notin pending /\ pending' = pending
          /\ hidden' = hidden \ {model[c].id}
      BY <2>5 DEF CreateWithID, Calls, Shows, TypeOK, Model
    <3> QED
      BY <3>1, <2>0, ReplaceHidden DEF HiddenInv, Exists, TypeOK
  <2>6. ASSUME NEW c \in Client, SaveCreates(c)
        PROVE  HiddenInv'
    <3>1. /\ model[c].id \in Id /\ Replace(c) /\ c \in pending /\ pending' = pending \ {c}
          /\ hidden' = hidden
      BY <2>6 DEF SaveCreates, TypeOK
    <3>2. model[c].id \notin hidden
      BY <3>1 DEF HiddenInv
    <3> QED
      BY <3>1, <3>2, <2>0, ReplaceHidden DEF HiddenInv, Exists, TypeOK
  <2>7. ASSUME NEW c \in Client, NEW i \in Id, CreateSlice(c, i)
        PROVE  HiddenInv'
    <3>1. c \notin pending /\ pending' = pending
      BY <2>7 DEF CreateSlice, Calls
    <3>2. CASE Exists(i)
      BY <2>7, <3>2 DEF CreateSlice, HiddenInv, Exists
    <3>3. CASE ~Exists(i)
      <4>1. /\ hidden' = hidden \ {i}
            /\ used' = used \cup {i}
            /\ store' = [store EXCEPT ![i] = Content(model[c])]
            /\ model' = [model EXCEPT ![c] = Merge(model[c], i, Content(model[c]))]
        BY <2>7, <3>3 DEF CreateSlice, Write, Shows
      <4> QED
        BY <4>1, <3>1, <2>0 DEF HiddenInv, Exists, TypeOK
    <3> QED
      BY <3>2, <3>3
  <2>8. ASSUME NEW c \in Client, NEW scope \in Scope, Save(c, scope)
        PROVE  HiddenInv'
    <3>1. /\ model' = model /\ hidden' = hidden \ {model[c].id}
          /\ pending' \subseteq pending \cup {c}
          /\ used \subseteq used'
          /\ \A i \in Id \ {model[c].id} : store'[i] = store[i]
      BY <2>8 DEF Save, Shows, Write, TypeOK
    <3> QED
      BY <3>1, <2>0 DEF HiddenInv, Exists, TypeOK
  <2>9. ASSUME NEW c \in Client, NEW scope \in Scope, NEW i \in Id, Read(c, scope, i)
        PROVE  HiddenInv'
    <3>1. /\ c \notin pending /\ UNCHANGED <<store, pending, history>>
          /\ \A d \in Client \ {c} : model'[d] = model[d]
      BY <2>9 DEF Read, Calls, TypeOK
    <3> QED
      BY <3>1, <2>0 DEF history, HiddenInv, Exists, TypeOK
  <2>10. ASSUME NEW c \in Client, NEW scope \in Scope, NEW w \in Condition, NEW v \in Text,
                Update(c, scope, w, v)
         PROVE  HiddenInv'
    <3>1. /\ UNCHANGED <<pending, history>>
          /\ \A d \in Client : model'[d].id = model[d].id
      BY <2>10 DEF Update, TypeOK, Model
    <3>2. \A i \in Id : store'[i] = store[i] \/ (Exists(i) /\ store'[i] = [store[i] EXCEPT !.name = v])
      BY <2>10 DEF Update, Targets, Sees
    <3>3. \A i \in Id : Exists(i) => [store[i] EXCEPT !.name = v].deleted = store[i].deleted
      BY DEF TypeOK, Row, Exists
    <3>4. \A i \in Id : store'[i] # Absent => Exists(i) /\ store'[i].deleted = store[i].deleted
      BY <3>2, <3>3 DEF Exists
    <3> QED
      BY <3>1, <3>4, <2>0 DEF history, HiddenInv, Exists, TypeOK
  <2>11. ASSUME NEW c \in Client, Restore(c)
         PROVE  HiddenInv'
    <3>1. /\ hidden' = hidden \ {model[c].id} /\ UNCHANGED <<pending, used>>
          /\ \A d \in Client : model'[d].id = model[d].id
          /\ \A i \in Id \ {model[c].id} : store'[i] = store[i]
      BY <2>11 DEF Restore, Shows, TypeOK, Model
    <3> QED
      BY <3>1, <2>0 DEF HiddenInv, Exists, TypeOK
  <2>12. ASSUME NEW c \in Client, NEW w \in Condition, SoftDelete(c, w)
         PROVE  HiddenInv'
    <3> DEFINE T == {i \in Id : IF model[c].id # NoId THEN i = model[c].id
                                                      ELSE Exists(i) /\ Matches(i, w)}
    <3>1. /\ UNCHANGED <<model, pending, used>>
          /\ hidden' = (hidden \cup (T \cap used)) \ {model[d].id : d \in pending}
          /\ store' = [i \in Id |-> IF i \in T /\ Exists(i) THEN [store[i] EXCEPT !.deleted = TRUE]
                                                           ELSE store[i]]
      BY <2>12 DEF SoftDelete, Hides
    <3>2. \A i \in Id : Exists(i) => [store[i] EXCEPT !.deleted = TRUE].deleted
      BY DEF TypeOK, Row, Exists
    <3>3. \A i \in Id : store'[i] # Absent =>
            Exists(i) /\ (store'[i].deleted \/ (i \notin T /\ store'[i] = store[i]))
      BY <3>1, <3>2 DEF Exists
    <3> QED
      BY <3>1, <3>3, <2>0 DEF HiddenInv, Exists
  <2>13. ASSUME NEW c \in Client, NEW w \in Condition, HardDelete(c, w)
         PROVE  HiddenInv'
    <3> DEFINE T == {i \in Id : IF model[c].id # NoId THEN i = model[c].id
                                                      ELSE Exists(i) /\ Matches(i, w)}
    <3>1. /\ UNCHANGED <<model, pending, used>>
          /\ hidden' = (hidden \cup (T \cap used)) \ {model[d].id : d \in pending}
          /\ store' = [i \in Id |-> IF i \in T THEN Absent ELSE store[i]]
      BY <2>13 DEF HardDelete, Hides
    <3> QED
      BY <3>1, <2>0 DEF HiddenInv, Exists
  <2> QED
    BY <2>1, <2>2, <2>3, <2>4, <2>5, <2>6, <2>7, <2>8, <2>9, <2>10, <2>11, <2>12, <2>13
    DEF Next, Step
<1>3. HiddenInv => DeletedStaysHidden
  BY DEF HiddenInv, DeletedStaysHidden
<1> QED
  BY <1>1, <1>2, <1>3, TypeCorrect, PTL DEF Spec

-----------------------------------------------------------------------------
(***************************************************************************)
(* Save.                                                                   *)
(***************************************************************************)
\* Every call but Save and its create answers something else.
LEMMA OtherReplies ==
  ASSUME NEW c \in Client, NEW op \in Op \ {"save"}, NEW n, Returns(c, op, n)
  PROVE  SaveStores'
BY DEF Returns, SaveStores

\* A Save that returned left its fields in the record, if there is one
\* (callback_update.go:106-142 and callback_create.go:411-424).
THEOREM SaveStored == Spec => []SaveStores
<1>1. Init => SaveStores
  BY DEF Init, SaveStores
<1>2. TypeOK /\ SaveStores /\ [Next]_vars => SaveStores'
  <2> SUFFICES ASSUME TypeOK, SaveStores, [Next]_vars
               PROVE  SaveStores'
    OBVIOUS
  <2>1. CASE UNCHANGED vars
    BY <2>1 DEF vars, SaveStores, Exists
  <2>2. ASSUME last' = None
        PROVE  SaveStores'
    BY <2>2 DEF SaveStores
  <2>3. ASSUME NEW c \in Client, Step(c)
        PROVE  SaveStores'
    <3>1. ASSUME NEW i \in Id, Create(c, i) \/ CreateSlice(c, i)
          PROVE  SaveStores'
      BY <3>1, OtherReplies DEF Create, CreateSlice, Op
    <3>2. CASE CreateWithID(c) \/ Restore(c)
      BY <3>2, OtherReplies DEF CreateWithID, Restore, Op
    <3>3. CASE SaveCreates(c)
      <4> DEFINE i == model[c].id
                 m == Merge(model[c], i, Content(model[c]))
      <4>1. last' = [op |-> "save", who |-> c, rows |-> 1] /\ Replace(c)
        BY <3>3 DEF SaveCreates, Returns
      <4>2. i \in Id
        BY <3>3 DEF SaveCreates, TypeOK
      <4>3. CASE Exists(i)
        <5>1. store'[i] = Content(model[c]) /\ model'[c] = m
          BY <4>1, <4>2, <4>3 DEF Replace, Write, TypeOK
        <5>2. m.id = i /\ Content(m) = Content(model[c])
          BY DEF Merge, Content, TypeOK, Model
        <5> QED
          BY <4>1, <5>1, <5>2 DEF SaveStores, Exists
      <4>4. CASE ~Exists(i)
        BY <4>1, <4>4 DEF Replace, SaveStores, Exists
      <4> QED
        BY <4>3, <4>4
    <3>4. ASSUME NEW scope \in Scope, Save(c, scope)
          PROVE  SaveStores'
      <4>1. CASE Sees(scope, model[c].id)
        <5>1. /\ last' = [op |-> "save", who |-> c, rows |-> 1]
              /\ model' = model
              /\ store' = [store EXCEPT ![model[c].id] = [name |-> model[c].name,
                                                          deleted |-> model[c].deleted]]
          BY <3>4, <4>1 DEF Save, Write, Returns
        <5>2. model[c].id \in Id
          BY <3>4 DEF Save, TypeOK, Model
        <5> QED
          BY <5>1, <5>2 DEF SaveStores, Exists, TypeOK
      <4>2. CASE ~Sees(scope, model[c].id)
        BY <3>4, <4>2, <2>2 DEF Save
      <4> QED
        BY <4>1, <4>2
    <3>5. ASSUME NEW scope \in Scope, NEW i \in Id, Read(c, scope, i)
          PROVE  SaveStores'
      BY <3>5, OtherReplies DEF Read, Op
    <3>6. ASSUME NEW scope \in Scope, NEW w \in Condition, NEW v \in Text,
                 Update(c, scope, w, v)
          PROVE  SaveStores'
      BY <3>6, OtherReplies DEF Update, Op
    <3>7. ASSUME NEW w \in Condition, SoftDelete(c, w) \/ HardDelete(c, w)
          PROVE  SaveStores'
      BY <3>7, OtherReplies DEF SoftDelete, HardDelete, Op
    <3>8. ASSUME NEW i \in Id \cup {NoId}, NEW v \in Text \cup {Zero},
                 NewModel(c, i, v) \/ SetName(c, v)
          PROVE  SaveStores'
      BY <3>8, <2>2 DEF NewModel, SetName
    <3> QED
      BY <2>3, <3>1, <3>2, <3>3, <3>4, <3>5, <3>6, <3>7, <3>8 DEF Step
  <2> QED
    BY <2>1, <2>3 DEF Next
<1> QED
  BY <1>1, <1>2, TypeCorrect, PTL DEF Spec

-----------------------------------------------------------------------------
(***************************************************************************)
(* Records that are gone.                                                  *)
(***************************************************************************)
\* A stale struct never brings back a record that was deleted for good; only an
\* INSERT with its id does (callback_create.go:414-424).
THEOREM Gone == Spec => GoneStaysGone
<1> DEFINE Back == \E i \in used : ~Exists(i) /\ store'[i] # Absent
<1>1. TypeOK /\ [Next]_vars /\ Back => last' # None /\ last'.op = "slice"
  <2> SUFFICES ASSUME TypeOK, [Next]_vars, NEW i \in used, ~Exists(i), store'[i] # Absent
               PROVE  last' # None /\ last'.op = "slice"
    OBVIOUS
  <2>0. i \in Id /\ store[i] = Absent /\ store'[i] # store[i]
    BY DEF TypeOK, Exists
  <2>1. PICK c \in Client : Step(c)
    BY <2>0 DEF vars, Next
  <2>2. ASSUME NEW j \in Id, CreateSlice(c, j)
        PROVE  last' # None /\ last'.op = "slice"
    <3>1. [op |-> "slice", who |-> c, rows |-> 1] \in Reply
      BY DEF Reply, Op
    <3> QED
      BY <2>0, <2>2, <3>1, RecordsAssumption DEF CreateSlice, Returns
  <2>3. ASSUME NEW j \in Id, Create(c, j)
        PROVE  FALSE
    BY <2>0, <2>3 DEF Create, Write, TypeOK
  <2>4. CASE CreateWithID(c) \/ SaveCreates(c)
    BY <2>0, <2>4 DEF CreateWithID, SaveCreates, Replace, Write, Exists, TypeOK
  <2>5. CASE Restore(c)
    BY <2>0, <2>5 DEF Restore, Exists, TypeOK
  <2>6. ASSUME NEW scope \in Scope, Save(c, scope)
        PROVE  FALSE
    BY <2>0, <2>6 DEF Save, Sees, Write, Exists, TypeOK
  <2>7. ASSUME NEW scope \in Scope, NEW j \in Id, Read(c, scope, j)
        PROVE  FALSE
    BY <2>0, <2>7 DEF Read
  <2>8. ASSUME NEW scope \in Scope, NEW w \in Condition, NEW v \in Text,
               Update(c, scope, w, v)
        PROVE  FALSE
    BY <2>0, <2>8 DEF Update, Targets, Sees, Exists
  <2>9. ASSUME NEW w \in Condition, SoftDelete(c, w)
        PROVE  FALSE
    BY <2>0, <2>9 DEF SoftDelete, Exists
  <2>10. ASSUME NEW w \in Condition, HardDelete(c, w)
         PROVE  FALSE
    BY <2>0, <2>10 DEF HardDelete
  <2>11. ASSUME NEW j \in Id \cup {NoId}, NEW v \in Text \cup {Zero},
                NewModel(c, j, v) \/ SetName(c, v)
         PROVE  FALSE
    BY <2>0, <2>11 DEF NewModel, SetName
  <2> QED
    BY <2>1, <2>2, <2>3, <2>4, <2>5, <2>6, <2>7, <2>8, <2>9, <2>10, <2>11 DEF Step
<1>2. TypeOK /\ [Next]_vars =>
        [\A i \in used : ~Exists(i) /\ store'[i] # Absent =>
           last' # None /\ last'.op = "slice"]_vars
  BY <1>1
<1> QED
  BY <1>2, TypeCorrect, PTL DEF Spec, GoneStaysGone

-----------------------------------------------------------------------------
(***************************************************************************)
(* Sequences of a finite set, in an order.                                 *)
(***************************************************************************)
StrictOrder(S, R) ==
  /\ \A x \in S : <<x, x>> \notin R
  /\ \A x, y, z \in S : <<x, y>> \in R /\ <<y, z>> \in R => <<x, z>> \in R
  /\ \A x, y \in S : x = y \/ <<x, y>> \in R \/ <<y, x>> \in R

Below(S, R, x) == {y \in S : <<y, x>> \in R}

\* Of two elements of an ordered set, the smaller has fewer below it.
LEMMA FewerBelow ==
  ASSUME NEW S, IsFiniteSet(S), NEW R, StrictOrder(S, R),
         NEW x \in S, NEW y \in S, <<x, y>> \in R
  PROVE  Cardinality(Below(S, R, x)) < Cardinality(Below(S, R, y))
<1>1. /\ Below(S, R, y) \in SUBSET S /\ IsFiniteSet(Below(S, R, y))
      /\ Cardinality(Below(S, R, y)) \in Nat
  BY FS_Subset, FS_CardinalityType DEF Below
<1>2. Below(S, R, x) \in SUBSET Below(S, R, y)
  BY DEF Below, StrictOrder
<1>3. x \in Below(S, R, y) /\ x \notin Below(S, R, x)
  BY DEF Below, StrictOrder
<1>4. /\ IsFiniteSet(Below(S, R, x)) /\ Cardinality(Below(S, R, x)) \in Nat
      /\ Cardinality(Below(S, R, x)) <= Cardinality(Below(S, R, y))
      /\ Cardinality(Below(S, R, x)) # Cardinality(Below(S, R, y))
  BY <1>1, <1>2, <1>3, FS_Subset, FS_CardinalityType
<1> QED
  BY <1>1, <1>4

\* Every rank is taken, by one element.
LEMMA RanksTaken ==
  ASSUME NEW S, IsFiniteSet(S), NEW R, StrictOrder(S, R)
  PROVE  /\ \A n \in 1..Cardinality(S) : \E x \in S : Cardinality(Below(S, R, x)) = n - 1
         /\ \A x, y \in S : Cardinality(Below(S, R, x)) = Cardinality(Below(S, R, y)) => x = y
         /\ \A x \in S : Cardinality(Below(S, R, x)) + 1 \in 1..Cardinality(S)
<1> DEFINE N == Cardinality(S)
           f == [x \in S |-> Cardinality(Below(S, R, x)) + 1]
<1>1. N \in Nat
  BY FS_CardinalityType
<1>2. ASSUME NEW x \in S
      PROVE  Cardinality(Below(S, R, x)) \in Nat /\ Cardinality(Below(S, R, x)) + 1 \in 1..N
  <2>1. Below(S, R, x) \in SUBSET (S \ {x})
    BY DEF Below, StrictOrder
  <2>2. IsFiniteSet(S \ {x}) /\ Cardinality(S \ {x}) = N - 1
    BY FS_RemoveElement
  <2>3. /\ IsFiniteSet(Below(S, R, x))
        /\ Cardinality(Below(S, R, x)) <= N - 1
    BY <2>1, <2>2, FS_Subset
  <2>4. Cardinality(Below(S, R, x)) \in Nat
    BY <2>3, FS_CardinalityType
  <2> QED
    BY <1>1, <2>3, <2>4
<1>3. ASSUME NEW x \in S, NEW y \in S, Cardinality(Below(S, R, x)) = Cardinality(Below(S, R, y))
      PROVE  x = y
  <2>1. <<x, y>> \notin R
    BY <1>2, <1>3, FewerBelow
  <2>2. <<y, x>> \notin R
    BY <1>2, <1>3, FewerBelow
  <2> QED
    BY <2>1, <2>2 DEF StrictOrder
<1>4. f \in Injection(S, 1..N)
  <2>1. f \in [S -> 1..N]
    BY <1>2
  <2>2. \A x, y \in S : f[x] = f[y] => x = y
    BY <1>2, <1>3
  <2> QED
    BY <2>1, <2>2 DEF Injection, IsInjective
<1>5. IsFiniteSet(1..N) /\ Cardinality(1..N) = N
  BY <1>1, FS_Interval
<1>6. f \in Surjection(S, 1..N)
  BY <1>4, <1>5, FS_Injection
<1>7. ASSUME NEW n \in 1..N
      PROVE  \E x \in S : Cardinality(Below(S, R, x)) = n - 1
  <2>1. PICK x \in S : f[x] = n
    BY <1>6 DEF Surjection
  <2> QED
    BY <1>2, <2>1
<1> QED
  BY <1>2, <1>3, <1>7

LEMMA RankedIs ==
  ASSUME NEW S, IsFiniteSet(S), NEW R, StrictOrder(S, R)
  PROVE  /\ Cardinality(S) \in Nat
         /\ Ranked(S, R) \in [1..Cardinality(S) -> S]
         /\ \A n \in 1..Cardinality(S) : Cardinality(Below(S, R, Ranked(S, R)[n])) = n - 1
         /\ \A x \in S : \E n \in 1..Cardinality(S) : Ranked(S, R)[n] = x
         /\ \A m, n \in 1..Cardinality(S) : m < n => <<Ranked(S, R)[m], Ranked(S, R)[n]>> \in R
<1> DEFINE N == Cardinality(S)
           s == Ranked(S, R)
           C(x) == Cardinality(Below(S, R, x))
<1>1. N \in Nat
  BY FS_CardinalityType
<1>2. s = [n \in 1..N |-> CHOOSE x \in S : C(x) = n - 1]
  BY DEF Ranked, Below
<1>3. \A n \in 1..N : \E x \in S : C(x) = n - 1
  BY RanksTaken
<1>4. ASSUME NEW n \in 1..N
      PROVE  s[n] \in S /\ C(s[n]) = n - 1
  <2>1. s[n] = CHOOSE x \in S : C(x) = n - 1
    BY <1>2
  <2>2. \E x \in S : C(x) = n - 1
    BY <1>3
  <2> HIDE DEF s, C
  <2> QED
    BY <2>1, <2>2, Zenon
<1>5. s \in [1..N -> S]
  BY <1>2, <1>4
<1>6. ASSUME NEW x \in S
      PROVE  \E n \in 1..N : s[n] = x
  <2>1. C(x) + 1 \in 1..N /\ C(x) \in Nat
    <3>1. Below(S, R, x) \in SUBSET S
      BY DEF Below
    <3>2. C(x) \in Nat
      BY <3>1, FS_Subset, FS_CardinalityType
    <3> QED
      BY <3>2, RanksTaken
  <2>2. s[C(x) + 1] \in S /\ C(s[C(x) + 1]) = C(x)
    BY <1>4, <2>1
  <2>3. s[C(x) + 1] = x
    BY <2>2, RanksTaken
  <2> QED
    BY <2>1, <2>3
<1>7. ASSUME NEW m \in 1..N, NEW n \in 1..N, m < n
      PROVE  <<s[m], s[n]>> \in R
  <2>1. s[m] \in S /\ s[n] \in S /\ C(s[m]) < C(s[n])
    BY <1>1, <1>4, <1>7
  <2>2. s[m] # s[n]
    BY <1>4, <1>7
  <2>3. <<s[n], s[m]>> \notin R
    <3>1. SUFFICES ASSUME <<s[n], s[m]>> \in R PROVE FALSE
      OBVIOUS
    <3>2. C(s[n]) < C(s[m])
      BY <2>1, <3>1, FewerBelow
    <3> QED
      BY <1>1, <1>4, <1>7, <3>2
  <2> QED
    BY <2>1, <2>2, <2>3 DEF StrictOrder
<1> QED
  BY <1>1, <1>4, <1>5, <1>6, <1>7

\* There is one way to put a set in order.
LEMMA RankedUnique ==
  ASSUME NEW S, IsFiniteSet(S), NEW R, StrictOrder(S, R),
         NEW t \in [1..Cardinality(S) -> S],
         \A m, n \in 1..Cardinality(S) : m < n => <<t[m], t[n]>> \in R
  PROVE  t = Ranked(S, R)
<1> DEFINE N == Cardinality(S)
           s == Ranked(S, R)
           C(x) == Cardinality(Below(S, R, x))
<1>1. N \in Nat /\ s \in [1..N -> S] /\ \A n \in 1..N : C(s[n]) = n - 1
  BY RankedIs
<1>2. ASSUME NEW m \in 1..N, NEW n \in 1..N, t[m] = t[n]
      PROVE  m = n
  <2>1. t[m] \in S /\ <<t[m], t[m]>> \notin R
    BY DEF StrictOrder
  <2>2. ~(m < n) /\ ~(n < m)
    BY <1>2, <2>1
  <2> QED
    BY <1>1, <2>2
<1>3. \A x \in S : \E n \in 1..N : t[n] = x
  <2>1. t \in Injection(1..N, S)
    BY <1>2 DEF Injection, IsInjective
  <2>2. IsFiniteSet(1..N) /\ Cardinality(1..N) = N
    BY <1>1, FS_Interval
  <2>3. t \in Surjection(1..N, S)
    BY <2>1, <2>2, FS_Injection
  <2> QED
    BY <2>3 DEF Surjection
<1>4. ASSUME NEW n \in 1..N
      PROVE  C(t[n]) = n - 1
  <2> DEFINE g == [m \in 1..(n - 1) |-> t[m]]
             B == Below(S, R, t[n])
  <2>1. \A m \in 1..(n - 1) : m \in 1..N /\ m < n
    BY <1>1
  <2>2. g \in [1..(n - 1) -> B]
    <3>1. \A m \in 1..(n - 1) : t[m] \in B
      BY <2>1 DEF Below
    <3> QED
      BY <3>1
  <2>3. \A a, b \in DOMAIN g : g[a] = g[b] => a = b
    BY <1>2, <2>1
  <2>4. ASSUME NEW y \in B
        PROVE  \E m \in 1..(n - 1) : g[m] = y
    <3>1. y \in S /\ <<y, t[n]>> \in R
      BY DEF Below
    <3>2. PICK k \in 1..N : t[k] = y
      BY <1>3, <3>1
    <3>3. k # n
      BY <3>1, <3>2 DEF StrictOrder
    <3>4. ~(n < k)
      <4>1. SUFFICES ASSUME n < k PROVE FALSE
        OBVIOUS
      <4>2. <<t[n], y>> \in R /\ t[n] \in S
        BY <3>2, <4>1
      <4> QED
        BY <3>1, <4>2 DEF StrictOrder
    <3>5. k \in 1..(n - 1)
      BY <1>1, <3>3, <3>4
    <3> QED
      BY <3>2, <3>5
  <2>5. g \in Bijection(1..(n - 1), B)
    <3>1. g \in Injection(1..(n - 1), B)
      BY <2>2, <2>3 DEF Injection, IsInjective
    <3>2. g \in Surjection(1..(n - 1), B)
      BY <2>2, <2>4 DEF Surjection
    <3> QED
      BY <3>1, <3>2 DEF Bijection
  <2>6. IsFiniteSet(1..(n - 1)) /\ Cardinality(1..(n - 1)) = n - 1
    BY <1>1, FS_Interval
  <2>7. ExistsBijection(1..(n - 1), B)
    BY <2>5 DEF ExistsBijection
  <2> QED
    BY <2>6, <2>7, FS_Bijection
<1>5. ASSUME NEW n \in 1..N
      PROVE  t[n] = s[n]
  BY <1>1, <1>4, RanksTaken
<1> QED
  BY <1>1, <1>5

LEMMA OrderOfNumbers ==
  ASSUME NEW S \in SUBSET Nat
  PROVE  StrictOrder(S, Less(S))
  BY DEF StrictOrder, Less

LEMMA InOrderIs ==
  ASSUME NEW S \in SUBSET Nat, IsFiniteSet(S)
  PROVE  /\ Cardinality(S) \in Nat
         /\ InOrder(S) \in [1..Cardinality(S) -> S]
         /\ \A x \in S : \E n \in 1..Cardinality(S) : InOrder(S)[n] = x
         /\ \A m, n \in 1..Cardinality(S) : m < n => InOrder(S)[m] < InOrder(S)[n]
         /\ InOrder(S) \in Seq(S) /\ Len(InOrder(S)) = Cardinality(S)
         /\ Range(InOrder(S)) = S /\ IsInjective(InOrder(S))
<1> DEFINE N == Cardinality(S)
           s == InOrder(S)
<1>1. StrictOrder(S, Less(S))
  BY OrderOfNumbers
<1>2. /\ N \in Nat /\ s \in [1..N -> S]
      /\ \A x \in S : \E n \in 1..N : s[n] = x
      /\ \A m, n \in 1..N : m < n => <<s[m], s[n]>> \in Less(S)
  BY <1>1, RankedIs DEF InOrder
<1> HIDE DEF s
<1>3. \A m, n \in 1..N : m < n => s[m] < s[n]
  BY <1>2 DEF Less
<1>4. Range(s) = S
  BY <1>2 DEF Range
<1>5. IsInjective(s)
  <2>1. SUFFICES ASSUME NEW a \in 1..N, NEW b \in 1..N, s[a] = s[b]
                 PROVE  a = b
    BY <1>2 DEF IsInjective
  <2>2. s[a] \in Nat
    BY <1>2
  <2>3. ~(a < b) /\ ~(b < a)
    BY <1>3, <2>1, <2>2
  <2> QED
    BY <1>2, <2>3
<1>6. s \in Seq(S) /\ Len(s) = N
  BY <1>2
<1> QED
  BY <1>2, <1>3, <1>4, <1>5, <1>6 DEF s

\* What is kept of a sequence: the elements that are in the set, as often as before.
LEMMA KeptIs ==
  ASSUME NEW X, NEW ids \in Seq(X), NEW T
  PROVE  /\ Kept(ids, T) \in Seq(X)
         /\ Range(Kept(ids, T)) = Range(ids) \cap T
         /\ IsInjective(ids) => IsInjective(Kept(ids, T))
<1> DEFINE I == {i \in DOMAIN ids : ids[i] \in T}
           N == Cardinality(I)
           at == InOrder(I)
           kept == Kept(ids, T)
<1>1. /\ DOMAIN ids = 1..Len(ids) /\ Len(ids) \in Nat
      /\ I \in SUBSET (1..Len(ids)) /\ I \in SUBSET Nat
  OBVIOUS
<1>2. IsFiniteSet(I)
  <2>1. IsFiniteSet(1..Len(ids))
    BY <1>1, FS_Interval
  <2> QED
    BY <1>1, <2>1, FS_Subset
<1>3. /\ N \in Nat /\ at \in [1..N -> I]
      /\ \A x \in I : \E n \in 1..N : at[n] = x
      /\ IsInjective(at)
  BY <1>1, <1>2, InOrderIs
<1>4. kept = [n \in 1..N |-> ids[at[n]]]
  <2>1. DOMAIN at = 1..N
    BY <1>3
  <2> QED
    BY <2>1 DEF Kept, Elements
<1> HIDE DEF at, kept, N
<1>5. \A i \in I : ids[i] \in X \cap T
  OBVIOUS
<1>6. kept \in [1..N -> X]
  BY <1>3, <1>4, <1>5
<1>7. kept \in Seq(X)
  BY <1>3, <1>6
<1>8. ASSUME NEW x \in Range(kept)
      PROVE  x \in Range(ids) \cap T
  <2>1. PICK n \in 1..N : x = ids[at[n]]
    BY <1>4, <1>6, <1>8 DEF Range
  <2>2. at[n] \in I
    BY <1>3
  <2> QED
    BY <2>1, <2>2, <1>5 DEF Range
<1>9. ASSUME NEW x \in Range(ids) \cap T
      PROVE  x \in Range(kept)
  <2>1. PICK i \in DOMAIN ids : x = ids[i]
    BY DEF Range
  <2>2. i \in I
    BY <2>1, <1>9
  <2>3. PICK n \in 1..N : at[n] = i
    BY <1>3, <2>2
  <2>4. kept[n] = x /\ n \in DOMAIN kept
    BY <1>4, <2>1, <2>3
  <2> QED
    BY <2>4 DEF Range
<1>10. ASSUME IsInjective(ids), NEW a \in 1..N, NEW b \in 1..N, kept[a] = kept[b]
       PROVE  a = b
  <2>1. at[a] \in DOMAIN ids /\ at[b] \in DOMAIN ids /\ ids[at[a]] = ids[at[b]]
    BY <1>3, <1>4, <1>10
  <2>2. at[a] = at[b]
    BY <1>10, <2>1 DEF IsInjective
  <2> QED
    BY <1>3, <2>2 DEF IsInjective
<1>11. IsInjective(ids) => IsInjective(kept)
  BY <1>4, <1>10 DEF IsInjective
<1> QED
  BY <1>7, <1>8, <1>9, <1>11 DEF kept

\* Places of a sequence of numbers, by the number and then by the place.
ByNumber(ids) == {p \in (DOMAIN ids) \X (DOMAIN ids) :
                    Earlier(<<ids[p[1]], p[1]>>, <<ids[p[2]], p[2]>>)}

\* Sorting keeps what there is; without duplicates it is the order of the set.
LEMMA SortedIs ==
  ASSUME NEW X \in SUBSET Nat, NEW ids \in Seq(X)
  PROVE  /\ Sorted(ids) \in Seq(X)
         /\ Range(Sorted(ids)) = Range(ids)
         /\ IsInjective(ids) => Sorted(ids) = InOrder(Range(ids))
<1> DEFINE L == Len(ids)
           at == Ranked(DOMAIN ids, ByNumber(ids))
           sorted == Sorted(ids)
<1>0. L \in Nat /\ DOMAIN ids = 1..L /\ ids \in [1..L -> X]
  OBVIOUS
<1> HIDE DEF L
<1>1. L \in Nat /\ DOMAIN ids = 1..L /\ IsFiniteSet(DOMAIN ids) /\ Cardinality(DOMAIN ids) = L
  BY <1>0, FS_Interval
<1>2. \A i \in 1..L : ids[i] \in X /\ ids[i] \in Nat
  BY <1>0
<1>3. \A i, j \in 1..L :
        <<i, j>> \in ByNumber(ids) <=> ids[i] < ids[j] \/ (ids[i] = ids[j] /\ i < j)
  BY <1>1 DEF ByNumber, Earlier
<1>4. StrictOrder(DOMAIN ids, ByNumber(ids))
  <2> DEFINE R == ByNumber(ids)
  <2> HIDE DEF R
  <2>0. \A i, j \in 1..L : <<i, j>> \in R <=> ids[i] < ids[j] \/ (ids[i] = ids[j] /\ i < j)
    BY <1>3 DEF R
  <2>1. \A x \in 1..L : <<x, x>> \notin R
    BY <1>1, <1>2, <2>0
  <2>2. ASSUME NEW x \in 1..L, NEW y \in 1..L, NEW z \in 1..L, <<x, y>> \in R, <<y, z>> \in R
        PROVE  <<x, z>> \in R
    <3>1. ids[x] \in Nat /\ ids[y] \in Nat /\ ids[z] \in Nat
      BY <1>2
    <3>2. /\ ids[x] < ids[y] \/ (ids[x] = ids[y] /\ x < y)
          /\ ids[y] < ids[z] \/ (ids[y] = ids[z] /\ y < z)
      BY <2>0, <2>2
    <3>3. ids[x] < ids[z] \/ (ids[x] = ids[z] /\ x < z)
      BY <1>1, <3>1, <3>2
    <3> QED
      BY <2>0, <3>3
  <2>3. ASSUME NEW x \in 1..L, NEW y \in 1..L
        PROVE  x = y \/ <<x, y>> \in R \/ <<y, x>> \in R
    <3>1. ids[x] < ids[y] \/ ids[y] < ids[x] \/ (ids[x] = ids[y] /\ (x = y \/ x < y \/ y < x))
      <4>1. ids[x] \in Nat /\ ids[y] \in Nat /\ x \in Nat /\ y \in Nat
        BY <1>2
      <4> QED
        BY <4>1
    <3> QED
      BY <2>0, <3>1
  <2> QED
    BY <1>1, <2>1, <2>2, <2>3 DEF StrictOrder, R
<1>5. /\ at \in [1..L -> 1..L]
      /\ \A x \in 1..L : \E n \in 1..L : at[n] = x
      /\ \A m, n \in 1..L : m < n => <<at[m], at[n]>> \in ByNumber(ids)
  <2> DEFINE D == DOMAIN ids
             R == ByNumber(ids)
  <2>1. D = 1..L /\ IsFiniteSet(D) /\ Cardinality(D) = L
    BY <1>1
  <2>2. StrictOrder(D, R) /\ at = Ranked(D, R)
    BY <1>4
  <2> HIDE DEF D, R, at
  <2>3. /\ at \in [1..Cardinality(D) -> D]
        /\ \A x \in D : \E n \in 1..Cardinality(D) : at[n] = x
        /\ \A m, n \in 1..Cardinality(D) : m < n => <<at[m], at[n]>> \in R
    BY <2>1, <2>2, RankedIs
  <2> QED
    BY <2>1, <2>3 DEF R
<1>6. sorted = [n \in 1..L |-> ids[at[n]]]
  <2>1. DOMAIN at = 1..L
    BY <1>5
  <2> QED
    BY <2>1 DEF Sorted, Elements, ByNumber
<1> HIDE DEF at, sorted
<1>7. sorted \in [1..L -> X] /\ sorted \in Seq(X)
  <2>1. sorted \in [1..L -> X]
    BY <1>2, <1>5, <1>6
  <2> QED
    BY <1>0, <2>1
<1>8. Range(sorted) = Range(ids)
  <2>1. Range(sorted) \subseteq Range(ids)
    BY <1>1, <1>5, <1>6 DEF Range
  <2>2. ASSUME NEW x \in Range(ids)
        PROVE  x \in Range(sorted)
    <3>1. PICK i \in 1..L : ids[i] = x
      BY <1>1 DEF Range
    <3>2. PICK n \in 1..L : at[n] = i
      BY <1>5
    <3>3. sorted[n] = x /\ n \in DOMAIN sorted
      BY <1>6, <3>1, <3>2
    <3> QED
      BY <3>3 DEF Range
  <2> QED
    BY <2>1, <2>2
<1>9. ASSUME IsInjective(ids)
      PROVE  sorted = InOrder(Range(ids))
  <2> DEFINE S == Range(ids)
  <2>1. S \in SUBSET Nat
    BY <1>1, <1>2 DEF Range
  <2>2. IsFiniteSet(S) /\ Cardinality(S) = L
    <3>1. ids \in [1..L -> S]
      BY <1>1 DEF Range
    <3>2. \A a, b \in DOMAIN ids : ids[a] = ids[b] => a = b
      BY <1>9 DEF IsInjective
    <3>3. \A x \in S : \E i \in 1..L : ids[i] = x
      BY <1>1 DEF Range
    <3>4. ids \in Injection(1..L, S) /\ ids \in Surjection(1..L, S)
      BY <3>1, <3>2, <3>3 DEF Injection, Surjection, IsInjective
    <3>5. ExistsBijection(1..L, S)
      BY <3>4 DEF ExistsBijection, Bijection
    <3> QED
      BY <1>1, <3>5, FS_Bijection
  <2>3. sorted \in [1..L -> S]
    <3>1. \A n \in 1..L : sorted[n] \in Range(sorted)
      BY <1>7 DEF Range
    <3> QED
      BY <1>7, <1>8, <3>1
  <2>4. \A m, n \in 1..L : m < n => <<sorted[m], sorted[n]>> \in Less(S)
    <3>1. SUFFICES ASSUME NEW m \in 1..L, NEW n \in 1..L, m < n
                   PROVE  <<sorted[m], sorted[n]>> \in Less(S)
      OBVIOUS
    <3>2. /\ at[m] \in 1..L /\ at[n] \in 1..L
          /\ \/ ids[at[m]] < ids[at[n]]
             \/ ids[at[m]] = ids[at[n]] /\ at[m] < at[n]
      BY <1>3, <1>5, <3>1
    <3>3. ids[at[m]] # ids[at[n]]
      <4>1. SUFFICES ASSUME ids[at[m]] = ids[at[n]] PROVE FALSE
        OBVIOUS
      <4>2. at[m] = at[n]
        BY <1>1, <1>9, <3>2, <4>1 DEF IsInjective
      <4> QED
        BY <1>2, <3>2, <4>1, <4>2
    <3>4. sorted[m] < sorted[n]
      BY <1>6, <3>2, <3>3
    <3> QED
      BY <2>3, <3>4 DEF Less
  <2> HIDE DEF S
  <2>5. sorted = Ranked(S, Less(S))
    BY <2>1, <2>2, <2>3, <2>4, OrderOfNumbers, RankedUnique
  <2> QED
    BY <2>5 DEF S, InOrder
<1> QED
  BY <1>7, <1>8, <1>9 DEF sorted

LEMMA BackwardsIs ==
  ASSUME NEW X, NEW ids \in Seq(X)
  PROVE  Backwards(ids) \in Seq(X) /\ Range(Backwards(ids)) \subseteq Range(ids)
<1>1. Len(ids) \in Nat /\ DOMAIN ids = 1..Len(ids)
  OBVIOUS
<1>2. \A n \in 1..Len(ids) : Len(ids) + 1 - n \in 1..Len(ids)
  BY <1>1
<1>3. Backwards(ids) = [n \in 1..Len(ids) |-> ids[Len(ids) + 1 - n]]
  BY <1>1 DEF Backwards
<1>4. Backwards(ids) \in [1..Len(ids) -> X]
  BY <1>2, <1>3
<1>5. Range(Backwards(ids)) \subseteq Range(ids)
  BY <1>1, <1>2, <1>3 DEF Range
<1> QED
  BY <1>1, <1>4, <1>5

\* A page is a part of what there is, and how long it is does not depend on what is
\* in it.
LEMMA PageIs ==
  ASSUME NEW X, NEW ids \in Seq(X), NEW limit \in Nat, NEW start \in Nat
  PROVE  /\ Page(ids, limit, start) \in Seq(X)
         /\ Range(Page(ids, limit, start)) \subseteq Range(ids)
         /\ IsInjective(ids) => IsInjective(Page(ids, limit, start))
         /\ \A Y : \A other \in Seq(Y) : Len(other) = Len(ids) =>
              Len(Page(other, limit, start)) = Len(Page(ids, limit, start))
<1> DEFINE rest(s) == SubSeq(s, start + 1, Len(s))
           left(n) == IF n > start THEN n - start ELSE 0
           size(n) == IF limit = 0 \/ limit >= left(n) THEN left(n) ELSE limit
<1>1. ASSUME NEW Y, NEW s \in Seq(Y)
      PROVE  /\ Page(s, limit, start) \in Seq(Y)
             /\ Len(Page(s, limit, start)) = size(Len(s))
             /\ \A n \in 1..size(Len(s)) :
                  n + start \in 1..Len(s) /\ Page(s, limit, start)[n] = s[n + start]
  <2>1. /\ rest(s) \in Seq(Y) /\ Len(rest(s)) = left(Len(s))
        /\ \A n \in 1..left(Len(s)) : rest(s)[n] = s[n + start]
    OBVIOUS
  <2>2. Len(s) \in Nat /\ left(Len(s)) \in Nat
    OBVIOUS
  <2>3. \A n \in 1..left(Len(s)) : n + start \in 1..Len(s)
    BY <2>2
  <2>4. Page(s, limit, start) =
          IF limit = 0 \/ limit >= Len(rest(s)) THEN rest(s) ELSE SubSeq(rest(s), 1, limit)
    BY DEF Page
  <2> HIDE DEF rest, left
  <2>5. CASE limit = 0 \/ limit >= left(Len(s))
    BY <2>1, <2>2, <2>3, <2>4, <2>5
  <2>6. CASE ~(limit = 0 \/ limit >= left(Len(s)))
    <3>1. Page(s, limit, start) = SubSeq(rest(s), 1, limit) /\ size(Len(s)) = limit
      BY <2>1, <2>4, <2>6
    <3>2. /\ SubSeq(rest(s), 1, limit) \in Seq(Y) /\ Len(SubSeq(rest(s), 1, limit)) = limit
          /\ \A n \in 1..limit : SubSeq(rest(s), 1, limit)[n] = rest(s)[n]
      BY <2>1, <2>2, <2>6
    <3> QED
      BY <2>1, <2>2, <2>3, <2>6, <3>1, <3>2
  <2> QED
    BY <2>5, <2>6
<1> DEFINE page == Page(ids, limit, start)
           N == size(Len(ids))
<1>2. /\ page \in Seq(X) /\ Len(page) = N /\ DOMAIN page = 1..N
      /\ \A n \in 1..N : n + start \in DOMAIN ids /\ page[n] = ids[n + start]
  BY <1>1
<1>3. \A Y : \A other \in Seq(Y) : Len(other) = Len(ids) => Len(Page(other, limit, start)) = N
  BY <1>1
<1>4. N \in Nat
  BY <1>2
<1> HIDE DEF page, N
<1>5. Range(page) \subseteq Range(ids)
  BY <1>2 DEF Range
<1>6. ASSUME IsInjective(ids), NEW a \in 1..N, NEW b \in 1..N, page[a] = page[b]
      PROVE  a = b
  <2>1. a + start = b + start
    BY <1>2, <1>6 DEF IsInjective
  <2> QED
    BY <1>4, <2>1
<1>7. IsInjective(ids) => IsInjective(page)
  BY <1>2, <1>6 DEF IsInjective
<1> QED
  BY <1>2, <1>3, <1>5, <1>7 DEF page

\* A sequence without one of its elements.
LEMMA WithoutIs ==
  ASSUME NEW X, NEW s \in Seq(X), NEW i \in DOMAIN s
  PROVE  /\ Without(s, i) \in Seq(X) /\ Len(Without(s, i)) = Len(s) - 1
         /\ \A j \in 1..(Len(s) - 1) : Without(s, i)[j] = IF j < i THEN s[j] ELSE s[j + 1]
         /\ \A j \in (DOMAIN s) \ {i} : \E k \in DOMAIN Without(s, i) : Without(s, i)[k] = s[j]
         /\ \A k \in DOMAIN Without(s, i) : \E j \in (DOMAIN s) \ {i} : Without(s, i)[k] = s[j]
<1> DEFINE a == SubSeq(s, 1, i - 1)
           b == SubSeq(s, i + 1, Len(s))
           w == Without(s, i)
<1>1. Len(s) \in Nat /\ DOMAIN s = 1..Len(s) /\ i \in 1..Len(s)
  OBVIOUS
<1>2. a \in Seq(X) /\ Len(a) = i - 1 /\ \A j \in 1..(i - 1) : a[j] = s[j]
  BY <1>1
<1>3. b \in Seq(X) /\ Len(b) = Len(s) - i /\ \A j \in 1..(Len(s) - i) : b[j] = s[j + i]
  BY <1>1
<1>4. w = a \o b
  BY DEF Without
<1> HIDE DEF a, b, w
<1>5. /\ w \in Seq(X) /\ Len(w) = Len(s) - 1
      /\ \A j \in 1..(Len(s) - 1) : w[j] = IF j <= i - 1 THEN a[j] ELSE b[j - (i - 1)]
  <2>1. /\ w \in Seq(X) /\ Len(w) = Len(a) + Len(b)
        /\ \A j \in 1..(Len(a) + Len(b)) : w[j] = IF j <= Len(a) THEN a[j] ELSE b[j - Len(a)]
    BY <1>2, <1>3, <1>4, ConcatProperties
  <2>2. Len(a) + Len(b) = Len(s) - 1 /\ Len(a) = i - 1
    BY <1>1, <1>2, <1>3
  <2> QED
    BY <2>1, <2>2
<1>6. \A j \in 1..(Len(s) - 1) : w[j] = IF j < i THEN s[j] ELSE s[j + 1]
  <2>1. SUFFICES ASSUME NEW j \in 1..(Len(s) - 1)
                 PROVE  w[j] = IF j < i THEN s[j] ELSE s[j + 1]
    OBVIOUS
  <2>2. CASE j < i
    <3>1. w[j] = a[j]
      BY <1>1, <1>5, <2>2
    <3> QED
      BY <1>1, <1>2, <2>2, <3>1
  <2>3. CASE ~(j < i)
    <3>1. w[j] = b[j - (i - 1)]
      BY <1>1, <1>5, <2>3
    <3>2. j - (i - 1) \in 1..(Len(s) - i) /\ (j - (i - 1)) + i = j + 1
      BY <1>1, <2>3
    <3> QED
      BY <1>3, <2>3, <3>1, <3>2
  <2> QED
    BY <2>2, <2>3
<1>7. DOMAIN w = 1..(Len(s) - 1)
  BY <1>5
<1>8. ASSUME NEW j \in (DOMAIN s) \ {i}
      PROVE  \E k \in DOMAIN w : w[k] = s[j]
  <2>1. CASE j < i
    <3>1. j \in 1..(Len(s) - 1) /\ w[j] = s[j]
      BY <1>1, <1>6, <2>1
    <3> QED
      BY <1>7, <3>1
  <2>2. CASE j > i
    <3>1. j - 1 \in 1..(Len(s) - 1) /\ ~(j - 1 < i) /\ (j - 1) + 1 = j
      BY <1>1, <2>2
    <3>2. w[j - 1] = s[j]
      BY <1>6, <3>1
    <3> QED
      BY <1>7, <3>1, <3>2
  <2> QED
    BY <1>1, <2>1, <2>2
<1>9. ASSUME NEW k \in DOMAIN w
      PROVE  \E j \in (DOMAIN s) \ {i} : w[k] = s[j]
  <2>1. k \in 1..(Len(s) - 1)
    BY <1>7
  <2>2. CASE k < i
    BY <1>1, <1>6, <2>1, <2>2
  <2>3. CASE ~(k < i)
    <3>1. k + 1 \in (DOMAIN s) \ {i} /\ w[k] = s[k + 1]
      BY <1>1, <1>6, <2>1, <2>3
    <3> QED
      BY <3>1
  <2> QED
    BY <2>2, <2>3
<1> QED
  BY <1>5, <1>6, <1>8, <1>9 DEF w

-----------------------------------------------------------------------------
(***************************************************************************)
(* Clauses.                                                             *)
(***************************************************************************)
Clauses == Clause \cup {Alive}

LEMMA PlacesAre ==
  ASSUME NEW where
  PROVE  /\ \A p \in Places(where) : /\ p[1] \in DOMAIN where /\ p[2] \in DOMAIN where[p[1]].any
                                     /\ p = <<p[1], p[2]>>
         /\ \A i \in DOMAIN where : \A k \in DOMAIN where[i].any :
              <<i, k>> \in Places(where) /\ At(where, <<i, k>>) = where[i].any[k]
  BY DEF Places, At

\* Clauses joined by AND alone hold where each of them does.
LEMMA AndOnly ==
  ASSUME NEW where \in Seq(Clauses), \A i \in DOMAIN where : ~where[i].or, NEW r
  PROVE  /\ Satisfies(r, where, Server) <=> \A i \in DOMAIN where : Holds(where[i], r, Server)
         /\ Satisfies(r, where, Meant) <=> \A i \in DOMAIN where : Holds(where[i], r, Meant)
<1>1. DOMAIN where = 1..Len(where) /\ Len(where) \in Nat
  OBVIOUS
<1>2. where = <<>> <=> Len(where) = 0
  OBVIOUS
<1>3. ASSUME NEW G
      PROVE  (\/ where = <<>>
              \/ \E i \in DOMAIN where :
                   /\ i = 1 \/ where[i].or
                   /\ \A j \in i..Len(where) : (\A k \in i+1..j : ~where[k].or) => j \in G)
             <=> \A i \in DOMAIN where : i \in G
  <2>1. CASE where = <<>>
    BY <1>1, <1>2, <2>1
  <2>2. CASE where # <<>>
    <3>1. 1 \in DOMAIN where
      BY <1>1, <1>2, <2>2
    <3>2. \A j \in 1..Len(where) : \A k \in 1+1..j : ~where[k].or
      BY <1>1
    <3> QED
      BY <1>1, <2>2, <3>1, <3>2
  <2> QED
    BY <2>1, <2>2
<1> DEFINE S == {j \in DOMAIN where : Holds(where[j], r, Server)}
           M == {j \in DOMAIN where : Holds(where[j], r, Meant)}
<1>4. \A j \in DOMAIN where : /\ j \in S <=> Holds(where[j], r, Server)
                              /\ j \in M <=> Holds(where[j], r, Meant)
  OBVIOUS
<1>5. \A i \in DOMAIN where : i..Len(where) \subseteq DOMAIN where
  BY <1>1
<1>6. Satisfies(r, where, Server) <=>
        (\/ where = <<>>
         \/ \E i \in DOMAIN where :
              /\ i = 1 \/ where[i].or
              /\ \A j \in i..Len(where) : (\A k \in i+1..j : ~where[k].or) => j \in S)
  BY <1>4, <1>5 DEF Satisfies
<1>7. Satisfies(r, where, Meant) <=>
        (\/ where = <<>>
         \/ \E i \in DOMAIN where :
              /\ i = 1 \/ where[i].or
              /\ \A j \in i..Len(where) : (\A k \in i+1..j : ~where[k].or) => j \in M)
  BY <1>4, <1>5 DEF Satisfies
<1> HIDE DEF S, M
<1> QED
  BY <1>3, <1>4, <1>6, <1>7, Zenon

-----------------------------------------------------------------------------
(***************************************************************************)
(* The statement.                                                          *)
(***************************************************************************)
Statement == [direct : BOOLEAN, from : Seq(AnyId), where : Seq(Clauses),
              order : {"none", "id", "desc"}, broken : BOOLEAN]

TypeInv == QueryTypeOK /\ text \in Statement

LEMMA AtomsAre ==
  ASSUME NEW where \in Seq(Clauses), NEW p \in Places(where)
  PROVE  /\ At(where, p) \in Atom \/ where[p[1]] = Alive
         /\ At(where, p).op \in {"eq", "in"} => where[p[1]] \in Clause /\ At(where, p) \in Atom
<1>1. p[1] \in DOMAIN where /\ p[2] \in DOMAIN where[p[1]].any
  BY PlacesAre
<1>2. where[p[1]] \in Clauses
  BY <1>1
<1>3. CASE where[p[1]] \in Clause
  <2>1. where[p[1]].any \in Seq(Atom)
    BY <1>3 DEF Clause
  <2> QED
    BY <1>1, <1>3, <2>1 DEF At
<1>4. CASE where[p[1]] = Alive
  <2>1. At(where, p).op = "alive"
    BY <1>1, <1>4 DEF At, Alive
  <2> QED
    BY <1>4, <2>1
<1> QED
  BY <1>2, <1>3, <1>4 DEF Clauses

LEMMA DropIs ==
  ASSUME NEW t \in Statement, NEW i \in DOMAIN t.where
  PROVE  /\ Drop(t, i) \in Statement
         /\ Drop(t, i).where \in {t.where, Without(t.where, i)}
         /\ Len(Drop(t, i).where) <= Len(t.where)
<1>1. t.where \in Seq(Clauses)
  BY DEF Statement
<1> DEFINE rest == Without(t.where, i)
           b == t.broken \/ (rest # <<>> /\ rest[1].or)
<1>2. rest \in Seq(Clauses) /\ Len(rest) <= Len(t.where)
  BY <1>1, WithoutIs
<1>3. b \in BOOLEAN
  OBVIOUS
<1>4. Drop(t, i) \in {t, [t EXCEPT !.where = rest, !.broken = b]}
  BY DEF Drop
<1> HIDE DEF b
<1>5. /\ [t EXCEPT !.where = rest, !.broken = b] \in Statement
      /\ [t EXCEPT !.where = rest, !.broken = b].where = rest
  BY <1>2, <1>3 DEF Statement
<1>6. Len(t.where) \in Nat
  BY <1>1
<1>7. CASE Drop(t, i) = t
  BY <1>6, <1>7
<1>8. CASE Drop(t, i) = [t EXCEPT !.where = rest, !.broken = b]
  BY <1>2, <1>5, <1>8
<1> QED
  BY <1>4, <1>7, <1>8

\* A statement whose FROM, order and soundness are replaced.
LEMMA EditIs ==
  ASSUME NEW t \in Statement, NEW f \in Seq(AnyId), NEW o \in {"none", "id", "desc"},
         NEW b \in BOOLEAN
  PROVE  [t EXCEPT !.direct = TRUE, !.from = f, !.order = o, !.broken = b] \in Statement
  BY DEF Statement

LEMMA TableIs ==
  /\ Mine \in SUBSET Nat /\ IsFiniteSet(Mine) /\ AnyId \in SUBSET Nat /\ IsFiniteSet(AnyId)
  /\ InOrder(Mine) \in Seq(AnyId) /\ Range(InOrder(Mine)) = Mine /\ IsInjective(InOrder(Mine))
<1>1. Mine \in SUBSET AnyId /\ AnyId \in SUBSET Nat /\ IsFiniteSet(AnyId)
  BY QueryRewriteAssumption DEF AnyId
<1>2. Mine \in SUBSET Nat /\ IsFiniteSet(Mine)
  BY <1>1, FS_Subset
<1>3. /\ Cardinality(Mine) \in Nat /\ InOrder(Mine) \in [1..Cardinality(Mine) -> Mine]
      /\ Range(InOrder(Mine)) = Mine /\ IsInjective(InOrder(Mine))
  BY <1>2, InOrderIs
<1>4. InOrder(Mine) \in Seq(AnyId)
  <2> DEFINE n == Cardinality(Mine)
  <2>1. n \in Nat /\ InOrder(Mine) \in [1..n -> AnyId]
    BY <1>1, <1>3
  <2> HIDE DEF n
  <2> QED
    BY <2>1
<1> QED
  BY <1>1, <1>2, <1>3, <1>4

\* What the server answers: ids of FROM that exist and satisfy the conditions.
LEMMA ResponseIs ==
  ASSUME NEW t \in Statement, query \in Query, ~t.broken
  PROVE  /\ Response(t) \in Seq(AnyId)
         /\ Range(Response(t)) \subseteq Range(t.from) \cap Found(t.where)
<1> DEFINE kept == Kept(t.from, Found(t.where))
<1>1. t.from \in Seq(AnyId) /\ t.order \in {"none", "id", "desc"}
  BY DEF Statement
<1>2. kept \in Seq(AnyId) /\ Range(kept) = Range(t.from) \cap Found(t.where)
  BY <1>1, KeptIs
<1> HIDE DEF kept
<1>3. Sorted(kept) \in Seq(AnyId) /\ Range(Sorted(kept)) = Range(kept)
  BY <1>2, TableIs, SortedIs
<1>4. Backwards(Sorted(kept)) \in Seq(AnyId) /\ Range(Backwards(Sorted(kept))) \subseteq Range(kept)
  BY <1>3, BackwardsIs
<1>5. Ordered(kept, t.order) \in Seq(AnyId) /\ Range(Ordered(kept, t.order)) \subseteq Range(kept)
  BY <1>1, <1>2, <1>3, <1>4 DEF Ordered
<1>6. query.limit \in Nat /\ query.start \in Nat
  BY DEF Query
<1>7. Response(t) = Page(Ordered(kept, t.order), query.limit, query.start)
  BY DEF Response, kept
<1> QED
  BY <1>2, <1>5, <1>6, <1>7, PageIs

LEMMA TypeInit == QueryInit => TypeInv
<1> SUFFICES ASSUME QueryInit
             PROVE  TypeInv
  OBVIOUS
<1>1. query \in Query /\ db \in Stores
  BY QueryRewriteAssumption DEF QueryInit
<1>2. <<>> \in Seq(AnyId) /\ <<>> \in Seq(Clauses) /\ Len(<<>>) = 0
  OBVIOUS
<1>3. text \in Statement
  BY <1>2 DEF QueryInit, Statement
<1>4. query.where \in Seq(Clause)
  BY <1>1 DEF Query
<1>5. Len(text.where) <= Len(query.where) + 1
  BY <1>2, <1>4 DEF QueryInit
<1>6. text.direct \in BOOLEAN /\ text.broken \in BOOLEAN /\ text.from \in Seq(AnyId)
      /\ text.where \in Seq(Clause \cup {Alive})
  BY <1>3 DEF Statement, Clauses
<1> QED
  BY <1>1, <1>2, <1>3, <1>5, <1>6 DEF QueryInit, TypeInv, QueryTypeOK

\* A step that leaves a statement behind, and what is asked and held as it is.
LEMMA StatementStep ==
  ASSUME TypeInv, UNCHANGED <<query, db, rows>>,
         text' \in Statement, Len(text'.where) <= Len(query.where) + 1,
         pc' \in {"build", "byID", "byIDList", "rewrite", "execute", "done"}
  PROVE  TypeInv'
<1>1. /\ text'.direct \in BOOLEAN /\ text'.broken \in BOOLEAN /\ text'.from \in Seq(AnyId)
      /\ text'.where \in Seq(Clause \cup {Alive})
  BY DEF Statement, Clauses
<1>2. query' \in Query /\ db' \in Stores /\ (rows' = NoAnswer \/ rows' \in Seq(AnyId))
  BY DEF TypeInv, QueryTypeOK
<1>3. Len(text'.where) <= Len(query'.where) + 1
  OBVIOUS
<1> QED
  BY <1>1, <1>2, <1>3 DEF TypeInv, QueryTypeOK

\* What Build puts behind the application's conditions.
Built == IF query.soft THEN Append(query.where, Alive) ELSE query.where

LEMMA BuiltIs ==
  ASSUME query \in Query
  PROVE  /\ query.where \in Seq(Clause) /\ Len(query.where) \in Nat
         /\ Built \in Seq(Clauses) /\ Len(Built) \in Nat
         /\ Len(Built) = Len(query.where) + (IF query.soft THEN 1 ELSE 0)
         /\ \A i \in DOMAIN query.where : i \in DOMAIN Built /\ Built[i] = query.where[i]
         /\ \A i \in DOMAIN Built : i \in DOMAIN query.where \/ (query.soft /\ Built[i] = Alive)
         /\ query.soft => \E i \in DOMAIN Built : i \notin DOMAIN query.where /\ Built[i] = Alive
<1>1. query.where \in Seq(Clause) /\ Len(query.where) \in Nat /\ query.soft \in BOOLEAN
  BY DEF Query
<1>2. query.where \in Seq(Clauses) /\ Alive \in Clauses
  <2>1. query.where \in [1..Len(query.where) -> Clause]
    BY <1>1
  <2>2. query.where \in [1..Len(query.where) -> Clauses]
    BY <2>1 DEF Clauses
  <2> QED
    BY <1>1, <2>2 DEF Clauses
<1>3. CASE query.soft
  <2>1. Built = Append(query.where, Alive)
    BY <1>3 DEF Built
  <2>2. /\ Built \in Seq(Clauses) /\ Len(Built) = Len(query.where) + 1
        /\ DOMAIN Built = 1..(Len(query.where) + 1)
        /\ \A i \in 1..Len(query.where) : Built[i] = query.where[i]
        /\ Built[Len(query.where) + 1] = Alive
    BY <1>2, <1>1, <2>1
  <2>3. DOMAIN query.where = 1..Len(query.where)
    BY <1>1
  <2> QED
    BY <1>1, <1>3, <2>2, <2>3
<1>4. CASE ~query.soft
  BY <1>1, <1>2, <1>4 DEF Built
<1> QED
  BY <1>1, <1>3, <1>4

LEMMA BuildTypes ==
  ASSUME TypeInv, Build
  PROVE  TypeInv'
<1>1. query \in Query
  BY DEF TypeInv, QueryTypeOK
<1>2. text' = [direct |-> FALSE, from |-> InOrder(Mine), where |-> Built, order |-> query.order,
               broken |-> FALSE]
  BY DEF Build, Built
<1>3. query.order \in {"none", "id", "desc"}
  BY <1>1 DEF Query
<1>4. text' \in Statement /\ text'.where = Built
  BY <1>1, <1>2, <1>3, BuiltIs, TableIs DEF Statement
<1>5. Len(Built) <= Len(query.where) + 1
  <2>1. Len(query.where) \in Nat /\ Len(Built) = Len(query.where) + (IF query.soft THEN 1 ELSE 0)
    BY <1>1, BuiltIs
  <2> HIDE DEF Built
  <2> QED
    BY <2>1
<1> QED
  BY <1>4, <1>5, StatementStep DEF Build

LEMMA ByIDTypes ==
  ASSUME TypeInv, OptimizeFindByID
  PROVE  TypeInv'
<1>1. query \in Query /\ text \in Statement /\ Len(text.where) <= Len(query.where) + 1
  BY DEF TypeInv, QueryTypeOK
<1>2. CASE UNCHANGED text
  BY <1>1, <1>2, StatementStep DEF OptimizeFindByID
<1>3. ASSUME NEW p \in Places(text.where), IsP1(text.where, p),
             IsRecordID(At(text.where, p).args[1]),
             text' = [Drop(text, p[1]) EXCEPT
                        !.direct = TRUE, !.from = At(text.where, p).args, !.order = "none",
                        !.broken = @ \/ text.order = "desc"]
      PROVE  TypeInv'
  <2> DEFINE t == Drop(text, p[1])
             f == At(text.where, p).args
             b == t.broken \/ text.order = "desc"
  <2>1. text.where \in Seq(Clauses) /\ p[1] \in DOMAIN text.where
    BY <1>1, PlacesAre DEF Statement
  <2>2. At(text.where, p) \in Atom /\ At(text.where, p).op = "eq"
    BY <1>3, <2>1, AtomsAre DEF IsP1
  <2>3. f \in Seq(AnyId \cup Name) /\ Len(f) = 1 /\ f[1] \in AnyId
    BY <1>3, <2>2 DEF Atom, IsRecordID
  <2>4. f \in Seq(AnyId)
    <3>1. f \in [1..Len(f) -> AnyId]
      BY <2>3
    <3>2. Len(f) \in Nat
      BY <2>3
    <3> HIDE DEF f
    <3> QED
      BY <3>1, <3>2
  <2>5. t \in Statement /\ Len(t.where) <= Len(text.where)
    BY <1>1, <2>1, DropIs
  <2>6. b \in BOOLEAN
    OBVIOUS
  <2>7. text' = [t EXCEPT !.direct = TRUE, !.from = f, !.order = "none", !.broken = b]
    BY <1>3
  <2> HIDE DEF t, f, b
  <2>8. text' \in Statement
    BY <2>4, <2>5, <2>6, <2>7, EditIs
  <2>9. text'.where = t.where
    BY <2>5, <2>7 DEF Statement
  <2>10. Len(t.where) \in Nat /\ Len(text.where) \in Nat /\ Len(query.where) \in Nat
    BY <1>1, <2>1, <2>5, BuiltIs DEF Statement
  <2>11. Len(text'.where) <= Len(query.where) + 1
    BY <1>1, <2>5, <2>9, <2>10
  <2> QED
    BY <2>8, <2>11, StatementStep DEF OptimizeFindByID
<1> QED
  BY <1>2, <1>3 DEF OptimizeFindByID

LEMMA ByIDListTypes ==
  ASSUME TypeInv, OptimizeFindByIDList
  PROVE  TypeInv'
<1>1. query \in Query /\ text \in Statement /\ Len(text.where) <= Len(query.where) + 1
  BY DEF TypeInv, QueryTypeOK
<1>2. CASE UNCHANGED text
  BY <1>1, <1>2, StatementStep DEF OptimizeFindByIDList
<1>3. ASSUME NEW p \in Places(text.where), InList(At(text.where, p)),
             \A v \in Range(At(text.where, p).args) : IsRecordID(v),
             text' = [Drop(text, p[1]) EXCEPT
                        !.direct = TRUE,
                        !.from = IF text.direct THEN @ ELSE At(text.where, p).args]
      PROVE  TypeInv'
  <2> DEFINE t == Drop(text, p[1])
             args == At(text.where, p).args
             f == IF text.direct THEN t.from ELSE args
  <2>1. text.where \in Seq(Clauses) /\ p[1] \in DOMAIN text.where
    BY <1>1, PlacesAre DEF Statement
  <2>2. At(text.where, p) \in Atom
    BY <1>3, <2>1, AtomsAre DEF InList
  <2>3. args \in Seq(AnyId \cup Name) /\ \A i \in 1..Len(args) : args[i] \in AnyId
    <3>1. args \in Seq(AnyId \cup Name)
      BY <2>2 DEF Atom
    <3>2. \A i \in 1..Len(args) : args[i] \in Range(args)
      BY <3>1 DEF Range
    <3> QED
      BY <1>3, <3>1, <3>2 DEF IsRecordID
  <2>4. args \in Seq(AnyId)
    BY <2>3
  <2>5. t \in Statement /\ Len(t.where) <= Len(text.where)
    BY <1>1, <2>1, DropIs
  <2>6. t.from \in Seq(AnyId) /\ t.order \in {"none", "id", "desc"} /\ t.broken \in BOOLEAN
    BY <2>5 DEF Statement
  <2>7. f \in Seq(AnyId)
    BY <2>4, <2>6
  <2>8. text' = [t EXCEPT !.direct = TRUE, !.from = f]
    BY <1>3
  <2> HIDE DEF t, f, args
  <2>9. text' \in Statement /\ text'.where = t.where
    BY <2>5, <2>7, <2>8 DEF Statement
  <2>10. Len(t.where) \in Nat /\ Len(text.where) \in Nat /\ Len(query.where) \in Nat
    BY <1>1, <2>1, <2>5, BuiltIs DEF Statement
  <2>11. Len(text'.where) <= Len(query.where) + 1
    BY <1>1, <2>5, <2>9, <2>10
  <2> QED
    BY <2>9, <2>11, StatementStep DEF OptimizeFindByIDList
<1> QED
  BY <1>2, <1>3 DEF OptimizeFindByIDList

LEMMA TypeStep ==
  ASSUME TypeInv, [QueryNext]_queryVars
  PROVE  TypeInv'
<1>1. query \in Query /\ text \in Statement /\ Len(text.where) <= Len(query.where) + 1
  BY DEF TypeInv, QueryTypeOK
<1>2. CASE RewriteSQL
  <2> DEFINE b == text.broken \/ (query.count /\ (query.limit # 0 \/ query.start # 0))
  <2>1. text' = [text EXCEPT !.broken = b] /\ b \in BOOLEAN
    BY <1>2 DEF RewriteSQL
  <2> HIDE DEF b
  <2>2. text' \in Statement /\ text'.where = text.where
    BY <1>1, <2>1 DEF Statement
  <2> QED
    BY <1>1, <1>2, <2>2, StatementStep DEF RewriteSQL
<1>3. CASE Execute
  <2>1. rows' = NoAnswer \/ rows' \in Seq(AnyId)
    <3>1. CASE text.broken
      BY <1>3, <3>1 DEF Execute, Response
    <3>2. CASE ~text.broken
      BY <1>1, <1>3, <3>2, ResponseIs DEF Execute
    <3> QED
      BY <3>1, <3>2
  <2> QED
    BY <1>3, <2>1 DEF Execute, TypeInv, QueryTypeOK
<1>4. CASE UNCHANGED queryVars
  BY <1>4 DEF queryVars, TypeInv, QueryTypeOK
<1> QED
  BY <1>2, <1>3, <1>4, BuildTypes, ByIDTypes, ByIDListTypes DEF QueryNext

\* The type invariant, for all queries and stores: what QueryCallback and executeSQL
\* make of a statement is one (callback_query.go:15-89, executor.go:61-221).
THEOREM QueryTypeCorrect == QuerySpec => []QueryTypeOK
<1>1. TypeInv => QueryTypeOK
  BY DEF TypeInv
<1> QED
  BY <1>1, TypeInit, TypeStep, PTL DEF QuerySpec

LEMMA TypeAlways == QuerySpec => []TypeInv
  BY TypeInit, TypeStep, PTL DEF QuerySpec

-----------------------------------------------------------------------------
(***************************************************************************)
(* The rewritings lose no condition.                                       *)
(***************************************************************************)
AndJoined(where) == \A i \in DOMAIN where : ~where[i].or
AboutNoID(c) == \A k \in DOMAIN c.any : ~LooksLikeID(c.any[k])

\* What keeps OtherConditionsKept until the server answers: only a condition with a
\* comparison that looks like a lookup by id is ever cut out.
ConditionsKept ==
  pc \in {"byID", "byIDList", "rewrite", "execute"} /\ AndJoined(query.where) =>
    /\ AndJoined(text.where)
    /\ \A i \in DOMAIN query.where :
         AboutNoID(query.where[i]) => query.where[i] \in Range(text.where)
    /\ query.soft => Alive \in Range(text.where)

\* Cutting condition i keeps the others, and joins none of them by OR.
LEMMA DropKeeps ==
  ASSUME NEW t \in Statement, NEW p \in Places(t.where), LooksLikeID(At(t.where, p)),
         AndJoined(t.where)
  PROVE  /\ AndJoined(Drop(t, p[1]).where)
         /\ \A c \in Range(t.where) : AboutNoID(c) => c \in Range(Drop(t, p[1]).where)
         /\ Alive \in Range(t.where) => Alive \in Range(Drop(t, p[1]).where)
<1> DEFINE i == p[1]
           rest == Without(t.where, i)
<1>1. t.where \in Seq(Clauses) /\ i \in DOMAIN t.where /\ p[2] \in DOMAIN t.where[i].any
  BY PlacesAre DEF Statement
<1>2. /\ \A j \in (DOMAIN t.where) \ {i} : \E k \in DOMAIN rest : rest[k] = t.where[j]
      /\ \A k \in DOMAIN rest : \E j \in (DOMAIN t.where) \ {i} : rest[k] = t.where[j]
  <2> DEFINE s == t.where
  <2>1. s \in Seq(Clauses) /\ i \in DOMAIN s
    BY <1>1
  <2> HIDE DEF s, i
  <2>2. /\ \A j \in (DOMAIN s) \ {i} : \E k \in DOMAIN Without(s, i) : Without(s, i)[k] = s[j]
        /\ \A k \in DOMAIN Without(s, i) : \E j \in (DOMAIN s) \ {i} : Without(s, i)[k] = s[j]
    BY <2>1, WithoutIs
  <2> QED
    BY <2>2 DEF s
<1>3. ~AboutNoID(t.where[i])
  BY <1>1 DEF AboutNoID, At
<1>4. t.where[i] # Alive
  <2>1. At(t.where, p).op # "alive"
    BY DEF LooksLikeID
  <2> QED
    BY <1>1, <2>1 DEF At, Alive
<1>5. Drop(t, i).where \in {t.where, rest}
  BY <1>1, DropIs
<1> HIDE DEF rest
<1>6. AndJoined(rest)
  BY <1>2 DEF AndJoined
<1>7. ASSUME NEW c \in Range(t.where), AboutNoID(c) \/ c = Alive
      PROVE  c \in Range(rest)
  <2>1. PICK j \in DOMAIN t.where : c = t.where[j]
    BY DEF Range
  <2>2. j # i
    BY <1>3, <1>4, <1>7, <2>1
  <2> QED
    BY <1>2, <2>1, <2>2 DEF Range
<1> QED
  BY <1>5, <1>6, <1>7

LEMMA BuildKeeps ==
  ASSUME TypeInv, Build
  PROVE  ConditionsKept'
<1>1. query \in Query /\ text'.where = Built /\ query' = query
  BY DEF TypeInv, QueryTypeOK, Build, Built
<1>2. \A i \in DOMAIN query.where : query.where[i] \in Range(Built)
  BY <1>1, BuiltIs DEF Range
<1>3. query.soft => Alive \in Range(Built)
  BY <1>1, BuiltIs DEF Range
<1>4. AndJoined(query.where) => AndJoined(Built)
  <2>1. ~Alive.or
    BY DEF Alive
  <2> QED
    BY <1>1, <2>1, BuiltIs DEF AndJoined
<1> QED
  BY <1>1, <1>2, <1>3, <1>4 DEF ConditionsKept

\* A step that leaves the conditions as they are, or cuts one that looks like a lookup.
LEMMA CutKeeps ==
  ASSUME TypeInv, ConditionsKept, pc \in {"byID", "byIDList", "rewrite"}, query' = query,
         \/ text'.where = text.where
         \/ \E p \in Places(text.where) :
              LooksLikeID(At(text.where, p)) /\ text'.where = Drop(text, p[1]).where
  PROVE  ConditionsKept'
<1>1. CASE text'.where = text.where
  BY <1>1 DEF ConditionsKept
<1>2. ASSUME NEW p \in Places(text.where), LooksLikeID(At(text.where, p)),
             text'.where = Drop(text, p[1]).where
      PROVE  ConditionsKept'
  <2>1. text \in Statement
    BY DEF TypeInv
  <2>2. AndJoined(query.where) => AndJoined(text.where)
    BY DEF ConditionsKept
  <2>3. AndJoined(text.where) =>
          /\ AndJoined(text'.where)
          /\ \A c \in Range(text.where) : AboutNoID(c) => c \in Range(text'.where)
          /\ Alive \in Range(text.where) => Alive \in Range(text'.where)
    BY <1>2, <2>1, DropKeeps
  <2> QED
    BY <2>2, <2>3 DEF ConditionsKept
<1> QED
  BY <1>1, <1>2

LEMMA ByIDKeeps ==
  ASSUME TypeInv, ConditionsKept, OptimizeFindByID
  PROVE  ConditionsKept'
<1>1. query' = query /\ pc = "byID"
  BY DEF OptimizeFindByID
<1>2. ASSUME NEW p \in Places(text.where), IsP1(text.where, p),
             text' = [Drop(text, p[1]) EXCEPT
                        !.direct = TRUE, !.from = At(text.where, p).args, !.order = "none",
                        !.broken = @ \/ text.order = "desc"]
      PROVE  LooksLikeID(At(text.where, p)) /\ text'.where = Drop(text, p[1]).where
  <2>1. LooksLikeID(At(text.where, p))
    BY <1>2 DEF IsP1, LooksLikeID
  <2>2. Drop(text, p[1]) \in Statement
    BY PlacesAre, DropIs DEF TypeInv
  <2> QED
    BY <1>2, <2>1, <2>2 DEF Statement
<1>3. \/ text' = text
      \/ \E p \in Places(text.where) :
           LooksLikeID(At(text.where, p)) /\ text'.where = Drop(text, p[1]).where
  BY <1>2 DEF OptimizeFindByID
<1> QED
  BY <1>1, <1>3, CutKeeps

LEMMA ByIDListKeeps ==
  ASSUME TypeInv, ConditionsKept, OptimizeFindByIDList
  PROVE  ConditionsKept'
<1>1. query' = query /\ pc = "byIDList"
  BY DEF OptimizeFindByIDList
<1>2. ASSUME NEW p \in Places(text.where), InList(At(text.where, p)),
             text' = [Drop(text, p[1]) EXCEPT
                        !.direct = TRUE,
                        !.from = IF text.direct THEN @ ELSE At(text.where, p).args]
      PROVE  LooksLikeID(At(text.where, p)) /\ text'.where = Drop(text, p[1]).where
  <2>1. LooksLikeID(At(text.where, p))
    BY <1>2 DEF InList, LooksLikeID
  <2>2. Drop(text, p[1]) \in Statement
    BY PlacesAre, DropIs DEF TypeInv
  <2> QED
    BY <1>2, <2>1, <2>2 DEF Statement
<1>3. \/ text' = text
      \/ \E p \in Places(text.where) :
           LooksLikeID(At(text.where, p)) /\ text'.where = Drop(text, p[1]).where
  BY <1>2 DEF OptimizeFindByIDList
<1> QED
  BY <1>1, <1>3, CutKeeps

\* The rows of a statement satisfy what is left of its conditions.
LEMMA RowsSatisfy ==
  ASSUME TypeInv, ~text.broken, AndJoined(text.where),
         NEW r \in Range(Response(text))
  PROVE  \A i \in DOMAIN text.where : Holds(text.where[i], r, Server)
<1>1. r \in Found(text.where)
  BY ResponseIs DEF TypeInv, QueryTypeOK
<1>2. text.where \in Seq(Clauses)
  BY DEF TypeInv, Statement
<1>3. Satisfies(r, text.where, Server)
  BY <1>1 DEF Found
<1> QED
  BY <1>2, <1>3, AndOnly DEF AndJoined

LEMMA AliveIs ==
  ASSUME NEW r
  PROVE  Holds(Alive, r, Server) <=> ~db[r].deleted
<1>1. Alive.neg = FALSE /\ DOMAIN Alive.any = {1} /\ Alive.any[1].op = "alive"
  BY DEF Alive
<1> QED
  BY <1>1 DEF Holds, Server

LEMMA ExecuteKeeps ==
  ASSUME TypeInv, ConditionsKept, Execute
  PROVE  OtherConditionsKept'
<1> DEFINE Keeps(s) ==
             \A r \in Range(s) :
               /\ \A i \in DOMAIN query.where :
                    AboutNoID(query.where[i]) => Holds(query.where[i], r, Server)
               /\ query.soft => ~db[r].deleted
<1>1. query' = query /\ db' = db /\ text' = text /\ rows' = Response(text) /\ pc = "execute"
  BY DEF Execute
<1>2. ASSUME AndJoined(query.where), ~text.broken
      PROVE  Keeps(Response(text))
  <2>1. SUFFICES ASSUME NEW r \in Range(Response(text))
                 PROVE  /\ \A i \in DOMAIN query.where :
                             AboutNoID(query.where[i]) => Holds(query.where[i], r, Server)
                        /\ query.soft => ~db[r].deleted
    OBVIOUS
  <2>2. /\ AndJoined(text.where)
        /\ \A i \in DOMAIN query.where :
             AboutNoID(query.where[i]) => query.where[i] \in Range(text.where)
        /\ query.soft => Alive \in Range(text.where)
    BY <1>1, <1>2 DEF ConditionsKept
  <2>3. \A c \in Range(text.where) : Holds(c, r, Server)
    BY <1>2, <2>2, RowsSatisfy DEF Range
  <2> QED
    BY <2>2, <2>3, AliveIs
<1>3. text.broken => rows' = NoAnswer
  BY <1>1 DEF Response
<1>4. OtherConditionsKept' <=>
        (pc' = "done" /\ rows' # NoAnswer /\ AndJoined(query.where) => Keeps(rows'))
  BY <1>1 DEF OtherConditionsKept, AndJoined, AboutNoID, Holds, Server
<1> QED
  BY <1>1, <1>2, <1>3, <1>4

KeepsInv == ConditionsKept /\ OtherConditionsKept

LEMMA KeepsStep ==
  ASSUME TypeInv, KeepsInv, [QueryNext]_queryVars
  PROVE  KeepsInv'
<1>1. CASE UNCHANGED queryVars
  <2>1. query' = query /\ db' = db /\ text' = text /\ rows' = rows /\ pc' = pc
    BY <1>1 DEF queryVars
  <2>2. ConditionsKept'
    BY <2>1 DEF KeepsInv, ConditionsKept
  <2>3. OtherConditionsKept' <=> OtherConditionsKept
    BY <2>1 DEF OtherConditionsKept, Holds, Server
  <2> QED
    BY <2>2, <2>3 DEF KeepsInv
<1>2. ASSUME pc' \notin {"build", "done"}, ConditionsKept'
      PROVE  KeepsInv'
  BY <1>2 DEF KeepsInv, OtherConditionsKept
<1>3. CASE Build
  BY <1>2, <1>3, BuildKeeps DEF Build
<1>4. CASE OptimizeFindByID
  BY <1>2, <1>4, ByIDKeeps DEF OptimizeFindByID, KeepsInv
<1>5. CASE OptimizeFindByIDList
  BY <1>2, <1>5, ByIDListKeeps DEF OptimizeFindByIDList, KeepsInv
<1>6. CASE RewriteSQL
  <2>1. text'.where = text.where
    BY <1>6 DEF RewriteSQL, TypeInv, Statement
  <2>2. ConditionsKept'
    BY <1>6, <2>1, CutKeeps DEF RewriteSQL, KeepsInv
  <2> QED
    BY <1>2, <1>6, <2>2 DEF RewriteSQL
<1>7. CASE Execute
  <2>1. ConditionsKept'
    BY <1>7 DEF Execute, ConditionsKept
  <2> QED
    BY <1>7, <2>1, ExecuteKeeps DEF KeepsInv
<1> QED
  BY <1>1, <1>3, <1>4, <1>5, <1>6, <1>7 DEF QueryNext

\* What a lookup answers satisfies every condition that is not about ids and is not
\* soft-deleted, whatever the rewritings take for a lookup (callback_query.go:58).
THEOREM KeepsOtherConditions == QuerySpec => []OtherConditionsKept
<1>1. QueryInit => KeepsInv
  BY DEF QueryInit, KeepsInv, ConditionsKept, OtherConditionsKept
<1>2. KeepsInv => OtherConditionsKept
  BY DEF KeepsInv
<1> QED
  BY <1>1, <1>2, TypeAlways, KeepsStep, PTL DEF QuerySpec

-----------------------------------------------------------------------------
(***************************************************************************)
(* What a sensible lookup finds.                                           *)
(***************************************************************************)
\* Condition i of the query is the one that is a lookup by id, on its own.
IsLookup(i) ==
  /\ i \in DOMAIN query.where /\ Plain(query.where[i])
  /\ query.where[i].any[1].col = "id" /\ query.where[i].any[1].op \in {"eq", "in"}

Whole(t) ==
  /\ t.where = Built /\ t.from = InOrder(Mine)
  /\ ~t.direct /\ ~t.broken /\ t.order = query.order

CutAt(t, i) ==
  /\ IsLookup(i)
  /\ t.where = Without(Built, i) /\ t.from = query.where[i].any[1].args
  /\ ~t.broken
  /\ t.order = query.order \/ (t.order = "none" /\ Len(t.from) = 1)

Cut(t) == \E i \in DOMAIN query.where : CutAt(t, i)

NoList == \A i \in DOMAIN query.where : \A k \in DOMAIN query.where[i].any :
            query.where[i].any[k].op # "in"

\* The statement is the one that was built, or its one lookup is what FROM lists; a
\* lookup by a list of ids does not stay behind.
CutsOnce ==
  Sensible(query) =>
    /\ pc = "byID" => Whole(text)
    /\ pc = "byIDList" => Whole(text) \/ Cut(text)
    /\ pc \in {"rewrite", "execute"} => (Whole(text) /\ NoList) \/ Cut(text)

\* A lookup by id is the only one, and stands alone in its condition.
LEMMA SensibleIs ==
  ASSUME query \in Query, Sensible(query),
         NEW i \in DOMAIN query.where, NEW k \in DOMAIN query.where[i].any
  PROVE  LET a == query.where[i].any[k] IN
         /\ a \in Atom /\ query.where[i] \in Clause
         /\ LooksLikeID(a) /\ a.col = "author_id" => a.style # "raw"
         /\ a.op = "in" => a.col = "id"
         /\ LooksLikeID(a) /\ a.col = "id" =>
              /\ IsLookup(i) /\ k = 1
              /\ Range(a.args) \subseteq Mine /\ IsInjective(a.args)
              /\ \A j \in (DOMAIN query.where) \ {i} : \A l \in DOMAIN query.where[j].any :
                   query.where[j].any[l].op # "in"
<1> DEFINE c == query.where[i]
           a == c.any[k]
<1>1. query.where \in Seq(Clause)
  BY DEF Query
<1>2. c \in Clause /\ c.any \in Seq(Atom)
  <2>1. c \in Clause
    BY <1>1
  <2> HIDE DEF c
  <2> QED
    BY <2>1 DEF Clause
<1>3. a \in Atom
  BY <1>2
<1>4. \A j \in DOMAIN query.where : \A l \in DOMAIN query.where[j].any :
        query.where[j].any[l].op = "in" => query.where[j].any[l].col = "id"
  BY DEF Sensible
<1>5. LooksLikeID(a) /\ a.col # "id" => a.style # "raw"
  BY DEF Sensible
<1>6. ASSUME LooksLikeID(a), a.col = "id"
      PROVE  /\ Plain(c)
             /\ Range(a.args) \subseteq Mine /\ IsInjective(a.args)
             /\ \A j \in (DOMAIN query.where) \ {i} : \A l \in DOMAIN query.where[j].any :
                  ~(LooksLikeID(query.where[j].any[l]) /\ query.where[j].any[l].col = "id")
  BY <1>6 DEF Sensible
<1>7. ASSUME LooksLikeID(a), a.col = "id"
      PROVE  IsLookup(i) /\ k = 1
  <2>1. Plain(c) /\ Len(c.any) = 1
    BY <1>6, <1>7 DEF Plain
  <2>2. k = 1
    BY <1>2, <2>1
  <2> QED
    BY <1>7, <2>1, <2>2 DEF IsLookup, LooksLikeID
<1>8. ASSUME LooksLikeID(a), a.col = "id"
      PROVE  \A j \in (DOMAIN query.where) \ {i} : \A l \in DOMAIN query.where[j].any :
               query.where[j].any[l].op # "in"
  BY <1>4, <1>6, <1>8 DEF LooksLikeID
<1> QED
  BY <1>2, <1>3, <1>4, <1>5, <1>6, <1>7, <1>8

LEMMA LookupIs ==
  ASSUME query \in Query, Sensible(query), NEW i \in DOMAIN query.where, IsLookup(i)
  PROVE  LET a == query.where[i].any[1] IN
         /\ 1 \in DOMAIN query.where[i].any /\ a \in Atom
         /\ Range(a.args) \subseteq Mine /\ IsInjective(a.args) /\ a.args \in Seq(AnyId)
         /\ \A j \in (DOMAIN query.where) \ {i} : \A l \in DOMAIN query.where[j].any :
              query.where[j].any[l].op # "in"
         /\ \A r : Holds(query.where[i], r, Meant) <=> r \in Range(a.args)
<1> DEFINE c == query.where[i]
           a == c.any[1]
<1>1. c \in Clause /\ c.any \in Seq(Atom) /\ c.neg \in BOOLEAN
  <2>1. c \in Clause
    BY DEF Query
  <2> HIDE DEF c
  <2> QED
    BY <2>1 DEF Clause
<1>2. Len(c.any) = 1 /\ c.neg = FALSE /\ a.col = "id" /\ a.op \in {"eq", "in"}
  BY <1>1 DEF IsLookup, Plain
<1>3. DOMAIN c.any = {1}
  BY <1>1, <1>2
<1>4. LooksLikeID(a)
  BY <1>2 DEF LooksLikeID
<1>5. /\ a \in Atom /\ Range(a.args) \subseteq Mine /\ IsInjective(a.args)
      /\ \A j \in (DOMAIN query.where) \ {i} : \A l \in DOMAIN query.where[j].any :
           query.where[j].any[l].op # "in"
  BY <1>2, <1>3, <1>4, SensibleIs
<1>6. a.args \in Seq(AnyId \cup Name) /\ (a.op = "eq" => Len(a.args) = 1)
  BY <1>5 DEF Atom
<1>7. a.args \in Seq(AnyId)
  <2> DEFINE s == a.args
             n == Len(s)
  <2>1. s \in Seq(AnyId \cup Name) /\ Range(s) \subseteq AnyId /\ n \in Nat
    BY <1>5, <1>6 DEF AnyId
  <2> HIDE DEF s
  <2>2. \A j \in 1..n : s[j] \in AnyId
    BY <2>1 DEF Range
  <2>3. s \in [1..n -> AnyId]
    BY <2>1, <2>2
  <2> HIDE DEF n
  <2>4. s \in Seq(AnyId)
    BY <2>1, <2>3
  <2> QED
    BY <2>4 DEF s
<1>8. ASSUME NEW r
      PROVE  Holds(c, r, Meant) <=> r \in Range(a.args)
  <2>1. Holds(c, r, Meant) <=> Meant(a, r)
    BY <1>2, <1>3 DEF Holds
  <2>2. CASE a.op = "in"
    BY <1>2, <2>1, <2>2 DEF Meant
  <2>3. CASE a.op = "eq"
    <3>1. Meant(a, r) <=> r = a.args[1]
      BY <1>2, <2>3 DEF Meant, Server
    <3>2. DOMAIN a.args = {1}
      BY <1>6, <2>3
    <3> QED
      BY <2>1, <3>1, <3>2 DEF Range
  <2> QED
    BY <1>2, <2>2, <2>3
<1> QED
  BY <1>3, <1>5, <1>7, <1>8

\* Built, for a sensible query: an atom that compares is the query's.
LEMMA BuiltAtoms ==
  ASSUME query \in Query, NEW j \in DOMAIN Built, NEW k \in DOMAIN Built[j].any,
         Built[j].any[k].op \in {"eq", "in"}
  PROVE  j \in DOMAIN query.where /\ Built[j] = query.where[j]
<1>1. j \in DOMAIN query.where \/ Built[j] = Alive
  BY BuiltIs
<1>2. Built[j] # Alive
  BY DEF Alive
<1> QED
  BY <1>1, <1>2, BuiltIs

LEMMA BuiltJoined ==
  ASSUME query \in Query, Sensible(query)
  PROVE  AndJoined(query.where) /\ AndJoined(Built)
<1>1. AndJoined(query.where)
  BY DEF Sensible, AndJoined
<1>2. ~Alive.or
  BY DEF Alive
<1> QED
  BY <1>1, <1>2, BuiltIs DEF AndJoined

\* The predicate of a lookup is found and cut out.
LEMMA DropLookup ==
  ASSUME TypeInv, Sensible(query), NEW i \in DOMAIN query.where, IsLookup(i), Whole(text)
  PROVE  /\ Drop(text, i) \in Statement
         /\ Drop(text, i).where = Without(Built, i) /\ ~Drop(text, i).broken
         /\ Drop(text, i).order = query.order
<1> DEFINE rest == Without(Built, i)
           b == text.broken \/ (rest # <<>> /\ rest[1].or)
<1>1. query \in Query /\ text \in Statement /\ text.where = Built /\ text.order = query.order
  BY DEF TypeInv, QueryTypeOK, Whole
<1>2. i \in DOMAIN Built /\ Built[i] = query.where[i] /\ Built \in Seq(Clauses)
  BY <1>1, BuiltIs
<1>3. ~Built[i].or /\ Plain(Built[i]) /\ Built[i].any[1].col = "id"
  BY <1>1, <1>2, BuiltJoined DEF IsLookup, AndJoined
<1>4. rest \in Seq(Clauses) /\ \A k \in DOMAIN rest : ~rest[k].or
  <2> DEFINE s == Built
  <2>1. s \in Seq(Clauses) /\ i \in DOMAIN s /\ \A j \in DOMAIN s : ~s[j].or
    BY <1>1, <1>2, BuiltJoined DEF AndJoined
  <2> HIDE DEF s
  <2>2. /\ Without(s, i) \in Seq(Clauses)
        /\ \A k \in DOMAIN Without(s, i) : \E j \in (DOMAIN s) \ {i} : Without(s, i)[k] = s[j]
    BY <2>1, WithoutIs
  <2>3. \A k \in DOMAIN Without(s, i) : ~Without(s, i)[k].or
    BY <2>1, <2>2
  <2> QED
    BY <2>2, <2>3 DEF s
<1>5. Drop(text, i) = [text EXCEPT !.where = rest, !.broken = b]
  BY <1>1, <1>3 DEF Drop
<1>6. b = FALSE
  <2>1. ~text.broken
    BY DEF Whole
  <2>2. rest # <<>> => 1 \in DOMAIN rest
    <3> HIDE DEF rest
    <3> QED
      BY <1>4
  <2> QED
    BY <1>4, <2>1, <2>2
<1> HIDE DEF b, rest
<1>7. Drop(text, i) = [text EXCEPT !.where = rest, !.broken = FALSE]
  BY <1>5, <1>6
<1> QED
  BY <1>1, <1>4, <1>7 DEF Statement, rest

LEMMA ByIDCuts ==
  ASSUME TypeInv, Sensible(query), Whole(text), OptimizeFindByID
  PROVE  Whole(text') \/ Cut(text')
<1>1. query \in Query /\ text.where = Built /\ ~(text.order = "desc")
  BY DEF TypeInv, QueryTypeOK, Whole, Sensible
<1>2. ASSUME NEW p \in Places(text.where), IsP1(text.where, p),
             text' = [Drop(text, p[1]) EXCEPT
                        !.direct = TRUE, !.from = At(text.where, p).args, !.order = "none",
                        !.broken = @ \/ text.order = "desc"]
      PROVE  Cut(text')
  <2> DEFINE i == p[1]
             a == At(text.where, p)
             t == Drop(text, i)
  <2>1. i \in DOMAIN Built /\ p[2] \in DOMAIN Built[i].any /\ a = Built[i].any[p[2]]
    BY <1>1, PlacesAre DEF At
  <2>2. a.op = "eq" /\ (a.col = "id" \/ (a.col = "author_id" /\ a.style = "raw")) /\ LooksLikeID(a)
    BY <1>2 DEF IsP1, LooksLikeID
  <2>3. i \in DOMAIN query.where /\ Built[i] = query.where[i]
    BY <1>1, <2>1, <2>2, BuiltAtoms
  <2>4. a = query.where[i].any[p[2]] /\ p[2] \in DOMAIN query.where[i].any
    BY <2>1, <2>3
  <2> HIDE DEF i, a
  <2>5. a \in Atom /\ (a.col = "author_id" => a.style # "raw")
    BY <1>1, <2>2, <2>3, <2>4, SensibleIs
  <2>6. a.col = "id"
    BY <2>2, <2>5
  <2>7. IsLookup(i) /\ p[2] = 1
    BY <1>1, <2>2, <2>3, <2>4, <2>6, SensibleIs
  <2>8. Len(a.args) = 1
    BY <2>2, <2>5 DEF Atom
  <2>9. t \in Statement /\ t.where = Without(Built, i) /\ ~t.broken
    BY <2>3, <2>7, DropLookup
  <2>10. text' = [t EXCEPT !.direct = TRUE, !.from = a.args, !.order = "none", !.broken = t.broken]
    <3>1. (t.broken \/ text.order = "desc") = t.broken
      BY <1>1, <2>9 DEF Statement
    <3> QED
      BY <1>2, <3>1 DEF a, i
  <2> HIDE DEF t
  <2>11. /\ text'.where = Without(Built, i) /\ text'.from = a.args
         /\ ~text'.broken /\ text'.order = "none"
    BY <2>9, <2>10 DEF Statement
  <2>12. CutAt(text', i)
    BY <2>4, <2>7, <2>8, <2>11 DEF CutAt
  <2> QED
    BY <2>3, <2>12 DEF Cut
<1>3. CASE text' = text
  BY <1>3 DEF Whole
<1> QED
  BY <1>2, <1>3 DEF OptimizeFindByID

\* No lookup by a list is left where the one lookup was cut out.
LEMMA CutHasNoList ==
  ASSUME query \in Query, Sensible(query), NEW i \in DOMAIN query.where, IsLookup(i),
         NEW p \in Places(Without(Built, i))
  PROVE  ~InList(At(Without(Built, i), p))
<1> DEFINE rest == Without(Built, i)
<1>1. SUFFICES ASSUME InList(At(rest, p)) PROVE FALSE
  OBVIOUS
<1>2. i \in DOMAIN Built /\ Built \in Seq(Clauses)
  BY BuiltIs
<1>3. p[1] \in DOMAIN rest /\ p[2] \in DOMAIN rest[p[1]].any /\ rest[p[1]].any[p[2]].op = "in"
  BY <1>1, PlacesAre DEF InList, At
<1>4. \A k \in DOMAIN rest : \E j \in (DOMAIN Built) \ {i} : rest[k] = Built[j]
  BY <1>2, WithoutIs
<1> HIDE DEF rest
<1>5. PICK j \in (DOMAIN Built) \ {i} : rest[p[1]] = Built[j]
  BY <1>3, <1>4
<1>6. p[2] \in DOMAIN Built[j].any /\ Built[j].any[p[2]].op = "in"
  BY <1>3, <1>5
<1>7. j \in DOMAIN query.where /\ Built[j] = query.where[j]
  BY <1>6, BuiltAtoms
<1> QED
  BY <1>5, <1>6, <1>7, LookupIs

\* A lookup by a list is found: it is the first that matches, and its values are ids.
LEMMA ListIsFound ==
  ASSUME query \in Query, Sensible(query), ~NoList
  PROVE  \E p \in Places(Built) :
           /\ InList(At(Built, p)) /\ \A v \in Range(At(Built, p).args) : IsRecordID(v)
           /\ \A q \in Places(Built) : InList(At(Built, q)) => ~Earlier(q, p)
<1>0. PICK i \in DOMAIN query.where : \E k \in DOMAIN query.where[i].any :
        query.where[i].any[k].op = "in"
  BY DEF NoList
<1>1. PICK k \in DOMAIN query.where[i].any : query.where[i].any[k].op = "in"
  BY <1>0
<1> DEFINE a == query.where[i].any[k]
<1>2. a.col = "id" /\ LooksLikeID(a) /\ Range(a.args) \subseteq Mine /\ IsLookup(i) /\ k = 1
  BY <1>1, SensibleIs DEF LooksLikeID
<1>3. /\ i \in DOMAIN Built /\ Built[i] = query.where[i]
      /\ DOMAIN Built = 1..Len(Built) /\ Len(Built) \in Nat
  <2>1. Built \in Seq(Clauses) /\ Len(Built) \in Nat
    BY BuiltIs
  <2>2. \A j \in DOMAIN query.where : j \in DOMAIN Built /\ Built[j] = query.where[j]
    BY BuiltIs
  <2> HIDE DEF a
  <2> QED
    BY <2>1, <2>2
<1> DEFINE p == <<i, 1>>
<1>4. p \in Places(Built) /\ At(Built, p) = a
  BY <1>1, <1>2, <1>3, PlacesAre
<1>5. InList(At(Built, p)) /\ \A v \in Range(At(Built, p).args) : IsRecordID(v)
  BY <1>1, <1>2, <1>4 DEF InList, IsRecordID, AnyId
<1>6. ASSUME NEW q \in Places(Built), InList(At(Built, q))
      PROVE  ~Earlier(q, p)
  <2>1. /\ q[1] \in DOMAIN Built /\ q[2] \in DOMAIN Built[q[1]].any
        /\ Built[q[1]].any[q[2]].op = "in"
    BY <1>6, PlacesAre DEF InList, At
  <2>2. q[1] \in DOMAIN query.where /\ Built[q[1]] = query.where[q[1]]
    BY <2>1, BuiltAtoms
  <2>3. q[1] = i
    BY <1>2, <2>1, <2>2, LookupIs
  <2>4. q[2] = 1
    <3>1. query.where[q[1]].any[q[2]].col = "id" /\ LooksLikeID(query.where[q[1]].any[q[2]])
      BY <2>1, <2>2, SensibleIs DEF LooksLikeID
    <3> QED
      BY <2>1, <2>2, <3>1, SensibleIs
  <2> QED
    BY <1>3, <2>3, <2>4 DEF Earlier
<1> QED
  BY <1>4, <1>5, <1>6

LEMMA ByIDListCuts ==
  ASSUME TypeInv, Sensible(query), Whole(text) \/ Cut(text), OptimizeFindByIDList
  PROVE  (Whole(text') /\ NoList) \/ Cut(text')
<1>1. query \in Query /\ text \in Statement
  BY DEF TypeInv, QueryTypeOK
<1>2. \/ /\ UNCHANGED text
         /\ ~ \E p \in Places(text.where) :
                /\ InList(At(text.where, p))
                /\ \A v \in Range(At(text.where, p).args) : IsRecordID(v)
                /\ \A q \in Places(text.where) : InList(At(text.where, q)) => ~Earlier(q, p)
      \/ \E p \in Places(text.where) :
           /\ InList(At(text.where, p))
           /\ text' = [Drop(text, p[1]) EXCEPT
                        !.direct = TRUE,
                        !.from = IF text.direct THEN @ ELSE At(text.where, p).args]
  BY DEF OptimizeFindByIDList
<1>3. CASE Cut(text)
  <2>1. PICK i \in DOMAIN query.where : CutAt(text, i)
    BY <1>3 DEF Cut
  <2>2. IsLookup(i) /\ text.where = Without(Built, i)
    BY <2>1 DEF CutAt
  <2>3. \A p \in Places(text.where) : ~InList(At(text.where, p))
    BY <1>1, <2>2, CutHasNoList
  <2>4. text' = text
    BY <1>2, <2>3
  <2> QED
    BY <1>3, <2>4
<1>4. CASE Whole(text)
  <2>1. text.where = Built /\ text.direct = FALSE /\ text.order = query.order
    BY <1>1, <1>4 DEF Whole, Statement
  <2>2. ASSUME UNCHANGED text,
               ~ \E p \in Places(text.where) :
                   /\ InList(At(text.where, p))
                   /\ \A v \in Range(At(text.where, p).args) : IsRecordID(v)
                   /\ \A q \in Places(text.where) : InList(At(text.where, q)) => ~Earlier(q, p)
        PROVE  Whole(text') /\ NoList
    <3>1. NoList
      BY <1>1, <2>1, <2>2, ListIsFound
    <3> QED
      BY <1>4, <2>2, <3>1
  <2>3. ASSUME NEW p \in Places(text.where), InList(At(text.where, p)),
               text' = [Drop(text, p[1]) EXCEPT
                          !.direct = TRUE,
                          !.from = IF text.direct THEN @ ELSE At(text.where, p).args]
        PROVE  Cut(text')
    <3> DEFINE i == p[1]
               a == At(text.where, p)
               t == Drop(text, i)
    <3>1. i \in DOMAIN Built /\ p[2] \in DOMAIN Built[i].any /\ a = Built[i].any[p[2]]
      BY <2>1, PlacesAre DEF At
    <3>2. a.op = "in"
      BY <2>3 DEF InList
    <3>3. i \in DOMAIN query.where /\ Built[i] = query.where[i]
      BY <1>1, <3>1, <3>2, BuiltAtoms
    <3>4. a = query.where[i].any[p[2]] /\ p[2] \in DOMAIN query.where[i].any
      BY <3>1, <3>3
    <3>5. text' = [t EXCEPT !.direct = TRUE, !.from = IF text.direct THEN @ ELSE a.args]
      BY <2>3
    <3> HIDE DEF i, a
    <3>6. a.col = "id" /\ LooksLikeID(a)
      BY <1>1, <3>2, <3>3, <3>4, SensibleIs DEF LooksLikeID
    <3>7. IsLookup(i) /\ p[2] = 1
      BY <1>1, <3>3, <3>4, <3>6, SensibleIs
    <3>8. t \in Statement /\ t.where = Without(Built, i) /\ ~t.broken /\ t.order = query.order
      BY <1>4, <3>3, <3>7, DropLookup
    <3> HIDE DEF t
    <3>9. /\ text'.where = Without(Built, i) /\ text'.from = a.args
          /\ ~text'.broken /\ text'.order = query.order
      BY <2>1, <3>5, <3>8 DEF Statement
    <3>10. CutAt(text', i)
      BY <3>4, <3>7, <3>9 DEF CutAt
    <3> QED
      BY <3>3, <3>10 DEF Cut
  <2> QED
    BY <1>2, <2>2, <2>3
<1> QED
  BY <1>3, <1>4

LEMMA CutsStep ==
  ASSUME TypeInv, CutsOnce, [QueryNext]_queryVars
  PROVE  CutsOnce'
<1>1. query' = query
  BY DEF QueryNext, queryVars, Build, OptimizeFindByID, OptimizeFindByIDList, RewriteSQL, Execute
<1>2. SUFFICES ASSUME Sensible(query)
               PROVE  /\ pc' = "byID" => Whole(text')
                      /\ pc' = "byIDList" => Whole(text') \/ Cut(text')
                      /\ pc' \in {"rewrite", "execute"} => (Whole(text') /\ NoList) \/ Cut(text')
  <2>1. Whole(text)' <=> Whole(text')
    BY <1>1 DEF Whole, Built
  <2>2. Cut(text)' <=> Cut(text')
    BY <1>1 DEF Cut, CutAt, IsLookup, Built
  <2>3. NoList' <=> NoList
    BY <1>1 DEF NoList
  <2>4. Sensible(query)' <=> Sensible(query)
    BY <1>1
  <2> QED
    BY <2>1, <2>2, <2>3, <2>4 DEF CutsOnce
<1>3. CASE UNCHANGED queryVars
  <2>1. text' = text /\ pc' = pc
    BY <1>3 DEF queryVars
  <2> QED
    BY <1>2, <2>1 DEF CutsOnce
<1>4. CASE Build
  <2>1. text' = [direct |-> FALSE, from |-> InOrder(Mine), where |-> Built, order |-> query.order,
                 broken |-> FALSE]
    BY <1>4 DEF Build, Built
  <2>2. Whole(text')
    BY <2>1 DEF Whole
  <2> QED
    BY <1>4, <2>2 DEF Build
<1>5. CASE OptimizeFindByID
  <2>1. pc = "byID" /\ pc' = "byIDList"
    BY <1>5 DEF OptimizeFindByID
  <2> QED
    BY <1>2, <1>5, <2>1, ByIDCuts DEF CutsOnce
<1>6. CASE OptimizeFindByIDList
  <2>1. pc = "byIDList" /\ pc' = "rewrite"
    BY <1>6 DEF OptimizeFindByIDList
  <2> QED
    BY <1>2, <1>6, <2>1, ByIDListCuts DEF CutsOnce
<1>7. CASE RewriteSQL
  <2>1. pc = "rewrite" /\ pc' = "execute"
    BY <1>7 DEF RewriteSQL
  <2>2. text \in Statement /\ ~(query.count /\ (query.limit # 0 \/ query.start # 0))
    BY <1>2 DEF TypeInv, Sensible
  <2>3. text' = [text EXCEPT !.broken = text.broken]
    BY <1>7, <2>2 DEF RewriteSQL, Statement
  <2>4. text' = text
    BY <2>2, <2>3 DEF Statement
  <2> QED
    BY <1>2, <2>1, <2>4 DEF CutsOnce
<1>8. CASE Execute
  BY <1>8 DEF Execute
<1> QED
  BY <1>3, <1>4, <1>5, <1>6, <1>7, <1>8 DEF QueryNext

\* A sequence of numbers without duplicates is as long as the set of them, and is the set
\* in order if there is one at most.
LEMMA AsLongAsItsSet ==
  ASSUME NEW X \in SUBSET Nat, NEW s \in Seq(X), IsInjective(s)
  PROVE  /\ Range(s) \in SUBSET Nat /\ IsFiniteSet(Range(s))
         /\ InOrder(Range(s)) \in Seq(Range(s)) /\ Len(InOrder(Range(s))) = Len(s)
         /\ Len(s) <= 1 => s = InOrder(Range(s))
<1> DEFINE L == Len(s)
           S == Range(s)
<1>1. L \in Nat /\ DOMAIN s = 1..L /\ \A i \in 1..L : s[i] \in X /\ s[i] \in Nat
  <2>1. L \in Nat /\ DOMAIN s = 1..L /\ \A i \in 1..L : s[i] \in X
    OBVIOUS
  <2> HIDE DEF L
  <2> QED
    BY <2>1
<1>2. S \in SUBSET Nat
  BY <1>1 DEF Range
<1> HIDE DEF L
<1>3. IsFiniteSet(1..L) /\ Cardinality(1..L) = L
  BY <1>1, FS_Interval
<1>4. s \in [1..L -> S]
  <2>1. s = [i \in 1..L |-> s[i]]
    BY <1>1
  <2> QED
    BY <1>1, <2>1 DEF Range
<1>5. IsFiniteSet(S) /\ Cardinality(S) = L
  <2>1. \A a, b \in DOMAIN s : s[a] = s[b] => a = b
    BY DEF IsInjective
  <2>2. \A x \in S : \E i \in 1..L : s[i] = x
    BY <1>1 DEF Range
  <2>3. s \in Injection(1..L, S) /\ s \in Surjection(1..L, S)
    BY <1>4, <2>1, <2>2 DEF Injection, Surjection, IsInjective
  <2>4. ExistsBijection(1..L, S)
    BY <2>3 DEF ExistsBijection, Bijection
  <2> QED
    BY <1>3, <2>4, FS_Bijection
<1>6. InOrder(S) \in Seq(S) /\ Len(InOrder(S)) = L
  BY <1>2, <1>5, InOrderIs
<1>7. ASSUME L <= 1
      PROVE  s = InOrder(S)
  <2>1. \A m, n \in 1..L : ~(m < n)
    BY <1>1, <1>7
  <2> HIDE DEF S
  <2>2. s = Ranked(S, Less(S))
    BY <1>2, <1>4, <1>5, <2>1, OrderOfNumbers, RankedUnique
  <2> QED
    BY <2>2 DEF InOrder
<1> QED
  BY <1>2, <1>5, <1>6, <1>7 DEF L

\* What the application is to get, and nothing else.
Answers(s) ==
  /\ s # NoAnswer /\ Range(s) \subseteq Intended /\ IsInjective(s)
  /\ Len(s) = Len(Page(InOrder(Intended), query.limit, query.start))
  /\ query.order = "id" => s = Page(InOrder(Intended), query.limit, query.start)

\* A statement that finds the intended records, each once, answers them.
LEMMA AnswersWhatItFinds ==
  ASSUME TypeInv, Sensible(query), ~text.broken, IsInjective(text.from),
         Range(text.from) \cap Found(text.where) = Intended,
         text.order = query.order \/ (text.order = "none" /\ Len(text.from) = 1)
  PROVE  Answers(Response(text))
<1> DEFINE kept == Kept(text.from, Found(text.where))
           put == Ordered(kept, text.order)
           page == Page(InOrder(Intended), query.limit, query.start)
<1>1. query \in Query /\ text \in Statement /\ text.from \in Seq(AnyId)
  BY DEF TypeInv, QueryTypeOK, Statement
<1>2. kept \in Seq(AnyId) /\ Range(kept) = Intended /\ IsInjective(kept)
  BY <1>1, KeptIs
<1>3. /\ AnyId \in SUBSET Nat /\ query.limit \in Nat /\ query.start \in Nat
      /\ query.order \in {"none", "id"} /\ text.order \in {"none", "id"}
  <2>1. query.order \in {"none", "id"}
    BY <1>1 DEF Query, Sensible
  <2> QED
    BY <1>1, <2>1, TableIs DEF Query
<1> HIDE DEF kept
<1>4. /\ Intended \in SUBSET Nat /\ IsFiniteSet(Intended)
      /\ InOrder(Intended) \in Seq(Intended) /\ Len(InOrder(Intended)) = Len(kept)
      /\ Len(kept) <= 1 => kept = InOrder(Intended)
  BY <1>2, <1>3, AsLongAsItsSet
<1>5. Sorted(kept) = InOrder(Intended)
  BY <1>2, <1>3, SortedIs
<1>6. /\ InOrder(Intended) \in Seq(AnyId) /\ Range(InOrder(Intended)) = Intended
      /\ IsInjective(InOrder(Intended))
  <2>1. Sorted(kept) \in Seq(AnyId)
    BY <1>2, <1>3, SortedIs
  <2> QED
    BY <1>4, <1>5, <2>1, InOrderIs
<1>7. put = kept \/ put = InOrder(Intended)
  BY <1>3, <1>5 DEF Ordered
<1>8. query.order = "id" => put = InOrder(Intended)
  <2>1. CASE text.order = "id"
    BY <1>5, <2>1 DEF Ordered
  <2>2. ASSUME text.order = "none", Len(text.from) = 1
        PROVE  put = InOrder(Intended)
    <3>1. put = kept
      BY <2>2 DEF Ordered
    <3>2. Len(kept) <= 1
      <4>1. \A x, y \in Range(text.from) : x = y
        <5>1. DOMAIN text.from = {1}
          BY <1>1, <2>2
        <5> QED
          BY <5>1 DEF Range
      <4>2. \A x, y \in Range(kept) : x = y
        BY <1>2, <4>1
      <4>3. \A m, n \in DOMAIN kept : m = n
        <5>1. \A m \in DOMAIN kept : kept[m] \in Range(kept)
          BY DEF Range
        <5>2. \A m, n \in DOMAIN kept : kept[m] = kept[n]
          BY <4>2, <5>1
        <5> QED
          BY <1>2, <5>2 DEF IsInjective
      <4>4. DOMAIN kept = 1..Len(kept) /\ Len(kept) \in Nat
        BY <1>2
      <4>5. Len(kept) >= 2 => 1 \in DOMAIN kept /\ 2 \in DOMAIN kept
        BY <4>4
      <4> QED
        BY <4>3, <4>4, <4>5
    <3> QED
      BY <1>4, <3>1, <3>2
  <2> QED
    BY <1>3, <2>1, <2>2
<1>9. /\ put \in Seq(AnyId) /\ Range(put) = Intended /\ IsInjective(put)
      /\ Len(put) = Len(InOrder(Intended))
  BY <1>2, <1>4, <1>6, <1>7
<1>10. Response(text) = Page(put, query.limit, query.start)
  BY DEF Response, kept
<1> HIDE DEF put
<1>11. /\ Response(text) \in Seq(AnyId) /\ Range(Response(text)) \subseteq Intended
       /\ IsInjective(Response(text)) /\ Len(page) = Len(Response(text))
  <2> DEFINE order == InOrder(Intended)
             limit == query.limit
             start == query.start
  <2>1. /\ put \in Seq(AnyId) /\ order \in Seq(AnyId) /\ Len(order) = Len(put)
        /\ limit \in Nat /\ start \in Nat
    BY <1>3, <1>6, <1>9
  <2> HIDE DEF order, limit, start
  <2>2. /\ Page(put, limit, start) \in Seq(AnyId)
        /\ Range(Page(put, limit, start)) \subseteq Range(put)
        /\ IsInjective(put) => IsInjective(Page(put, limit, start))
        /\ \A Y : \A other \in Seq(Y) : Len(other) = Len(put) =>
             Len(Page(other, limit, start)) = Len(Page(put, limit, start))
    BY <2>1, PageIs
  <2>3. Len(Page(order, limit, start)) = Len(Page(put, limit, start))
    BY <2>1, <2>2
  <2> QED
    BY <1>9, <1>10, <2>2, <2>3 DEF order, limit, start
<1>12. query.order = "id" => Response(text) = page
  BY <1>8, <1>10
<1>13. Response(text) # NoAnswer
  BY <1>11, QueryRewriteAssumption
<1> QED
  BY <1>11, <1>12, <1>13 DEF Answers

\* Without a lookup by a list the server takes a condition as it is meant.
LEMMA SameMeaning ==
  ASSUME NEW c, \A k \in DOMAIN c.any : c.any[k].op # "in", NEW r
  PROVE  Holds(c, r, Meant) <=> Holds(c, r, Server)
  BY DEF Holds, Meant

LEMMA IntendedIs ==
  ASSUME query \in Query, Sensible(query)
  PROVE  \A r : r \in Intended <=>
           /\ r \in Mine /\ db[r] # NoRow
           /\ \A i \in DOMAIN query.where : Holds(query.where[i], r, Meant)
           /\ query.soft => ~db[r].deleted
<1>1. query.where \in Seq(Clauses)
  <2> DEFINE n == Len(query.where)
  <2>1. query.where \in [1..n -> Clauses] /\ n \in Nat
    BY BuiltIs DEF Clauses
  <2> HIDE DEF n
  <2> QED
    BY <2>1
<1>2. \A i \in DOMAIN query.where : ~query.where[i].or
  BY BuiltJoined DEF AndJoined
<1>3. ASSUME NEW r
      PROVE  Satisfies(r, query.where, Meant) <=>
               \A i \in DOMAIN query.where : Holds(query.where[i], r, Meant)
  BY <1>1, <1>2, AndOnly
<1> QED
  BY <1>3 DEF Intended

\* What the server finds by the conditions that were built, and by those left when
\* condition i is cut out.
LEMMA FoundByBuilt ==
  ASSUME query \in Query, Sensible(query)
  PROVE  \A r : r \in Found(Built) <=>
           /\ r \in AnyId /\ db[r] # NoRow
           /\ \A j \in DOMAIN query.where : Holds(query.where[j], r, Server)
           /\ query.soft => ~db[r].deleted
<1>1. SUFFICES ASSUME NEW r
               PROVE  Satisfies(r, Built, Server) <=>
                        /\ \A j \in DOMAIN query.where : Holds(query.where[j], r, Server)
                        /\ query.soft => ~db[r].deleted
  BY DEF Found
<1>2. Satisfies(r, Built, Server) <=> \A i \in DOMAIN Built : Holds(Built[i], r, Server)
  BY AndOnly, BuiltIs, BuiltJoined DEF AndJoined
<1>3. Holds(Alive, r, Server) <=> ~db[r].deleted
  BY AliveIs
<1> QED
  BY <1>2, <1>3, BuiltIs

LEMMA FoundWithout ==
  ASSUME query \in Query, Sensible(query), NEW i \in DOMAIN query.where
  PROVE  \A r : r \in Found(Without(Built, i)) <=>
           /\ r \in AnyId /\ db[r] # NoRow
           /\ \A j \in (DOMAIN query.where) \ {i} : Holds(query.where[j], r, Server)
           /\ query.soft => ~db[r].deleted
<1> DEFINE rest == Without(Built, i)
<1>1. SUFFICES ASSUME NEW r
               PROVE  Satisfies(r, rest, Server) <=>
                        /\ \A j \in (DOMAIN query.where) \ {i} : Holds(query.where[j], r, Server)
                        /\ query.soft => ~db[r].deleted
  BY DEF Found
<1>2. i \in DOMAIN Built /\ Built \in Seq(Clauses)
  BY BuiltIs
<1>3. /\ rest \in Seq(Clauses)
      /\ \A j \in (DOMAIN Built) \ {i} : \E k \in DOMAIN rest : rest[k] = Built[j]
      /\ \A k \in DOMAIN rest : \E j \in (DOMAIN Built) \ {i} : rest[k] = Built[j]
  BY <1>2, WithoutIs
<1> HIDE DEF rest
<1>4. \A k \in DOMAIN rest : ~rest[k].or
  BY <1>3, BuiltJoined DEF AndJoined
<1>5. Satisfies(r, rest, Server) <=> \A k \in DOMAIN rest : Holds(rest[k], r, Server)
  BY <1>3, <1>4, AndOnly
<1>6. (\A k \in DOMAIN rest : Holds(rest[k], r, Server)) <=>
        \A j \in (DOMAIN Built) \ {i} : Holds(Built[j], r, Server)
  BY <1>3
<1>7. Holds(Alive, r, Server) <=> ~db[r].deleted
  BY AliveIs
<1>8. (\A j \in (DOMAIN Built) \ {i} : Holds(Built[j], r, Server)) <=>
        /\ \A j \in (DOMAIN query.where) \ {i} : Holds(query.where[j], r, Server)
        /\ query.soft => ~db[r].deleted
  BY <1>7, BuiltIs
<1> QED
  BY <1>5, <1>6, <1>8

LEMMA WholeAnswers ==
  ASSUME TypeInv, Sensible(query), Whole(text), NoList
  PROVE  Answers(Response(text))
<1>1. query \in Query
  BY DEF TypeInv, QueryTypeOK
<1>2. /\ text.where = Built /\ text.from = InOrder(Mine) /\ ~text.broken
      /\ text.order = query.order
  BY DEF Whole
<1>3. \A r : \A i \in DOMAIN query.where :
        Holds(query.where[i], r, Meant) <=> Holds(query.where[i], r, Server)
  BY SameMeaning DEF NoList
<1>4. Range(text.from) \cap Found(text.where) = Intended
  <2>1. \A r : r \in Intended <=> r \in Mine /\ r \in Found(Built)
    BY <1>1, <1>3, IntendedIs, FoundByBuilt DEF AnyId
  <2> QED
    BY <1>2, <2>1, TableIs
<1> QED
  BY <1>2, <1>4, TableIs, AnswersWhatItFinds

LEMMA CutAnswers ==
  ASSUME TypeInv, Sensible(query), NEW i \in DOMAIN query.where, CutAt(text, i)
  PROVE  Answers(Response(text))
<1> DEFINE a == query.where[i].any[1]
<1>1. query \in Query
  BY DEF TypeInv, QueryTypeOK
<1>2. /\ IsLookup(i) /\ text.where = Without(Built, i) /\ text.from = a.args /\ ~text.broken
      /\ text.order = query.order \/ (text.order = "none" /\ Len(text.from) = 1)
  BY DEF CutAt
<1>3. /\ Range(a.args) \subseteq Mine /\ IsInjective(a.args)
      /\ \A j \in (DOMAIN query.where) \ {i} : \A l \in DOMAIN query.where[j].any :
           query.where[j].any[l].op # "in"
      /\ \A r : Holds(query.where[i], r, Meant) <=> r \in Range(a.args)
  BY <1>1, <1>2, LookupIs
<1> HIDE DEF a
<1>4. \A r : \A j \in (DOMAIN query.where) \ {i} :
        Holds(query.where[j], r, Meant) <=> Holds(query.where[j], r, Server)
  BY <1>3, SameMeaning
<1>5. Range(text.from) \cap Found(text.where) = Intended
  <2>1. \A r : r \in Intended <=> r \in Range(a.args) /\ r \in Found(Without(Built, i))
    BY <1>1, <1>3, <1>4, IntendedIs, FoundWithout DEF AnyId
  <2> QED
    BY <1>2, <2>1
<1> QED
  BY <1>2, <1>3, <1>5, AnswersWhatItFinds

LEMMA FindStep ==
  ASSUME TypeInv, CutsOnce, FindMeansItsWhere, [QueryNext]_queryVars
  PROVE  FindMeansItsWhere'
<1>1. ASSUME query' = query, db' = db
      PROVE  FindMeansItsWhere' <=> (pc' = "done" /\ Sensible(query) => Answers(rows'))
  <2>1. Intended' = Intended
    BY <1>1 DEF Intended, Satisfies, Holds, Meant, Server
  <2>2. Sensible(query)' <=> Sensible(query)
    BY <1>1
  <2> QED
    BY <1>1, <2>1, <2>2 DEF FindMeansItsWhere, Answers
<1>2. FindMeansItsWhere <=> (pc = "done" /\ Sensible(query) => Answers(rows))
  BY DEF FindMeansItsWhere, Answers
<1>3. CASE UNCHANGED queryVars
  <2>1. query' = query /\ db' = db /\ rows' = rows /\ pc' = pc
    BY <1>3 DEF queryVars
  <2> QED
    BY <1>1, <1>2, <2>1
<1>4. CASE Execute
  <2>1. query' = query /\ db' = db /\ rows' = Response(text) /\ pc = "execute"
    BY <1>4 DEF Execute
  <2>2. ASSUME Sensible(query)
        PROVE  Answers(Response(text))
    BY <2>1, <2>2, WholeAnswers, CutAnswers DEF CutsOnce, Cut
  <2> QED
    BY <1>1, <2>1, <2>2
<1>5. CASE Build \/ OptimizeFindByID \/ OptimizeFindByIDList \/ RewriteSQL
  <2>1. query' = query /\ db' = db /\ pc' # "done"
    BY <1>5 DEF Build, OptimizeFindByID, OptimizeFindByIDList, RewriteSQL
  <2> QED
    BY <1>1, <2>1
<1> QED
  BY <1>3, <1>4, <1>5 DEF QueryNext

\* A sensible lookup, for all queries, ids and stores: however the rewritings cut its
\* text, it returns the records that its conditions describe, each once and in the order
\* asked for, or the page of them (callback_query.go:21-26, executor.go:161-221).
THEOREM FindsWhatItMeans == QuerySpec => []FindMeansItsWhere
<1>1. QueryInit => CutsOnce /\ FindMeansItsWhere
  BY DEF QueryInit, CutsOnce, FindMeansItsWhere
<1>2. CutsOnce /\ FindMeansItsWhere /\ TypeInv /\ [QueryNext]_queryVars
        => CutsOnce' /\ FindMeansItsWhere'
  BY CutsStep, FindStep
<1> QED
  BY <1>1, <1>2, TypeAlways, PTL DEF QuerySpec
=============================================================================
