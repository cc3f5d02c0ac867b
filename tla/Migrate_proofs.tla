-------------------------- MODULE Migrate_proofs ---------------------------
(***************************************************************************)
(* Theorems about Migrate for any number of processes, builds, tables and  *)
(* fields: what a process can rely on once AutoMigrate has returned nil.   *)
(***************************************************************************)
EXTENDS Migrate, TLAPS

\* Nothing is defined on a table that is not there, tables stay, and a field that
\* all builds define alike has no other type.
ServerInv ==
  /\ \A p \in Process : \A t \in existing[p] : kind[t] # NoTable
  /\ \A t \in Table, f \in Field : kind[t] = NoTable => fields[t][f] = NoField
  /\ \A p \in Process, t \in Table, f \in Field :
       Shared(t, f) => fields[t][f] \in {NoField, Model[p][t][f]}

\* What the build of p needs of a table, when other builds may migrate as well.
Ready(p, t) ==
  /\ isEdge(t) => t \in registered[p]
  /\ kind[t] # NoTable
  /\ \A f \in Field : Shared(t, f) => fields[t][f] = Model[p][t][f]

\* And what it gets, when none does.
Exact(p, t) ==
  /\ \A f \in FieldsOf(p, t) : fields[t][f] = Model[p][t][f]
  /\ Indexed[p][t] \subseteq indexes[t]
  /\ fails = 0 => \A f \in Field \ FieldsOf(p, t) : fields[t][f] = NoField

\* The table a process is at.
ReadyAt(p) == pc[p] # "table" =>
  LET t == table(p) IN
  /\ isEdge(t) => t \in registered[p]
  /\ kind[t] # NoTable
  /\ \A f \in Field : /\ Shared(t, f)
                      /\ pc[p] = "fields" => f \notin todo[p]
                      => fields[t][f] = Model[p][t][f]
  /\ pc[p] = "fields" => todo[p] \subseteq FieldsOf(p, t)
  /\ pc[p] = "remove" => todo[p] \cap FieldsOf(p, t) = {}

ExactAt(p) == pc[p] # "table" =>
  LET t == table(p) IN
  /\ \A f \in FieldsOf(p, t) : \/ fields[t][f] = Model[p][t][f]
                               \/ /\ pc[p] = "fields" /\ f \in todo[p]
                                  /\ isNewTable(p) => fields[t][f] = NoField
  /\ pc[p] = "indexes" => Indexed[p][t] \ todo[p] \subseteq indexes[t]
  /\ pc[p] = "remove" => Indexed[p][t] \subseteq indexes[t]
  /\ fails = 0 => \A f \in Field \ FieldsOf(p, t) :
       fields[t][f] = NoField \/ (~isNewTable(p) /\ (pc[p] = "remove" => f \in todo[p]))

ReadyInv(p) ==
  /\ pc[p] # "idle" => ReadyAt(p) /\ \A n \in 1..at[p]-1 : Ready(p, Dst[n])
  /\ result[p] = "ok" => pc[p] = "idle" /\ \A n \in 1..Len(Dst) : Ready(p, Dst[n])

ExactInv(p) == alone[p] =>
  /\ \A q \in Process : Model[q] = Model[p] \/ pc[q] = "idle"
  /\ pc[p] # "idle" => ExactAt(p) /\ \A n \in 1..at[p]-1 : Exact(p, Dst[n])
  /\ result[p] = "ok" => \A n \in 1..Len(Dst) : Exact(p, Dst[n])

Inv == /\ TypeOK /\ ServerInv
       /\ \A p \in Process : ReadyInv(p) /\ ExactInv(p)

-----------------------------------------------------------------------------
(***************************************************************************)
(* What any step does to the server, and what it leaves to the processes   *)
(* that do not take it.                                                    *)
(***************************************************************************)
Effect ==
  /\ fails' = 0 => fails = 0
  /\ \A t \in Table : kind[t] # NoTable => kind'[t] # NoTable
  /\ \A t \in Table : indexes[t] \subseteq indexes'[t]
  /\ \A t \in Table, f \in Field :
       \/ fields'[t][f] = fields[t][f]
       \/ \E q \in Process : /\ pc[q] # "idle" /\ f \in FieldsOf(q, t) /\ kind[t] # NoTable
                             /\ fields'[t][f] = Model[q][t][f]
       \/ \E q \in Process : /\ pc[q] # "idle" /\ f \notin FieldsOf(q, t)
                             /\ fields'[t][f] = NoField

Same(p) ==
  /\ pc'[p] = pc[p] /\ at'[p] = at[p] /\ todo'[p] = todo[p] /\ existing'[p] = existing[p]
  /\ result'[p] = result[p] /\ registered'[p] = registered[p]

Mates(p) == \A q \in Process : Model[q] = Model[p] \/ pc[q] = "idle"

LEMMA SharedFieldsOf ==
  ASSUME NEW p \in Process, NEW t \in Table, NEW f \in Field
  PROVE  /\ Shared(t, f) => f \in FieldsOf(p, t)
         /\ \A q \in Process : Shared(t, f) => Model[q][t][f] = Model[p][t][f]
         /\ f \in FieldsOf(p, t) <=> Model[p][t][f] # NoField
         /\ \A q \in Process : Model[q] = Model[p] => FieldsOf(q, t) = FieldsOf(p, t)
  BY DEF Shared, FieldsOf

LEMMA DstTable == \A n \in 1..Len(Dst) : Dst[n] \in Table
  BY MigrateAssumption

LEMMA TableAt ==
  ASSUME TypeOK, NEW p \in Process
  PROVE  at[p] \in 1..Len(Dst) /\ table(p) \in Table
  BY DstTable DEF TypeOK, table

LEMMA ServerKeeps ==
  ASSUME TypeOK, ServerInv, Effect,
         \A p \in Process : \A t \in existing'[p] : t \in existing[p] \/ kind[t] # NoTable,
         TypeOK'
  PROVE  ServerInv'
<1>1. \A p \in Process : \A t \in existing'[p] : kind'[t] # NoTable
  BY DEF ServerInv, Effect, TypeOK
<1>2. \A t \in Table, f \in Field : kind'[t] = NoTable => fields'[t][f] = NoField
  BY DEF ServerInv, Effect
<1>3. ASSUME NEW p \in Process, NEW t \in Table, NEW f \in Field, Shared(t, f)
      PROVE  fields'[t][f] \in {NoField, Model[p][t][f]}
  <2>1. fields[t][f] \in {NoField, Model[p][t][f]}
    BY <1>3 DEF ServerInv
  <2> QED
    BY <1>3, <2>1, SharedFieldsOf DEF Effect
<1> QED
  BY <1>1, <1>2, <1>3 DEF ServerInv, Shared

LEMMA KeepsReady ==
  ASSUME Effect, NEW p \in Process, NEW t \in Table, registered[p] \subseteq registered'[p],
         Ready(p, t)
  PROVE  Ready(p, t)'
<1>1. ASSUME NEW f \in Field, Shared(t, f)
      PROVE  fields'[t][f] = Model[p][t][f]
  BY <1>1, SharedFieldsOf DEF Effect, Ready
<1>2. kind'[t] # NoTable
  BY DEF Effect, Ready
<1> QED
  BY <1>1, <1>2 DEF Ready, isEdge, Shared

LEMMA KeepsExact ==
  ASSUME Effect, NEW p \in Process, NEW t \in Table, Mates(p), Exact(p, t)
  PROVE  Exact(p, t)'
<1>1. ASSUME NEW f \in FieldsOf(p, t)
      PROVE  fields'[t][f] = Model[p][t][f]
  BY SharedFieldsOf DEF Effect, Exact, Mates, FieldsOf
<1>2. Indexed[p][t] \subseteq indexes'[t]
  BY DEF Effect, Exact
<1>3. ASSUME fails' = 0, NEW f \in Field \ FieldsOf(p, t)
      PROVE  fields'[t][f] = NoField
  BY <1>3, SharedFieldsOf DEF Effect, Exact, Mates
<1> QED
  BY <1>1, <1>2, <1>3 DEF Exact, FieldsOf

LEMMA OthersKeep ==
  ASSUME Inv, Effect, NEW p \in Process, Same(p),
         alone'[p] => alone[p] /\ Mates(p)'
  PROVE  ReadyInv(p)' /\ ExactInv(p)'
<1> USE DEF Inv
<1> DEFINE t == table(p)
<1>1. t \in Table /\ at[p] \in 1..Len(Dst)
  BY TableAt
<1>2. \A n \in 1..Len(Dst) : Dst[n] \in Table /\ (Ready(p, Dst[n]) => Ready(p, Dst[n])')
  BY DstTable, KeepsReady DEF Same
<1>3. table(p)' = t /\ isNewTable(p)' = isNewTable(p)
  BY DEF Same, table, isNewTable
<1>4. ReadyInv(p)'
  <2>1. ASSUME pc[p] # "idle" PROVE ReadyAt(p)'
    <3>1. ReadyAt(p)
      BY <2>1 DEF ReadyInv
    <3>2. ASSUME NEW f \in Field, Shared(t, f), fields[t][f] = Model[p][t][f]
          PROVE  fields'[t][f] = Model[p][t][f]
      BY <1>1, <3>2, SharedFieldsOf DEF Effect
    <3>3. kind[t] # NoTable => kind'[t] # NoTable
      BY <1>1 DEF Effect
    <3> QED
      BY <1>3, <3>1, <3>2, <3>3 DEF ReadyAt, Same, isEdge, Shared, FieldsOf
  <2> QED
    BY <1>1, <1>2, <2>1 DEF ReadyInv, Same
<1>5. ASSUME alone'[p] PROVE ExactInv(p)'
  <2>1. alone[p] /\ Mates(p) /\ Mates(p)'
    BY <1>5 DEF ExactInv, Mates
  <2>2. \A n \in 1..Len(Dst) : Exact(p, Dst[n]) => Exact(p, Dst[n])'
    BY <1>2, <2>1, KeepsExact
  <2>3. ASSUME pc[p] # "idle" PROVE ExactAt(p)'
    <3>1. ExactAt(p)
      BY <2>1, <2>3 DEF ExactInv
    <3>2. \A f \in FieldsOf(p, t) : fields'[t][f] \in {fields[t][f], Model[p][t][f]}
      BY <1>1, <2>1, SharedFieldsOf DEF Effect, Mates, FieldsOf
    <3>3. \A f \in Field \ FieldsOf(p, t) : fields'[t][f] \in {fields[t][f], NoField}
      BY <1>1, <2>1, SharedFieldsOf DEF Effect, Mates
    <3>4. indexes[t] \subseteq indexes'[t] /\ (fails' = 0 => fails = 0)
      BY <1>1 DEF Effect
    <3>5. pc'[p] = pc[p] /\ todo'[p] = todo[p]
      BY DEF Same
    <3> QED
      BY <1>3, <3>1, <3>2, <3>3, <3>4, <3>5 DEF ExactAt, FieldsOf
  <2> QED
    BY <1>1, <2>1, <2>2, <2>3 DEF ExactInv, Mates, Same
<1> QED
  BY <1>4, <1>5 DEF ExactInv

-----------------------------------------------------------------------------
(***************************************************************************)
(* The three kinds of steps of a running AutoMigrate: it stays at its      *)
(* table, goes on to the next, or returns with an error.                   *)
(***************************************************************************)
Step(p) == /\ Effect /\ TypeOK'
           /\ existing' = existing /\ alone' = alone
           /\ pc[p] = "idle" => pc'[p] = "idle"
           /\ \A q \in Process \ {p} : Same(q)

LEMMA StepKeepsMates ==
  ASSUME NEW p \in Process, Step(p), NEW q \in Process, Mates(q)
  PROVE  Mates(q)'
  BY DEF Step, Same, Mates

LEMMA StepInv ==
  ASSUME Inv, NEW p \in Process, Step(p), ReadyInv(p)', ExactInv(p)'
  PROVE  Inv'
<1> USE DEF Inv
<1>1. ServerInv'
  BY ServerKeeps DEF Step
<1>2. ASSUME NEW q \in Process \ {p}
      PROVE  ReadyInv(q)' /\ ExactInv(q)'
  <2>1. alone'[q] => alone[q] /\ Mates(q)'
    BY StepKeepsMates DEF Step, ExactInv, Mates
  <2> QED
    BY <2>1, OthersKeep DEF Step
<1> QED
  BY <1>1, <1>2 DEF Step

LEMMA StayStep ==
  ASSUME Inv, NEW p \in Process, Step(p),
         pc[p] # "idle", pc'[p] # "idle",
         at'[p] = at[p], result'[p] = result[p], registered[p] \subseteq registered'[p],
         ReadyAt(p)', alone[p] /\ Mates(p) => ExactAt(p)'
  PROVE  Inv'
<1> USE DEF Inv
<1>1. \A n \in 1..at[p]-1 : n \in 1..Len(Dst) /\ Dst[n] \in Table
  BY TableAt, DstTable, MigrateAssumption
<1>2. ReadyInv(p)'
  <2>1. \A n \in 1..at[p]-1 : Ready(p, Dst[n])'
    BY <1>1, KeepsReady DEF Step, ReadyInv
  <2> QED
    BY <2>1 DEF ReadyInv
<1>3. ExactInv(p)'
  <2>1. SUFFICES ASSUME alone[p] PROVE ExactInv(p)'
    BY DEF Step, ExactInv
  <2>2. Mates(p) /\ Mates(p)'
    BY <2>1, StepKeepsMates DEF ExactInv, Mates
  <2>3. \A n \in 1..at[p]-1 : Exact(p, Dst[n])'
    BY <1>1, <2>1, <2>2, KeepsExact DEF Step, ExactInv
  <2>4. result'[p] # "ok"
    BY DEF ReadyInv
  <2> QED
    BY <2>1, <2>2, <2>3, <2>4 DEF ExactInv, Mates
<1> QED
  BY <1>2, <1>3, StepInv

LEMMA LeaveStep ==
  ASSUME Inv, NEW p \in Process, Step(p), pc'[p] = "idle", result'[p] # "ok"
  PROVE  Inv'
<1>1. ReadyInv(p)'
  BY DEF ReadyInv
<1>2. alone[p] => Mates(p)'
  BY StepKeepsMates DEF Inv, ExactInv, Mates
<1>3. ExactInv(p)'
  BY <1>2 DEF Step, ExactInv, Mates
<1> QED
  BY <1>1, <1>3, StepInv

LEMMA AdvanceStep ==
  ASSUME Inv, NEW p \in Process, Step(p), NextTable(p), pc[p] # "idle",
         NEW t \in Table, t = table(p),
         Ready(p, t), alone[p] /\ Mates(p) => Exact(p, t)'
  PROVE  Inv'
<1> USE DEF Inv
<1>1. at[p] \in 1..Len(Dst) /\ Len(Dst) \in Nat /\ at[p] \in Nat
  BY TableAt, MigrateAssumption
<1>2. \A n \in 1..at[p] : /\ n \in 1..Len(Dst) /\ Dst[n] \in Table
                          /\ Dst[n] = t \/ n \in 1..at[p]-1
  BY <1>1, DstTable DEF table
<1>3. 1..at[p]-1 \subseteq 1..at[p]
  BY <1>1
<1>4. registered' = registered /\ pc \in [Process -> {"idle", "table", "fields", "indexes", "remove"}]
      /\ at \in [Process -> 1..Len(Dst)] /\ result \in [Process -> {"none", "ok", "error"}]
  BY DEF NextTable, TypeOK
<1>5. \A n \in 1..at[p] : Ready(p, Dst[n])'
  BY <1>2, <1>4, KeepsReady DEF Step, ReadyInv, table
<1>6. ASSUME alone[p]
      PROVE  Mates(p)' /\ \A n \in 1..at[p] : Exact(p, Dst[n])'
  <2>1. Mates(p) /\ Mates(p)'
    BY <1>6, StepKeepsMates DEF ExactInv, Mates
  <2>2. \A n \in 1..at[p]-1 : Exact(p, Dst[n])'
    BY <1>2, <1>3, <1>6, <2>1, KeepsExact DEF Step, ExactInv
  <2>3. Exact(p, t)'
    BY <1>6, <2>1
  <2>4. ASSUME NEW n \in 1..at[p] PROVE Exact(p, Dst[n])'
    <3>1. CASE Dst[n] = t
      BY <2>3, <3>1
    <3>2. CASE n \in 1..at[p]-1
      BY <2>2, <3>2
    <3> QED
      BY <1>2, <3>1, <3>2
  <2> QED
    BY <2>1, <2>4
<1>7. CASE at[p] < Len(Dst)
  <2>1. at'[p] = at[p] + 1 /\ pc'[p] = "table" /\ result'[p] = result[p] /\ at'[p]-1 = at[p]
    BY <1>1, <1>4, <1>7 DEF NextTable
  <2>2. result'[p] # "ok"
    BY <2>1 DEF ReadyInv
  <2>3. ReadyInv(p)'
    BY <1>5, <2>1, <2>2 DEF ReadyInv, ReadyAt
  <2>4. ExactInv(p)'
    BY <1>6, <2>1, <2>2 DEF ExactInv, ExactAt, Step, Mates
  <2> QED
    BY <2>3, <2>4, StepInv
<1>8. CASE ~(at[p] < Len(Dst))
  <2>1. pc'[p] = "idle" /\ at[p] = Len(Dst)
    BY <1>1, <1>4, <1>8 DEF NextTable
  <2>2. ReadyInv(p)'
    BY <1>5, <2>1 DEF ReadyInv
  <2>3. ExactInv(p)'
    BY <1>6, <2>1 DEF ExactInv, Step, Mates
  <2> QED
    BY <2>2, <2>3, StepInv
<1> QED
  BY <1>7, <1>8
-----------------------------------------------------------------------------
(***************************************************************************)
(* One lemma per action.                                                   *)
(***************************************************************************)
\* A step of p that leaves the server alone and changes nothing of other processes.
LEMMA LocalStep ==
  ASSUME TypeOK, TypeOK', NEW p \in Process, UNCHANGED server,
         fails' = fails \/ fails' = fails + 1,
         existing' = existing, alone' = alone, pc[p] = "idle" => pc'[p] = "idle",
         \A q \in Process \ {p} : Same(q)
  PROVE  Step(p)
<1>1. Effect
  BY MigrateAssumption DEF Effect, server, TypeOK
<1> QED
  BY <1>1 DEF Step

LEMMA ListTablesInv ==
  ASSUME Inv, NEW p \in Process, ListTables(p)
  PROVE  Inv'
<1> USE DEF Inv
<1>1. /\ existing' = [existing EXCEPT ![p] = {t \in Table : kind[t] # NoTable}]
      /\ pc' = [pc EXCEPT ![p] = "table"] /\ at' = [at EXCEPT ![p] = 1]
      /\ result' = [result EXCEPT ![p] = "none"] /\ pc[p] = "idle"
      /\ UNCHANGED <<kind, fields, indexes, registered, todo, fails>>
  BY DEF ListTables, server
<1>2. alone' = [q \in Process |->
                 IF q = p THEN \A r \in Process : Model[r] = Model[p] \/ pc[r] = "idle"
                          ELSE alone[q] /\ Model[q] = Model[p]]
  BY DEF ListTables
<1>3. TypeOK'
  <2>1. alone' \in [Process -> BOOLEAN]
    BY <1>2 DEF TypeOK
  <2>2. Len(Dst) \in Nat /\ 1 \in 1..Len(Dst)
    BY MigrateAssumption
  <2> QED
    BY <1>1, <2>1, <2>2 DEF TypeOK
<1>4. Effect
  BY <1>1 DEF Effect
<1>5. ServerInv'
  BY <1>1, <1>3, <1>4, ServerKeeps DEF TypeOK
<1>6. ASSUME NEW q \in Process \ {p}
      PROVE  ReadyInv(q)' /\ ExactInv(q)'
  <2>1. Same(q)
    BY <1>1 DEF Same, TypeOK
  <2>2. alone'[q] => alone[q] /\ Model[q] = Model[p]
    BY <1>2
  <2>3. alone'[q] => alone[q] /\ Mates(q)'
    BY <1>1, <2>2 DEF ExactInv, Mates, TypeOK
  <2> QED
    BY <1>4, <2>1, <2>3, OthersKeep
<1>7. pc'[p] = "table" /\ at'[p] = 1 /\ result'[p] # "ok" /\ 1..at'[p]-1 = {}
  BY <1>1 DEF TypeOK
<1>8. ReadyInv(p)'
  BY <1>7 DEF ReadyInv, ReadyAt
<1>9. ExactInv(p)'
  <2>1. alone'[p] => \A q \in Process : Model[q] = Model[p] \/ pc'[q] = "idle"
    BY <1>1, <1>2 DEF TypeOK
  <2> QED
    BY <1>7, <2>1 DEF ExactInv, ExactAt
<1> QED
  BY <1>3, <1>5, <1>6, <1>8, <1>9

\* Entering the fields of a table that is there.
LEMMA EnterFieldsInv ==
  ASSUME Inv, NEW p \in Process, Step(p), EnterFields(p), RegisterEdgeTable(p, table(p)),
         pc[p] = "table", UNCHANGED <<at, existing, result>>, NEW t \in Table, t = table(p),
         kind'[t] # NoTable, fields' = fields, isNewTable(p) => kind[t] = NoTable
  PROVE  Inv'
<1> USE DEF Inv
<1>1. pc'[p] = "fields" /\ todo'[p] = FieldsOf(p, t) /\ table(p)' = t
      /\ isNewTable(p)' = isNewTable(p)
  BY DEF EnterFields, TypeOK, table, isNewTable
<1>2. registered[p] \subseteq registered'[p] /\ (isEdge(t) => t \in registered'[p])
  BY DEF RegisterEdgeTable, TypeOK
<1>3. ReadyAt(p)'
  BY <1>1, <1>2, SharedFieldsOf DEF ReadyAt, isEdge, Shared, FieldsOf
<1>4. isNewTable(p) => \A f \in Field : fields[t][f] = NoField
  BY DEF ServerInv
<1>5. ExactAt(p)'
  BY <1>1, <1>4 DEF ExactAt, FieldsOf
<1> QED
  BY <1>1, <1>2, <1>3, <1>5, StayStep

LEMMA SkipTableInv ==
  ASSUME Inv, NEW p \in Process, SkipTable(p)
  PROVE  Inv'
<1> USE DEF Inv
<1> DEFINE t == table(p)
<1>1. t \in Table /\ kind[t] # NoTable
  BY TableAt DEF SkipTable, ServerInv, isNewTable
<1>2. TypeOK'
  <2>1. pc' \in [Process -> {"idle", "table", "fields", "indexes", "remove"}]
        /\ todo' \in [Process -> SUBSET (Field \cup Index)]
    BY DEF SkipTable, EnterFields, FieldsOf, TypeOK
  <2>2. registered' \in [Process -> SUBSET Table]
    BY <1>1 DEF SkipTable, RegisterEdgeTable, TypeOK
  <2> QED
    BY <2>1, <2>2 DEF SkipTable, server, TypeOK
<1>3. \A q \in Process \ {p} : Same(q)
  BY DEF SkipTable, EnterFields, RegisterEdgeTable, Same, TypeOK
<1>4. Step(p)
  BY <1>2, <1>3, LocalStep DEF SkipTable
<1> QED
  BY <1>1, <1>4, EnterFieldsInv DEF SkipTable, server

LEMMA CreateTableInv ==
  ASSUME Inv, NEW p \in Process, CreateTable(p)
  PROVE  Inv'
<1> USE DEF Inv
<1> DEFINE t == table(p)
<1>1. t \in Table
  BY TableAt
<1>2. Kind[t] \in {"relation", "full", "plain"} /\ NoTable \notin {"relation", "full", "plain"}
  BY <1>1, MigrateAssumption
<1>3. UNCHANGED <<fields, indexes, existing, at, alone, fails>> /\ pc[p] = "table"
      /\ RegisterEdgeTable(p, t)
  BY DEF CreateTable
<1>4. registered' \in [Process -> SUBSET Table] /\ \A q \in Process \ {p} : registered'[q] = registered[q]
  BY <1>1, <1>3 DEF RegisterEdgeTable, TypeOK
<1>5. CASE kind[t] = NoTable
  <2>1. kind' = [kind EXCEPT ![t] = Kind[t]] /\ EnterFields(p) /\ result' = result
    BY <1>5 DEF CreateTable
  <2>2. TypeOK'
    <3>1. pc' \in [Process -> {"idle", "table", "fields", "indexes", "remove"}]
          /\ todo' \in [Process -> SUBSET (Field \cup Index)]
      BY <2>1 DEF EnterFields, FieldsOf, TypeOK
    <3>2. kind' \in [Table -> {"relation", "full", "plain", NoTable}]
      BY <1>2, <2>1 DEF TypeOK
    <3> QED
      BY <1>3, <1>4, <2>1, <3>1, <3>2 DEF TypeOK
  <2>3. \A q \in Process \ {p} : Same(q)
    BY <1>3, <1>4, <2>1 DEF EnterFields, Same, TypeOK
  <2>4. Effect
    BY <1>2, <1>3, <2>1 DEF Effect, TypeOK
  <2>5. Step(p)
    BY <1>3, <2>2, <2>3, <2>4 DEF Step
  <2>6. kind'[t] # NoTable
    BY <1>1, <1>2, <2>1 DEF TypeOK
  <2> QED
    BY <1>1, <1>3, <1>5, <2>1, <2>5, <2>6, EnterFieldsInv
<1>6. CASE kind[t] # NoTable
  <2>1. pc' = [pc EXCEPT ![p] = "idle"] /\ result' = [result EXCEPT ![p] = "error"]
        /\ UNCHANGED <<kind, todo>>
    BY <1>6 DEF CreateTable
  <2>2. TypeOK'
    BY <1>3, <1>4, <2>1 DEF TypeOK
  <2>3. \A q \in Process \ {p} : Same(q)
    BY <1>3, <1>4, <2>1 DEF Same, TypeOK
  <2>4. pc'[p] = "idle" /\ result'[p] # "ok"
    BY <2>1 DEF TypeOK
  <2>5. Step(p)
    BY <1>3, <2>1, <2>2, <2>3, <2>4, LocalStep DEF server
  <2> QED
    BY <2>4, <2>5, LeaveStep
<1> QED
  BY <1>5, <1>6
LEMMA DefineFieldInv ==
  ASSUME Inv, NEW p \in Process, NEW f \in Field, DefineField(p, f)
  PROVE  Inv'
<1> USE DEF Inv
<1> DEFINE t == table(p)
           keeps == isNewTable(p) /\ fields[t][f] # NoField
<1>1. t \in Table
  BY TableAt
<1>2. /\ pc[p] = "fields" /\ f \in todo[p]
      /\ fields' = IF keeps THEN fields ELSE [fields EXCEPT ![t][f] = Model[p][t][f]]
      /\ todo' = [todo EXCEPT ![p] = @ \ {f}]
      /\ UNCHANGED <<kind, indexes, registered, pc, existing, at, result, alone, fails>>
  BY DEF DefineField
<1>3. ReadyAt(p) /\ f \in FieldsOf(p, t) /\ kind[t] # NoTable
  BY <1>2 DEF ReadyInv, ReadyAt
<1>4. Model[p][t][f] \in Type \cup {NoField}
  BY <1>1, MigrateAssumption
<1>5. TypeOK'
  <2>1. fields' \in [Table -> [Field -> Type \cup {NoField}]]
    BY <1>1, <1>2, <1>4 DEF TypeOK
  <2>2. todo' \in [Process -> SUBSET (Field \cup Index)]
    BY <1>2 DEF TypeOK
  <2> QED
    BY <1>2, <2>1, <2>2 DEF TypeOK
<1>6. /\ fields'[t][f] = IF keeps THEN fields[t][f] ELSE Model[p][t][f]
      /\ \A u \in Table, g \in Field : u # t \/ g # f => fields'[u][g] = fields[u][g]
  BY <1>1, <1>2 DEF TypeOK
<1>7. Effect
  BY <1>1, <1>2, <1>3, <1>6 DEF Effect
<1>8. Step(p)
  BY <1>2, <1>5, <1>7 DEF Step, Same, TypeOK
<1>9. todo'[p] = todo[p] \ {f} /\ table(p)' = t /\ isNewTable(p)' = isNewTable(p)
  BY <1>2 DEF TypeOK, table, isNewTable
<1>10. ReadyAt(p)'
  <2>1. Shared(t, f) => fields'[t][f] = Model[p][t][f]
    BY <1>1, <1>6 DEF ServerInv
  <2>2. \A g \in Field : Shared(t, g) /\ g \notin todo'[p] => fields'[t][g] = Model[p][t][g]
    BY <1>1, <1>2, <1>3, <1>6, <1>9, <2>1 DEF ReadyAt
  <2>3. todo'[p] \subseteq FieldsOf(p, t)
    BY <1>2, <1>3, <1>9 DEF ReadyAt
  <2> QED
    BY <1>2, <1>3, <1>9, <2>2, <2>3 DEF ReadyAt, isEdge, Shared, FieldsOf
<1>11. ASSUME alone[p], Mates(p)
       PROVE  ExactAt(p)'
  <2>1. ExactAt(p)
    BY <1>2, <1>11 DEF ExactInv
  <2>2. fields'[t][f] = Model[p][t][f]
    BY <1>2, <1>3, <1>6, <2>1 DEF ExactAt
  <2>3. \A g \in FieldsOf(p, t) : \/ fields'[t][g] = Model[p][t][g]
                                  \/ g \in todo'[p] /\ (isNewTable(p) => fields'[t][g] = NoField)
    BY <1>1, <1>2, <1>6, <1>9, <2>1, <2>2 DEF ExactAt, FieldsOf
  <2>4. fails = 0 => \A g \in Field \ FieldsOf(p, t) : fields'[t][g] = NoField \/ ~isNewTable(p)
    BY <1>1, <1>2, <1>3, <1>6, <2>1 DEF ExactAt
  <2> QED
    BY <1>2, <1>9, <2>3, <2>4 DEF ExactAt, FieldsOf
<1> QED
  BY <1>2, <1>8, <1>10, <1>11, StayStep

LEMMA FieldsDoneInv ==
  ASSUME Inv, NEW p \in Process, FieldsDone(p)
  PROVE  Inv'
<1> USE DEF Inv
<1> DEFINE t == table(p)
<1>1. t \in Table
  BY TableAt
<1>2. /\ pc[p] = "fields" /\ todo[p] = {}
      /\ pc' = [pc EXCEPT ![p] = "indexes"] /\ todo' = [todo EXCEPT ![p] = Indexed[p][t]]
      /\ UNCHANGED <<kind, fields, indexes, registered, existing, at, result, alone, fails>>
  BY DEF FieldsDone, server
<1>3. TypeOK'
  <2>1. Indexed[p][t] \subseteq Index
    BY <1>1, MigrateAssumption
  <2> QED
    BY <1>2, <2>1 DEF TypeOK
<1>4. Step(p)
  BY <1>2, <1>3, LocalStep DEF server, Same, TypeOK
<1>5. pc'[p] = "indexes" /\ todo'[p] = Indexed[p][t] /\ table(p)' = t
      /\ isNewTable(p)' = isNewTable(p)
  BY <1>2 DEF TypeOK, table, isNewTable
<1>6. ReadyAt(p)'
  BY <1>2, <1>5 DEF ReadyInv, ReadyAt, isEdge, Shared, FieldsOf
<1>7. alone[p] => ExactAt(p)'
  BY <1>2, <1>5 DEF ExactInv, ExactAt, FieldsOf
<1> QED
  BY <1>2, <1>4, <1>5, <1>6, <1>7, StayStep

LEMMA DefineIndexInv ==
  ASSUME Inv, NEW p \in Process, NEW i \in Index, DefineIndex(p, i)
  PROVE  Inv'
<1> USE DEF Inv
<1> DEFINE t == table(p)
<1>1. t \in Table
  BY TableAt
<1>2. /\ pc[p] = "indexes" /\ i \in todo[p]
      /\ indexes' = [indexes EXCEPT ![t] = @ \cup {i}] /\ todo' = [todo EXCEPT ![p] = @ \ {i}]
      /\ UNCHANGED <<kind, fields, registered, pc, existing, at, result, alone, fails>>
  BY DEF DefineIndex
<1>3. TypeOK'
  BY <1>1, <1>2 DEF TypeOK
<1>4. Effect
  BY <1>1, <1>2 DEF Effect, TypeOK
<1>5. Step(p)
  BY <1>2, <1>3, <1>4 DEF Step, Same, TypeOK
<1>6. todo'[p] = todo[p] \ {i} /\ indexes'[t] = indexes[t] \cup {i} /\ table(p)' = t
      /\ isNewTable(p)' = isNewTable(p)
  BY <1>1, <1>2 DEF TypeOK, table, isNewTable
<1>7. ReadyAt(p)'
  BY <1>2, <1>6 DEF ReadyInv, ReadyAt, isEdge, Shared, FieldsOf
<1>8. alone[p] => ExactAt(p)'
  BY <1>2, <1>6 DEF ExactInv, ExactAt, FieldsOf
<1> QED
  BY <1>2, <1>5, <1>7, <1>8, StayStep

LEMMA InfoForTableInv ==
  ASSUME Inv, NEW p \in Process, InfoForTable(p)
  PROVE  Inv'
<1> USE DEF Inv
<1> DEFINE t == table(p)
<1>1. t \in Table
  BY TableAt
<1>2. /\ pc[p] = "indexes" /\ todo[p] = {} /\ ~isNewTable(p)
      /\ pc' = [pc EXCEPT ![p] = "remove"] /\ todo' = [todo EXCEPT ![p] = Obsolete(p)]
      /\ UNCHANGED <<kind, fields, indexes, registered, existing, at, result, alone, fails>>
  BY DEF InfoForTable, server
<1>3. TypeOK'
  BY <1>2 DEF TypeOK, Obsolete
<1>4. Step(p)
  BY <1>2, <1>3, LocalStep DEF server, Same, TypeOK
<1>5. pc'[p] = "remove" /\ todo'[p] = Obsolete(p) /\ table(p)' = t
      /\ isNewTable(p)' = isNewTable(p)
  BY <1>2 DEF TypeOK, table, isNewTable
<1>6. ReadyAt(p)'
  BY <1>2, <1>5 DEF ReadyInv, ReadyAt, isEdge, Shared, FieldsOf, Obsolete
<1>7. alone[p] => ExactAt(p)'
  BY <1>2, <1>5 DEF ExactInv, ExactAt, FieldsOf, Obsolete
<1> QED
  BY <1>2, <1>4, <1>5, <1>6, <1>7, StayStep

LEMMA RemoveFieldInv ==
  ASSUME Inv, NEW p \in Process, NEW f \in Field, RemoveField(p, f)
  PROVE  Inv'
<1> USE DEF Inv
<1> DEFINE t == table(p)
<1>1. t \in Table
  BY TableAt
<1>2. /\ pc[p] = "remove" /\ f \in todo[p]
      /\ fields' = [fields EXCEPT ![t][f] = NoField] /\ todo' = [todo EXCEPT ![p] = @ \ {f}]
      /\ UNCHANGED <<kind, indexes, registered, pc, existing, at, result, alone, fails>>
  BY DEF RemoveField
<1>3. ReadyAt(p) /\ f \notin FieldsOf(p, t)
  BY <1>2 DEF ReadyInv, ReadyAt
<1>4. TypeOK'
  BY <1>1, <1>2 DEF TypeOK
<1>5. /\ fields'[t][f] = NoField
      /\ \A u \in Table, g \in Field : u # t \/ g # f => fields'[u][g] = fields[u][g]
  BY <1>1, <1>2 DEF TypeOK
<1>6. Effect
  BY <1>1, <1>2, <1>3, <1>5 DEF Effect
<1>7. Step(p)
  BY <1>2, <1>4, <1>6 DEF Step, Same, TypeOK
<1>8. todo'[p] = todo[p] \ {f} /\ table(p)' = t /\ isNewTable(p)' = isNewTable(p)
  BY <1>2 DEF TypeOK, table, isNewTable
<1>9. ReadyAt(p)'
  <2>1. \A g \in Field : Shared(t, g) => fields'[t][g] = Model[p][t][g]
    BY <1>1, <1>2, <1>3, <1>5, SharedFieldsOf DEF ReadyAt
  <2> QED
    BY <1>2, <1>3, <1>8, <2>1 DEF ReadyAt, isEdge, Shared, FieldsOf
<1>10. ASSUME alone[p] PROVE ExactAt(p)'
  <2>1. ExactAt(p)
    BY <1>2, <1>10 DEF ExactInv
  <2>2. \A g \in FieldsOf(p, t) : fields'[t][g] = Model[p][t][g]
    BY <1>1, <1>2, <1>3, <1>5, <2>1 DEF ExactAt, FieldsOf
  <2>3. fails = 0 => \A g \in Field \ FieldsOf(p, t) :
          fields'[t][g] = NoField \/ (~isNewTable(p) /\ g \in todo'[p])
    BY <1>1, <1>2, <1>5, <1>8, <2>1 DEF ExactAt
  <2> QED
    BY <1>2, <1>8, <2>1, <2>2, <2>3 DEF ExactAt, FieldsOf
<1> QED
  BY <1>2, <1>7, <1>9, <1>10, StayStep
\* Going on to the next table, after a new one, an old one or a failed listing of
\* its fields.
LEMMA NextTableStep ==
  ASSUME Inv, NEW p \in Process, NextTable(p), UNCHANGED <<server, todo>>, pc[p] # "idle",
         fails' = fails \/ (fails' = fails + 1 /\ fails < MaxFail)
  PROVE  Step(p)
<1> USE DEF Inv
<1>1. at[p] \in Nat /\ Len(Dst) \in Nat /\ at[p] <= Len(Dst) /\ at[p] >= 1
  BY TableAt, MigrateAssumption
<1>2. fails' \in 0..MaxFail
  BY MigrateAssumption DEF TypeOK
<1>3. at' \in [Process -> 1..Len(Dst)]
  <2>1. at[p] < Len(Dst) => at[p] + 1 \in 1..Len(Dst)
    BY <1>1
  <2> QED
    BY <2>1 DEF NextTable, TypeOK
<1>4. TypeOK'
  BY <1>2, <1>3 DEF NextTable, server, TypeOK
<1>5. \A q \in Process \ {p} : Same(q)
  BY DEF NextTable, Same, TypeOK
<1> QED
  BY <1>4, <1>5, LocalStep DEF NextTable

LEMMA TableDoneInv ==
  ASSUME Inv, NEW p \in Process, NewTableDone(p) \/ OldTableDone(p) \/ InfoFails(p)
  PROVE  Inv'
<1> USE DEF Inv
<1>1. PICK t \in Table : t = table(p)
  BY TableAt
<1>2. NextTable(p) /\ UNCHANGED <<kind, fields, indexes, todo>> /\ pc[p] \in {"indexes", "remove"}
      /\ todo[p] = {} /\ (fails' = fails \/ (fails' = fails + 1 /\ fails < MaxFail))
  BY DEF NewTableDone, OldTableDone, InfoFails, server
<1>3. Step(p)
  BY <1>2, NextTableStep DEF server
<1>4. Ready(p, t)
  BY <1>1, <1>2 DEF ReadyInv, ReadyAt, Ready
<1>5. ASSUME alone[p] PROVE Exact(p, t)'
  <2>1. ExactAt(p)
    BY <1>2, <1>5 DEF ExactInv
  <2>2. \A f \in FieldsOf(p, t) : fields[t][f] = Model[p][t][f]
    BY <1>1, <1>2, <2>1 DEF ExactAt
  <2>3. Indexed[p][t] \subseteq indexes[t]
    BY <1>1, <1>2, <2>1 DEF ExactAt
  <2>4. ASSUME fails' = 0, NEW f \in Field \ FieldsOf(p, t)
        PROVE  fields[t][f] = NoField
    <3>1. fails = 0 /\ ~InfoFails(p)
      BY <1>2, <2>4, MigrateAssumption DEF TypeOK, InfoFails
    <3>2. isNewTable(p) \/ pc[p] = "remove"
      BY <3>1 DEF NewTableDone, OldTableDone
    <3> QED
      BY <1>1, <1>2, <2>1, <3>1, <3>2 DEF ExactAt
  <2> QED
    BY <1>2, <2>2, <2>3, <2>4 DEF Exact, FieldsOf
<1> QED
  BY <1>1, <1>2, <1>3, <1>4, <1>5, AdvanceStep

LEMMA RemoveFailsInv ==
  ASSUME Inv, NEW p \in Process, NEW f \in Field, RemoveFails(p, f)
  PROVE  Inv'
<1> USE DEF Inv
<1>1. /\ pc[p] = "remove" /\ fails < MaxFail /\ fails' = fails + 1
      /\ todo' = [todo EXCEPT ![p] = @ \ {f}]
      /\ UNCHANGED <<kind, fields, indexes, registered, pc, existing, at, result, alone>>
  BY DEF RemoveFails, server
<1>2. fails' \in 0..MaxFail /\ fails' # 0
  BY <1>1, MigrateAssumption DEF TypeOK
<1>3. TypeOK'
  BY <1>1, <1>2 DEF TypeOK
<1>4. Step(p)
  BY <1>1, <1>3, LocalStep DEF server, Same, TypeOK
<1>5. todo'[p] = todo[p] \ {f} /\ table(p)' = table(p) /\ isNewTable(p)' = isNewTable(p)
  BY <1>1 DEF TypeOK, table, isNewTable
<1>6. ReadyAt(p)'
  BY <1>1, <1>5 DEF ReadyInv, ReadyAt, isEdge, Shared, FieldsOf
<1>7. alone[p] => ExactAt(p)'
  BY <1>1, <1>2, <1>5 DEF ExactInv, ExactAt, FieldsOf
<1> QED
  BY <1>1, <1>4, <1>6, <1>7, StayStep

\* AutoMigrate returns an error, or the process starts again.
LEMMA EndsInv ==
  ASSUME Inv, NEW p \in Process, CallFails(p) \/ Restart(p)
  PROVE  Inv'
<1> USE DEF Inv
<1>1. /\ fails < MaxFail /\ fails' = fails + 1 /\ pc' = [pc EXCEPT ![p] = "idle"]
      /\ UNCHANGED <<kind, fields, indexes, existing, at, todo, alone>>
  BY DEF CallFails, Restart, server
<1>2. \E r \in {"none", "error"} : result' = [result EXCEPT ![p] = r]
  BY DEF CallFails, Restart
<1>3. registered' \in [Process -> SUBSET Table] /\ \A q \in Process \ {p} : registered'[q] = registered[q]
  <2>1. \E S \in {registered[p], registered[p] \cup {table(p)}, {}} :
          registered' = [registered EXCEPT ![p] = S]
    <3>1. registered = [registered EXCEPT ![p] = registered[p]]
      BY DEF TypeOK
    <3>2. CASE CallFails(p)
      BY <3>1, <3>2 DEF CallFails, RegisterEdgeTable
    <3>3. CASE Restart(p)
      BY <3>3 DEF Restart
    <3> QED
      BY <3>2, <3>3
  <2>2. table(p) \in Table
    BY TableAt
  <2> QED
    BY <2>1, <2>2 DEF TypeOK
<1>4. fails' \in 0..MaxFail
  BY <1>1, MigrateAssumption DEF TypeOK
<1>5. TypeOK'
  BY <1>1, <1>2, <1>3, <1>4 DEF TypeOK
<1>6. \A q \in Process \ {p} : Same(q)
  BY <1>1, <1>2, <1>3 DEF Same, TypeOK
<1>7. pc'[p] = "idle" /\ result'[p] # "ok"
  BY <1>1, <1>2 DEF TypeOK
<1>8. Step(p)
  BY <1>1, <1>5, <1>6, <1>7, LocalStep DEF server
<1> QED
  BY <1>7, <1>8, LeaveStep

LEMMA QuietInv ==
  ASSUME Inv, UNCHANGED vars \/ \E t \in Table : EarlyWrite(t)
  PROVE  Inv'
<1> USE DEF Inv
<1>1. UNCHANGED <<fields, indexes, registered, pc, existing, at, todo, result, alone, fails>>
      /\ (kind' = kind \/ \E t \in Table : kind[t] = NoTable /\ kind' = [kind EXCEPT ![t] = "plain"])
  BY DEF vars, server, EarlyWrite
<1>2. TypeOK'
  BY <1>1 DEF TypeOK
<1>3. Effect
  BY <1>1, MigrateAssumption DEF Effect, TypeOK
<1>4. ServerInv'
  BY <1>1, <1>2, <1>3, ServerKeeps
<1>5. ASSUME NEW p \in Process
      PROVE  ReadyInv(p)' /\ ExactInv(p)'
  BY <1>1, <1>3, OthersKeep DEF Same, Mates, ExactInv
<1> QED
  BY <1>2, <1>4, <1>5

-----------------------------------------------------------------------------
LEMMA InitInv == Init => Inv
<1> SUFFICES ASSUME Init PROVE Inv
  OBVIOUS
<1>1. /\ registered = [p \in Process |-> {}] /\ pc = [p \in Process |-> "idle"]
      /\ existing = [p \in Process |-> {}] /\ at = [p \in Process |-> 1]
      /\ todo = [p \in Process |-> {}] /\ result = [p \in Process |-> "none"]
      /\ alone = [p \in Process |-> FALSE] /\ fails = 0
  BY DEF Init
<1>2. 1 \in 1..Len(Dst) /\ 0 \in 0..MaxFail
  BY MigrateAssumption
<1>3. \/ Empty
      \/ \E p \in Process : kind = Kind /\ fields = Model[p] /\ indexes = Indexed[p]
  BY DEF Init, Migrated
<1>4. /\ kind \in [Table -> {"relation", "full", "plain", NoTable}]
      /\ fields \in [Table -> [Field -> Type \cup {NoField}]]
      /\ indexes \in [Table -> SUBSET Index]
  BY <1>3, MigrateAssumption DEF Empty
<1>5. TypeOK
  BY <1>1, <1>2, <1>4 DEF TypeOK
<1>6. ServerInv
  <2>1. \A t \in Table, f \in Field : kind[t] = NoTable => fields[t][f] = NoField
    BY <1>3, MigrateAssumption DEF Empty
  <2>2. \A p \in Process, t \in Table, f \in Field :
          Shared(t, f) => fields[t][f] \in {NoField, Model[p][t][f]}
    BY <1>3 DEF Empty, Shared
  <2> QED
    BY <1>1, <2>1, <2>2 DEF ServerInv
<1>7. \A p \in Process : ReadyInv(p) /\ ExactInv(p)
  BY <1>1 DEF ReadyInv, ExactInv
<1> QED
  BY <1>5, <1>6, <1>7 DEF Inv

LEMMA NextInv == Inv /\ [Next]_vars => Inv'
<1> SUFFICES ASSUME Inv, [Next]_vars PROVE Inv'
  OBVIOUS
<1>1. ASSUME NEW p \in Process, Migrates(p) PROVE Inv'
  BY <1>1, ListTablesInv, SkipTableInv, CreateTableInv, DefineFieldInv, RemoveFieldInv,
     FieldsDoneInv, DefineIndexInv, TableDoneInv, InfoForTableInv DEF Migrates
<1>2. ASSUME NEW p \in Process, Fails(p) PROVE Inv'
  BY <1>2, EndsInv, TableDoneInv, RemoveFailsInv DEF Fails
<1>3. CASE UNCHANGED vars \/ \E t \in Table : EarlyWrite(t)
  BY <1>3, QuietInv
<1> QED
  BY <1>1, <1>2, <1>3 DEF Next

LEMMA Invariance == Spec => []Inv
<1>1. Init => Inv
  BY InitInv
<1>2. Inv /\ [Next]_vars => Inv'
  BY NextInv
<1> QED
  BY <1>1, <1>2, PTL DEF Spec

\* The schema and the processes that migrate it keep their types.
THEOREM TypeCorrect == Spec => []TypeOK
<1>1. Inv => TypeOK
  BY DEF Inv
<1> QED
  BY <1>1, Invariance, PTL

\* A process whose AutoMigrate returned nil has all of its edge tables registered,
\* whoever created them (migrator.go:48-57).
THEOREM EdgesServed == Spec => []ServesEdges
<1>1. Inv => ServesEdges
  BY DEF Inv, ReadyInv, Ready, InDst, ServesEdges
<1> QED
  BY <1>1, Invariance, PTL

\* From then on the fields that all builds define alike are defined, for any number
\* of builds that migrate, fail half-way and restart (migrator.go:30-98, :396-446).
THEOREM SharedFieldsKept == Spec => []SharedFieldsDefined
<1>1. Inv => SharedFieldsDefined
  BY DEF Inv, ReadyInv, Ready, InDst, SharedFieldsDefined
<1> QED
  BY <1>1, Invariance, PTL

\* A build that migrates alone gets its own schema from whatever it finds, and
\* nothing else if no call fails (README.md:332).
THEOREM ExactWhenAlone == Spec => []AloneIsExact
<1>1. Inv => AloneIsExact
  BY DEF Inv, ExactInv, Exact, InDst, AloneIsExact
<1> QED
  BY <1>1, Invariance, PTL
=============================================================================
