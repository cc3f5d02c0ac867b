------------------------------ MODULE Migrate -------------------------------
(***************************************************************************)
(* AutoMigrate run at start-up by several processes, possibly builds with  *)
(* different models, against one database.  Each call to the server is a   *)
(* step; a call may fail, and a process may stop between two calls and     *)
(* start again with an empty edge table registry.                          *)
(***************************************************************************)
EXTENDS Naturals, Sequences

CONSTANTS Process,
          Table,
          Dst,         \* the models AutoMigrate is given, as a sequence of tables
          Kind,        \* what each table's model asks for: "relation", "full" or "plain"
          Field, Type, NoField,
          Model,       \* Model[p][t][f]: the type the build of p gives field f, or NoField
          Index,
          Indexed,     \* Indexed[p][t]: the indexes of the model
          NoTable,
          EarlyWrites, \* tables that clients write to before any migration
          MaxFail      \* bound on failed calls and stopped processes

ASSUME MigrateAssumption ==
  /\ Dst \in Seq(Table) /\ Len(Dst) > 0
  /\ Kind \in [Table -> {"relation", "full", "plain"}]
  /\ NoTable \notin {"relation", "full", "plain"}
  /\ NoField \notin Type
  /\ Model \in [Process -> [Table -> [Field -> Type \cup {NoField}]]]
  /\ Indexed \in [Process -> [Table -> SUBSET Index]]
  /\ EarlyWrites \subseteq Table
  /\ MaxFail \in Nat

VARIABLES kind,       \* the server: the definition of each table, or NoTable
          fields,     \* the server: the type of each field of each table, or NoField
          indexes,    \* the server: the indexes of each table
          registered, \* each process's edge table registry
          pc,         \* where each process's AutoMigrate is
          existing,   \* the tables it listed
          at,         \* the model it is at, an index of Dst
          todo,       \* fields or indexes it still has to define or remove
          result,     \* what AutoMigrate returned last
          alone,      \* history: no build with other models has migrated since it began
          fails

server == <<kind, fields, indexes>>
vars == <<server, registered, pc, existing, at, todo, result, alone, fails>>

table(p) == Dst[at[p]]
isEdge(t) == Kind[t] = "relation"
isNewTable(p) == table(p) \notin existing[p]
FieldsOf(p, t) == {f \in Field : Model[p][t][f] # NoField}

-----------------------------------------------------------------------------
\* mutant: the list of tables is fetched by the first run of a process only.
ListTablesOnce(p) ==
  /\ pc[p] = "idle" /\ result[p] # "ok"
  /\ existing' = IF result[p] = "error" THEN existing
                 ELSE [existing EXCEPT ![p] = {t \in Table : kind[t] # NoTable}]
  /\ pc' = [pc EXCEPT ![p] = "table"]
  /\ at' = [at EXCEPT ![p] = 1]
  /\ result' = [result EXCEPT ![p] = "none"]
  /\ alone' = [q \in Process |->
                 IF q = p THEN \A r \in Process : Model[r] = Model[p] \/ pc[r] = "idle"
                          ELSE alone[q] /\ Model[q] = Model[p]]
  /\ UNCHANGED <<server, registered, todo, fails>>

\* The application calls AutoMigrate until it returns nil; it lists the tables once.
ListTables(p) ==
  /\ pc[p] = "idle" /\ result[p] # "ok"
  /\ existing' = [existing EXCEPT ![p] = {t \in Table : kind[t] # NoTable}]
  /\ pc' = [pc EXCEPT ![p] = "table"]
  /\ at' = [at EXCEPT ![p] = 1]
  /\ result' = [result EXCEPT ![p] = "none"]
  /\ alone' = [q \in Process |->
                 IF q = p THEN \A r \in Process : Model[r] = Model[p] \/ pc[r] = "idle"
                          ELSE alone[q] /\ Model[q] = Model[p]]
  /\ UNCHANGED <<server, registered, todo, fails>>

RegisterEdgeTable(p, t) ==
  registered' = IF isEdge(t) THEN [registered EXCEPT ![p] = @ \cup {t}] ELSE registered

EnterFields(p) ==
  /\ pc' = [pc EXCEPT ![p] = "fields"]
  /\ todo' = [todo EXCEPT ![p] = FieldsOf(p, table(p))]

\* mutant: edge tables are registered when they are created only.
SkipTableUnregistered(p) ==
  /\ pc[p] = "table" /\ ~isNewTable(p)
  /\ EnterFields(p)
  /\ UNCHANGED <<server, registered, existing, at, result, alone, fails>>

SkipTable(p) ==
  /\ pc[p] = "table" /\ ~isNewTable(p)
  /\ RegisterEdgeTable(p, table(p))
  /\ EnterFields(p)
  /\ UNCHANGED <<server, existing, at, result, alone, fails>>

\* DEFINE TABLE, without IF NOT EXISTS: an error if it exists by now.
CreateTable(p) ==
  /\ pc[p] = "table" /\ isNewTable(p)
  /\ RegisterEdgeTable(p, table(p))
  /\ IF kind[table(p)] = NoTable
       THEN /\ kind' = [kind EXCEPT ![table(p)] = Kind[table(p)]]
            /\ EnterFields(p)
            /\ UNCHANGED result
       ELSE /\ pc' = [pc EXCEPT ![p] = "idle"]
            /\ result' = [result EXCEPT ![p] = "error"]
            /\ UNCHANGED <<kind, todo>>
  /\ UNCHANGED <<fields, indexes, existing, at, alone, fails>>

\* IF NOT EXISTS for a table this run created, OVERWRITE for one it found.
DefineField(p, f) ==
  /\ pc[p] = "fields" /\ f \in todo[p]
  /\ fields' = IF isNewTable(p) /\ fields[table(p)][f] # NoField THEN fields
               ELSE [fields EXCEPT ![table(p)][f] = Model[p][table(p)][f]]
  /\ todo' = [todo EXCEPT ![p] = @ \ {f}]
  /\ UNCHANGED <<kind, indexes, registered, pc, existing, at, result, alone, fails>>

FieldsDone(p) ==
  /\ pc[p] = "fields" /\ todo[p] = {}
  /\ pc' = [pc EXCEPT ![p] = "indexes"]
  /\ todo' = [todo EXCEPT ![p] = Indexed[p][table(p)]]
  /\ UNCHANGED <<server, registered, existing, at, result, alone, fails>>

DefineIndex(p, i) ==
  /\ pc[p] = "indexes" /\ i \in todo[p]
  /\ indexes' = [indexes EXCEPT ![table(p)] = @ \cup {i}]
  /\ todo' = [todo EXCEPT ![p] = @ \ {i}]
  /\ UNCHANGED <<kind, fields, registered, pc, existing, at, result, alone, fails>>

\* mutant: goes on behind the last model.
NextTablePastLast(p) ==
  /\ IF at[p] <= Len(Dst)
       THEN /\ at' = [at EXCEPT ![p] = @ + 1]
            /\ pc' = [pc EXCEPT ![p] = "table"]
            /\ UNCHANGED result
       ELSE /\ pc' = [pc EXCEPT ![p] = "idle"]
            /\ result' = [result EXCEPT ![p] = "ok"]
            /\ UNCHANGED at
  /\ UNCHANGED <<registered, existing, alone>>

NextTable(p) ==
  /\ IF at[p] < Len(Dst)
       THEN /\ at' = [at EXCEPT ![p] = @ + 1]
            /\ pc' = [pc EXCEPT ![p] = "table"]
            /\ UNCHANGED result
       ELSE /\ pc' = [pc EXCEPT ![p] = "idle"]
            /\ result' = [result EXCEPT ![p] = "ok"]
            /\ UNCHANGED at
  /\ UNCHANGED <<registered, existing, alone>>

NewTableDone(p) ==
  /\ pc[p] = "indexes" /\ todo[p] = {} /\ isNewTable(p)
  /\ NextTable(p)
  /\ UNCHANGED <<server, todo, fails>>

\* mutant: every field of the table is taken for an obsolete one.
ObsoleteAll(p) == {f \in Field : fields[table(p)][f] # NoField}

\* Fields of the table that the model has not.
Obsolete(p) == {f \in Field \ FieldsOf(p, table(p)) : fields[table(p)][f] # NoField}

InfoForTable(p) ==
  /\ pc[p] = "indexes" /\ todo[p] = {} /\ ~isNewTable(p)
  /\ pc' = [pc EXCEPT ![p] = "remove"]
  /\ todo' = [todo EXCEPT ![p] = Obsolete(p)]
  /\ UNCHANGED <<server, registered, existing, at, result, alone, fails>>

RemoveField(p, f) ==
  /\ pc[p] = "remove" /\ f \in todo[p]
  /\ fields' = [fields EXCEPT ![table(p)][f] = NoField]
  /\ todo' = [todo EXCEPT ![p] = @ \ {f}]
  /\ UNCHANGED <<kind, indexes, registered, pc, existing, at, result, alone, fails>>

OldTableDone(p) ==
  /\ pc[p] = "remove" /\ todo[p] = {}
  /\ NextTable(p)
  /\ UNCHANGED <<server, todo, fails>>

-----------------------------------------------------------------------------
(***************************************************************************)
(* Failures.                                                               *)
(***************************************************************************)
\* A call other than those of removeObsoleteFields fails, and AutoMigrate with it.
CallFails(p) ==
  /\ fails < MaxFail /\ fails' = fails + 1
  /\ \/ pc[p] = "idle" /\ result[p] # "ok" /\ UNCHANGED registered
     \/ pc[p] = "table" /\ isNewTable(p) /\ RegisterEdgeTable(p, table(p))
     \/ pc[p] \in {"fields", "indexes"} /\ todo[p] # {} /\ UNCHANGED registered
  /\ pc' = [pc EXCEPT ![p] = "idle"]
  /\ result' = [result EXCEPT ![p] = "error"]
  /\ UNCHANGED <<server, existing, at, todo, alone>>

\* Removing obsolete fields is best effort: its errors are dropped.
InfoFails(p) ==
  /\ fails < MaxFail /\ fails' = fails + 1
  /\ pc[p] = "indexes" /\ todo[p] = {} /\ ~isNewTable(p)
  /\ NextTable(p)
  /\ UNCHANGED <<server, todo>>

RemoveFails(p, f) ==
  /\ fails < MaxFail /\ fails' = fails + 1
  /\ pc[p] = "remove" /\ f \in todo[p]
  /\ todo' = [todo EXCEPT ![p] = @ \ {f}]
  /\ UNCHANGED <<server, registered, pc, existing, at, result, alone>>

\* The process stops and starts again.
Restart(p) ==
  /\ fails < MaxFail /\ fails' = fails + 1
  /\ pc' = [pc EXCEPT ![p] = "idle"]
  /\ result' = [result EXCEPT ![p] = "none"]
  /\ registered' = [registered EXCEPT ![p] = {}]
  /\ UNCHANGED <<server, existing, at, todo, alone>>

\* A client writes to a table that is not defined: the server defines it.
EarlyWrite(t) ==
  /\ t \in EarlyWrites /\ kind[t] = NoTable
  /\ kind' = [kind EXCEPT ![t] = "plain"]
  /\ UNCHANGED <<fields, indexes, registered, pc, existing, at, todo, result, alone, fails>>

-----------------------------------------------------------------------------
Empty == /\ kind = [t \in Table |-> NoTable]
         /\ fields = [t \in Table |-> [f \in Field |-> NoField]]
         /\ indexes = [t \in Table |-> {}]

\* As a build has left it earlier.
Migrated(p) == /\ kind = Kind
               /\ fields = Model[p]
               /\ indexes = Indexed[p]

Init ==
  /\ Empty \/ \E p \in Process : Migrated(p)
  /\ registered = [p \in Process |-> {}]
  /\ pc = [p \in Process |-> "idle"]
  /\ existing = [p \in Process |-> {}]
  /\ at = [p \in Process |-> 1]
  /\ todo = [p \in Process |-> {}]
  /\ result = [p \in Process |-> "none"]
  /\ alone = [p \in Process |-> FALSE]
  /\ fails = 0

Migrates(p) ==
  \/ ListTables(p) \/ SkipTable(p) \/ CreateTable(p)
  \/ \E f \in Field : DefineField(p, f) \/ RemoveField(p, f)
  \/ FieldsDone(p)
  \/ \E i \in Index : DefineIndex(p, i)
  \/ NewTableDone(p) \/ InfoForTable(p) \/ OldTableDone(p)

Fails(p) == \/ CallFails(p) \/ InfoFails(p) \/ Restart(p)
            \/ \E f \in Field : RemoveFails(p, f)

Next == \/ \E p \in Process : Migrates(p) \/ Fails(p)
        \/ \E t \in Table : EarlyWrite(t)

Spec == Init /\ [][Next]_vars

\* A process goes on with its migration, and calls AutoMigrate again after an error.
FairSpec == Spec /\ \A p \in Process : WF_vars(Migrates(p))

-----------------------------------------------------------------------------
(***************************************************************************)
(* Properties.                                                             *)
(***************************************************************************)
\* The type invariant.
TypeOK ==
  /\ kind \in [Table -> {"relation", "full", "plain", NoTable}]
  /\ fields \in [Table -> [Field -> Type \cup {NoField}]]
  /\ indexes \in [Table -> SUBSET Index]
  /\ registered \in [Process -> SUBSET Table]
  /\ pc \in [Process -> {"idle", "table", "fields", "indexes", "remove"}]
  /\ existing \in [Process -> SUBSET Table]
  /\ at \in [Process -> 1..Len(Dst)]
  /\ todo \in [Process -> SUBSET (Field \cup Index)]
  /\ result \in [Process -> {"none", "ok", "error"}]
  /\ alone \in [Process -> BOOLEAN]
  /\ fails \in 0..MaxFail

InDst(t) == \E n \in 1..Len(Dst) : Dst[n] = t

\* A process serves once AutoMigrate has returned nil, and its callbacks write the
\* relations of a join table as edges if the registry of that process names it: it
\* must, also when another process or an earlier life created the table
\* (migrator.go:48-57).
ServesEdges ==
  \A p \in Process : result[p] = "ok" =>
    \A t \in Table : InDst(t) /\ isEdge(t) => t \in registered[p]

\* A field that all builds define alike is never missing or of another type after
\* some AutoMigrate has returned nil, while other processes migrate, fail half-way
\* and start over: redefining it does not drop it, cleaning up does not touch it,
\* and the fields of a table one run created and another found are all defined.
Shared(t, f) == \A p, q \in Process : /\ Model[p][t][f] # NoField
                                      /\ Model[p][t][f] = Model[q][t][f]

SharedFieldsDefined ==
  \A p \in Process : result[p] = "ok" =>
    \A t \in Table, f \in Field : InDst(t) /\ Shared(t, f) =>
      /\ kind[t] # NoTable
      /\ fields[t][f] = Model[p][t][f]

\* A build that migrates while no other build does gets its own schema, whatever
\* others left behind, half-done runs included; and nothing else in it, if no call
\* failed (README.md:332).
AloneIsExact ==
  \A p \in Process : result[p] = "ok" /\ alone[p] =>
    \A t \in Table : InDst(t) =>
      /\ \A f \in FieldsOf(p, t) : fields[t][f] = Model[p][t][f]
      /\ Indexed[p][t] \subseteq indexes[t]
      /\ fails = 0 => \A f \in Field \ FieldsOf(p, t) : fields[t][f] = NoField

\* Processes that retry all get AutoMigrate to return nil, also when they create
\* the same tables at the same time: DEFINE TABLE refuses all but one
\* (migrator.go:259), and the next listing finds the table.
EveryoneMigrates == \A p \in Process : <>(result[p] = "ok")
=============================================================================
