---------------------------- MODULE EdgeRegistry ----------------------------
(***************************************************************************)
(* The dialector's registry of edge tables: a sync.Map from names to the   *)
(* canonical name of an edge table, filled by AutoMigrate and CreateTable  *)
(* and read by every callback, on any goroutine.  Each Store and Load is   *)
(* atomic; RegisterEdgeTable makes two of the one, FindEdgeTable two of    *)
(* the other.                                                              *)
(*                                                                         *)
(* A table name is a stem with some number of letters "s" after it, which  *)
(* is all that the registry looks at.                                      *)
(***************************************************************************)
EXTENDS Integers

CONSTANTS Goroutine,
          Stem,
          MaxS,    \* bound: how many letters "s" a name ends in
          None,    \* "not found"
          Idle

ASSUME EdgeRegistryAssumption == /\ MaxS \in Nat
                                 /\ None \notin Stem \X (0..MaxS)

VARIABLES edgeTables, \* the sync.Map
          task,       \* what remains of each goroutine's call
          answer,     \* the last FindEdgeTable that returned, on any goroutine
          given,      \* names RegisterEdgeTable was called with
          done        \* those for which it has returned

vars == <<edgeTables, task, answer, given, done>>

Name == Stem \X (0..MaxS)

HasSuffix(n) == n[2] > 0
TrimSuffix(n) == <<n[1], n[2] - 1>>
Plural(n) == <<n[1], n[2] + 1>>

Task == [kind : {"alias", "plural"}, name : Name, seen : SUBSET Name]

\* An answered lookup: seen are the tables whose registration had returned when
\* the lookup began.
Answer == [name : Name, table : Name \cup {None}, seen : SUBSET Name]

Load(n) == IF n \in Name THEN edgeTables[n] ELSE None
Store(n, table) == edgeTables' = [edgeTables EXCEPT ![n] = table]

-----------------------------------------------------------------------------
(***************************************************************************)
(* RegisterEdgeTable: the name, then the name without its last "s".        *)
(***************************************************************************)
\* mutant: only the alias is stored.
RegisterAliasOnly(g, n) ==
  /\ task[g] = Idle /\ HasSuffix(n)
  /\ given' = given \cup {n}
  /\ task' = [task EXCEPT ![g] = [kind |-> "alias", name |-> n, seen |-> {}]]
  /\ UNCHANGED <<edgeTables, answer, done>>

Register(g, n) ==
  /\ task[g] = Idle
  /\ given' = given \cup {n}
  /\ Store(n, n)
  /\ IF HasSuffix(n)
       THEN /\ task' = [task EXCEPT ![g] = [kind |-> "alias", name |-> n, seen |-> {}]]
            /\ UNCHANGED done
       ELSE /\ done' = done \cup {n}
            /\ UNCHANGED task
  /\ UNCHANGED answer

\* mutant: the alias is stored as the canonical name.
StoreAliasBackwards(g) ==
  /\ task[g] # Idle
  /\ task[g].kind = "alias"
  /\ Store(task[g].name, TrimSuffix(task[g].name))
  /\ done' = done \cup {task[g].name}
  /\ task' = [task EXCEPT ![g] = Idle]
  /\ UNCHANGED <<answer, given>>

\* mutant: the alias stands for itself.
StoreAliasOfItself(g) ==
  /\ task[g] # Idle
  /\ task[g].kind = "alias"
  /\ Store(TrimSuffix(task[g].name), TrimSuffix(task[g].name))
  /\ done' = done \cup {task[g].name}
  /\ task' = [task EXCEPT ![g] = Idle]
  /\ UNCHANGED <<answer, given>>

StoreAlias(g) ==
  /\ task[g] # Idle
  /\ task[g].kind = "alias"
  /\ Store(TrimSuffix(task[g].name), task[g].name)
  /\ done' = done \cup {task[g].name}
  /\ task' = [task EXCEPT ![g] = Idle]
  /\ UNCHANGED <<answer, given>>

(***************************************************************************)
(* FindEdgeTable: the name, then its plural.                               *)
(***************************************************************************)
Answers(n, table, seen) == answer' = [name |-> n, table |-> table, seen |-> seen]

Find(g, n) ==
  /\ task[g] = Idle
  /\ IF Load(n) # None
       THEN Answers(n, Load(n), done) /\ UNCHANGED task
       ELSE /\ task' = [task EXCEPT ![g] = [kind |-> "plural", name |-> n, seen |-> done]]
            /\ UNCHANGED answer
  /\ UNCHANGED <<edgeTables, given, done>>

\* mutant: the plural is returned, not what is stored under it.
FindPluralBlindly(g) ==
  /\ task[g] # Idle
  /\ task[g].kind = "plural"
  /\ Answers(task[g].name, Plural(task[g].name), task[g].seen)
  /\ task' = [task EXCEPT ![g] = Idle]
  /\ UNCHANGED <<edgeTables, given, done>>

FindPlural(g) ==
  /\ task[g] # Idle
  /\ task[g].kind = "plural"
  /\ Answers(task[g].name, Load(Plural(task[g].name)), task[g].seen)
  /\ task' = [task EXCEPT ![g] = Idle]
  /\ UNCHANGED <<edgeTables, given, done>>

Init ==
  /\ edgeTables = [n \in Name |-> None]
  /\ task = [g \in Goroutine |-> Idle]
  /\ answer = None
  /\ given = {}
  /\ done = {}

Next == \E g \in Goroutine : \/ \E n \in Name : Register(g, n) \/ Find(g, n)
                             \/ StoreAlias(g)
                             \/ FindPlural(g)

Spec == Init /\ [][Next]_vars

-----------------------------------------------------------------------------
(***************************************************************************)
(* Properties.                                                             *)
(***************************************************************************)
\* The type invariant.
TypeOK ==
  /\ edgeTables \in [Name -> Name \cup {None}]
  /\ task \in [Goroutine -> Task \cup {Idle}]
  /\ answer \in Answer \cup {None}
  /\ given \subseteq Name
  /\ done \subseteq given

\* FindEdgeTable as one look at the map.
Resolve(n) == IF Load(n) # None THEN Load(n) ELSE Load(Plural(n))

\* A callback that finds no edge table treats the join table as an ordinary one,
\* and its relations become plain rows: this must not happen to a table, or to a
\* many2many tag without its last "s", once RegisterEdgeTable has returned, even
\* while other tables are being registered (dialector.go:35-44).
RegisteredIsFound ==
  answer # None /\ answer.table = None =>
    answer.name \notin answer.seen /\ Plural(answer.name) \notin answer.seen

\* A statement is never moved to a table nobody registered, nor, when its own
\* table is registered, to any but that table and its plural.
AnswersAreRegistered ==
  answer # None /\ answer.table # None =>
    LET n == answer.name
        c == answer.table
    IN /\ c \in given
       /\ c \in {n, Plural(n), Plural(Plural(n))}
       /\ n \in answer.seen => c # Plural(Plural(n))

\* When every registration has returned, a name is resolved by the set of
\* registered tables alone, in whatever order and however often they were
\* registered; only a table whose plural is an edge table as well depends on it.
Settled == given = done

ResolvesByName ==
  Settled => \A n \in Name :
    Resolve(n) \in
      CASE n \in done /\ Plural(n) \notin done -> {n}
        [] n \notin done /\ Plural(n) \in done -> {Plural(n)}
        [] n \in done /\ Plural(n) \in done    -> {n, Plural(n)}
        [] OTHER -> IF Plural(Plural(n)) \in done THEN {Plural(Plural(n))} ELSE {None}
=============================================================================
