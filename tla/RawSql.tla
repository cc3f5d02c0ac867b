------------------------------- MODULE RawSql --------------------------------
(***************************************************************************)
(* The raw SurrealQL paths, which bypass GORM's statement builder and      *)
(* always use the shared connection: surrealdb.Transaction, which collects *)
(* statements and sends them as one BEGIN ... COMMIT block, and            *)
(* db.Raw(...).Rows(), the database/sql cursor over a result.              *)
(*                                                                         *)
(* A statement sets one field of one row to a named parameter.             *)
(***************************************************************************)
EXTENDS Numbers, Sequences, FiniteSets

CONSTANTS Client,
          MaxRows,   \* bound: rows of the table
          Field,     \* columns in the order of their names: positive integers
          Value,     \* the numbers statements write
          Name,      \* parameter names the application uses
          Stmt,      \* statements the application adds
          Params,    \* their parameters: functions from names to values
          Start,     \* the tables it may find
          None,      \* no such field, NULL, no statement
          MaxStmts,  \* bound: statements of a block
          MaxReads   \* bound: queries

Key == 1..MaxRows
Names == Name \cup {<<n, k>> : n \in 0..MaxStmts, k \in Name}
Text == [key : Key, field : Field, name : Names]
Binding(names) == UNION {[ns -> Value] : ns \in SUBSET names}
Job == [text : Text, params : Binding(Name), todo : SUBSET Name]

ASSUME RawSqlAssumption ==
  /\ MaxRows \in Nat \ {0}
  /\ Stmt \subseteq [key : Key, field : Field, name : Name]
  /\ Params \subseteq Binding(Name)
  /\ Value \subseteq Number /\ None \notin Number \cup Job
  /\ \A v \in Value : v.type = "int" => Whole(v) /\ v.h \div 2 \in MinInt..MaxInt
  /\ Start \subseteq [Key -> [Field -> Value \cup {None}]]
  /\ Field \subseteq Nat \ {0}
  /\ MaxStmts \in Nat /\ MaxReads \in Nat

VARIABLES table,    \* server: the rows
          versions, \* history: the states committed
          block,    \* each client's Tx builder
          loop,     \* its Exec under way: the text, and the parameters to rename
          told,     \* how its Transaction ended
          applied,  \* server: it executed the client's block
          meant,    \* history: what each statement of the block should write
          clean,    \* history: the application used no generated name
          cursor,   \* the rows of a Query, the buffer of database/sql, what was read
          reads

vars == <<table, versions, block, loop, told, applied, meant, clean, cursor, reads>>

\* mutant: the statements share one space of names.
SharedKey(n, k) == k

\* mutant: the number of the statement never moves on.
FirstKey(n, k) == <<0, k>>

\* fmt.Sprintf("tx%d_%s", n, k)
NewKey(n, k) == <<n, k>>

Generated == {<<n, k>> : n \in 0..MaxStmts, k \in Name}

-----------------------------------------------------------------------------
(***************************************************************************)
(* Tx.Exec: the parameters are renamed one by one, in the map's order.     *)
(***************************************************************************)
Building(c) == told[c] = "building" /\ loop[c] = None
StmtCount(c) == Len(block[c].stmts)

Valued(ps, k) == IF k \in DOMAIN ps THEN ps[k] ELSE None

Exec(c, st, ps) ==
  /\ Building(c) /\ StmtCount(c) < MaxStmts
  /\ loop' = [loop EXCEPT ![c] = [text |-> st, params |-> ps, todo |-> DOMAIN ps]]
  /\ meant' = [meant EXCEPT ![c] =
                 Append(@, [key |-> st.key, field |-> st.field, value |-> Valued(ps, st.name)])]
  /\ clean' = [clean EXCEPT ![c] =
                 @ /\ (DOMAIN ps \cup {st.name}) \cap Generated = {}]
  /\ UNCHANGED <<table, versions, block, told, applied, cursor, reads>>

Renames(c, k) ==
  LET new == NewKey(StmtCount(c), k)
      job == loop[c]
  IN
  /\ job # None /\ k \in job.todo
  /\ loop' = [loop EXCEPT ![c] = [text |-> [job.text EXCEPT !.name = IF @ = k THEN new ELSE @],
                                  params |-> job.params, todo |-> job.todo \ {k}]]
  /\ block' = [block EXCEPT ![c].params =
                 [m \in DOMAIN @ \cup {new} |-> IF m = new THEN job.params[k] ELSE @[m]]]
  /\ UNCHANGED <<table, versions, told, applied, meant, clean, cursor, reads>>

Collects(c) ==
  /\ loop[c] # None /\ loop[c].todo = {}
  /\ block' = [block EXCEPT ![c].stmts = Append(@, loop[c].text)]
  /\ loop' = [loop EXCEPT ![c] = None]
  /\ UNCHANGED <<table, versions, told, applied, meant, clean, cursor, reads>>

-----------------------------------------------------------------------------
(***************************************************************************)
(* Transaction: the function returns, the block goes out as one query.     *)
(***************************************************************************)
\* The function returned an error: nothing is sent.
Abandons(c) ==
  /\ Building(c)
  /\ told' = [told EXCEPT ![c] = "abandoned"]
  /\ UNCHANGED <<table, versions, block, loop, applied, meant, clean, cursor, reads>>

\* No statement was added: nil, and nothing is sent.
Empty(c) ==
  /\ Building(c) /\ StmtCount(c) = 0
  /\ told' = [told EXCEPT ![c] = "ok"]
  /\ UNCHANGED <<table, versions, block, loop, applied, meant, clean, cursor, reads>>

\* The last statement that writes a field gives it its value.
Written(c, k, f) ==
  LET writers == {i \in 1..StmtCount(c) : /\ block[c].stmts[i].key = k
                                          /\ block[c].stmts[i].field = f}
      last == CHOOSE i \in writers : \A j \in writers : j <= i
  IN IF writers = {} THEN table[k][f] ELSE Valued(block[c].params, block[c].stmts[last].name)

\* The server executes the block as a whole.
Commits(c) ==
  /\ table' = [k \in Key |-> [f \in Field |-> Written(c, k, f)]]
  /\ versions' = versions \cup {table'}
  /\ applied' = [applied EXCEPT ![c] = @ + 1]

\* The query returned: an error, or a status for each statement, all of which
\* are looked at.  A statement that fails takes the block with it and is itself
\* marked, the others perhaps.
Sent(c) == Building(c) /\ StmtCount(c) > 0

\* mutant: only the first status is looked at.
SendsFirstOnly(c) ==
  /\ Sent(c)
  /\ \/ Commits(c) /\ \E answer \in {"ok", "lost"} : told' = [told EXCEPT ![c] = answer]
     \/ \E marked \in SUBSET (1..StmtCount(c)) :
          /\ marked # {}
          /\ told' = [told EXCEPT ![c] = IF 1 \in marked THEN "failed" ELSE "ok"]
          /\ UNCHANGED <<table, versions, applied>>
     \/ /\ told' = [told EXCEPT ![c] = "lost"]
        /\ UNCHANGED <<table, versions, applied>>
  /\ UNCHANGED <<block, loop, meant, clean, cursor, reads>>

Sends(c) ==
  /\ Sent(c)
  /\ \/ Commits(c) /\ \E answer \in {"ok", "lost"} : told' = [told EXCEPT ![c] = answer]
     \/ \E marked \in SUBSET (1..StmtCount(c)) :
          /\ marked # {}
          /\ told' = [told EXCEPT ![c] = "failed"]
          /\ UNCHANGED <<table, versions, applied>>
     \/ /\ told' = [told EXCEPT ![c] = "lost"]
        /\ UNCHANGED <<table, versions, applied>>
  /\ UNCHANGED <<block, loop, meant, clean, cursor, reads>>

-----------------------------------------------------------------------------
(***************************************************************************)
(* Rows: QueryContext takes the whole result; Next copies row after row    *)
(* into the buffer that database/sql keeps for the cursor.                 *)
(***************************************************************************)
Doc(r) == [f \in {g \in Field : r[g] # None} |-> r[f]]
Scalar == 0                       \* the column "value"
IsDoc(row) == DOMAIN row # {Scalar}
AsScalar(v) == [f \in {Scalar} |-> v]

\* Columns: the fields of the first row.
Columns(rows) == IF rows = <<>> THEN {} ELSE DOMAIN rows[1]

\* The cursor of rows, before the first Next.
Cursor(rows) == [rows |-> rows, buffer |-> [f \in Columns(rows) |-> None], kept |-> <<>>]

\* SELECT * gives documents; SELECT VALUE f gives scalars, which may be NULL;
\* RETURN of an array may have both.
Query ==
  /\ reads < MaxReads
  /\ \E shape \in [Key -> Field \cup {Scalar}] :
       cursor' = Cursor([k \in Key |-> IF shape[k] = Scalar THEN Doc(table[k])
                                       ELSE AsScalar(table[k][shape[k]])])
  /\ reads' = reads + 1
  /\ UNCHANGED <<table, versions, block, loop, told, applied, meant, clean>>

Driver(v) == IF v = None THEN None ELSE ToDriverValue(FromSDK(v))

\* mutant: a field the row does not have is passed over.
FilledSparsely(row, buffer) ==
  [f \in DOMAIN buffer |-> IF f \in DOMAIN row THEN Driver(row[f]) ELSE buffer[f]]

\* Next: a document fills every column, with nil for a field it does not have;
\* a scalar fills the first column only.
Filled(row, buffer) ==
  IF IsDoc(row) THEN [f \in DOMAIN buffer |-> IF f \in DOMAIN row THEN Driver(row[f]) ELSE None]
  ELSE [f \in DOMAIN buffer |-> IF \A g \in DOMAIN buffer : f <= g THEN Driver(row[Scalar])
                                ELSE buffer[f]]

NextRow ==
  LET i == Len(cursor.kept) + 1
      filled == Filled(cursor.rows[i], cursor.buffer)
  IN
  /\ i <= Len(cursor.rows)
  /\ cursor' = [rows |-> cursor.rows, buffer |-> filled, kept |-> Append(cursor.kept, filled)]
  /\ UNCHANGED <<table, versions, block, loop, told, applied, meant, clean, reads>>

-----------------------------------------------------------------------------
Init ==
  /\ table \in Start
  /\ versions = {table}
  /\ block = [c \in Client |-> [stmts |-> <<>>, params |-> <<>>]]
  /\ loop = [c \in Client |-> None]
  /\ told = [c \in Client |-> "building"]
  /\ applied = [c \in Client |-> 0]
  /\ meant = [c \in Client |-> <<>>]
  /\ clean = [c \in Client |-> TRUE]
  /\ cursor = Cursor(<<>>)
  /\ reads = 0

Next ==
  \/ \E c \in Client :
       \/ \E st \in Stmt, ps \in Params : Exec(c, st, ps)
       \/ \E k \in Name : Renames(c, k)
       \/ Collects(c) \/ Abandons(c) \/ Empty(c) \/ Sends(c)
  \/ Query \/ NextRow

Spec == Init /\ [][Next]_vars

-----------------------------------------------------------------------------
\* The builder, the loop of Exec and the cursor have their types.
TypeOK ==
  /\ table \in [Key -> [Field -> Value \cup {None}]]
  /\ block \in [Client -> [stmts : Seq(Text), params : Binding(Generated)]]
  /\ loop \in [Client -> Job \cup {None}]
  /\ \A c \in Client : Len(block[c].stmts) + (IF loop[c] = None THEN 0 ELSE 1) <= MaxStmts
  /\ told \in [Client -> {"building", "ok", "failed", "lost", "abandoned"}]
  /\ applied \in [Client -> Nat]
  /\ meant \in [Client -> Seq([key : Key, field : Field, value : Value \cup {None}])]
  /\ clean \in [Client -> BOOLEAN]
  /\ Len(cursor.kept) <= Len(cursor.rows)
  /\ reads \in 0..MaxReads

\* Each statement of a block writes the value of its own parameter, whatever the
\* names other statements use and in whatever order the map yields them, unless
\* the application itself uses a name of the form tx<n>_<name> (transaction.go:146).
BlockMeansItsStatements ==
  \A c \in Client : clean[c] =>
    \A i \in 1..StmtCount(c) :
      LET st == block[c].stmts[i] IN
      [key |-> st.key, field |-> st.field, value |-> Valued(block[c].params, st.name)]
        = meant[c][i]

\* Transaction returns nil only for a block that took effect, once, and an error
\* of its own or of the server's only for one that did not; a lost reply tells
\* nothing (transaction.go:211-219).
ReportIsTrue ==
  \A c \in Client :
    /\ told[c] = "ok" => applied[c] = (IF StmtCount(c) = 0 THEN 0 ELSE 1)
    /\ told[c] \in {"building", "failed", "abandoned"} => applied[c] = 0
    /\ applied[c] <= 1

\* The rows an application has read are those of one committed state, whatever
\* was committed while it read, and each under its own columns: the buffer that
\* is used again for each row never shows one document's field in another
\* (sqldriver.go:172).  A scalar among documents is the exception: it leaves all
\* but the first column as they were.
CursorShowsOneState ==
  \E t \in versions : \A i \in 1..Len(cursor.kept) :
    LET row == cursor.rows[i]
        got == cursor.kept[i]
    IN /\ IsDoc(row) => \A f \in DOMAIN got :
                          got[f] = IF f = Scalar THEN None ELSE Driver(t[i][f])
       /\ ~IsDoc(row) /\ Scalar \in DOMAIN got =>
            \E f \in Field : got[Scalar] = Driver(t[i][f])

\* An integer or decimal of the server is read back as it is, as int64, as
\* uint64 unless it is negative, or as the cursor's value, or refused with an
\* error, never cut to the word (types/numbers.go:87, sqldriver.go:231).
NumbersReadBack ==
  \A i \in 1..Len(cursor.rows) : \A f \in DOMAIN cursor.rows[i] :
    LET x == cursor.rows[i][f]
        v == FromSDK(x)
    IN x # None =>
         /\ ToDriverValue(v).h = x.h
         /\ x.type # "float" => \A n \in ToInt64(v) : n = Error \/ 2 * n = x.h
         /\ x.type # "float" /\ x.h >= 0 => \A n \in ToUint64(v) : n = Error \/ 2 * n = x.h
         /\ x.type = "int" => Error \notin ToInt64(v)
=============================================================================
