--------------------------- MODULE RawSql_proofs ----------------------------
(***************************************************************************)
(* Proofs about RawSql: types, what the statements of a block mean, what   *)
(* Transaction reports, and what a cursor shows.                           *)
(*                                                                         *)
(* That a statement keeps its value is not inductive: it also needs that   *)
(* the names of a block carry the number of their statement, and, while    *)
(* the loop of Exec runs, which of the names in the text it has replaced.  *)
(***************************************************************************)
EXTENDS RawSql, TLAPS

\* The name st has in the text of statement number n once the names of done are
\* replaced, if it was o.
NameNow(n, o, done) == IF o \in done THEN <<n, o>> ELSE o

\* The n-th statement of a block is numbered n - 1; a name that was not a
\* parameter of it is none of the block's.
Numbered(st, n) == st.name \notin Generated \/ \E k \in Name : st.name = <<n - 1, k>>

Renamed(c) == DOMAIN loop[c].params \ loop[c].todo

\* The names a block has bound: those of its statements, and those the loop has
\* replaced so far.
BoundNames(c) ==
  \A m \in DOMAIN block[c].params : \E j \in 0..StmtCount(c), k \in Name :
    /\ m = <<j, k>>
    /\ j = StmtCount(c) => loop[c] # None /\ k \in Renamed(c)

\* The text the loop works on.
TextNow(c) ==
  loop[c] # None =>
    /\ loop[c].todo \subseteq DOMAIN loop[c].params
    /\ \A k \in Renamed(c) : /\ <<StmtCount(c), k>> \in DOMAIN block[c].params
                             /\ block[c].params[<<StmtCount(c), k>>] = loop[c].params[k]
    /\ clean[c] =>
         /\ DOMAIN loop[c].params \cap Generated = {}
         /\ \E o \in Name \ Generated :
              /\ loop[c].text.name = NameNow(StmtCount(c), o, Renamed(c))
              /\ meant[c][StmtCount(c) + 1] =
                   [key |-> loop[c].text.key, field |-> loop[c].text.field,
                    value |-> Valued(loop[c].params, o)]

Means(c, i) ==
  [key |-> block[c].stmts[i].key, field |-> block[c].stmts[i].field,
   value |-> Valued(block[c].params, block[c].stmts[i].name)] = meant[c][i]

BlockOf(c) ==
  /\ Len(meant[c]) = StmtCount(c) + (IF loop[c] = None THEN 0 ELSE 1)
  /\ BoundNames(c) /\ TextNow(c)
  /\ clean[c] => \A i \in 1..StmtCount(c) : Numbered(block[c].stmts[i], i) /\ Means(c, i)

BlockInv == \A c \in Client : BlockOf(c)

ReportInv ==
  /\ ReportIsTrue
  /\ \A c \in Client : loop[c] # None => told[c] = "building"

\* The rows of a result that reads the state t.
RowOf(t, shape, k) == IF shape[k] = Scalar THEN Doc(t[k]) ELSE AsScalar(t[k][shape[k]])
ResultOf(t, shape) == [k \in Key |-> RowOf(t, shape, k)]

\* What a row that was read shows of a row of the table.
Shows(r, row, got) ==
  /\ IsDoc(row) => \A f \in DOMAIN got : got[f] = IF f = Scalar THEN None ELSE Driver(r[f])
  /\ ~IsDoc(row) /\ Scalar \in DOMAIN got => \E f \in Field : got[Scalar] = Driver(r[f])

Tables == [Key -> [Field -> Value \cup {None}]]
SqlValue == {Driver(v) : v \in Value \cup {None}}
Cols == Columns(cursor.rows)

CursorType ==
  /\ cursor = [rows |-> cursor.rows, buffer |-> cursor.buffer, kept |-> cursor.kept]
  /\ Cols \subseteq Field \cup {Scalar}
  /\ cursor.buffer \in [Cols -> SqlValue]
  /\ cursor.kept \in Seq([Cols -> SqlValue])

CursorInv ==
  /\ versions \subseteq Tables /\ table \in versions
  /\ CursorType
  /\ \E t \in versions :
       /\ \/ cursor.rows = <<>>
          \/ \E shape \in [Key -> Field \cup {Scalar}] : cursor.rows = ResultOf(t, shape)
       /\ \A i \in 1..Len(cursor.kept) : Shows(t[i], cursor.rows[i], cursor.kept[i])

IInv == TypeOK /\ BlockInv /\ ReportInv /\ CursorInv
-----------------------------------------------------------------------------
(***************************************************************************)
(* What a step leaves alone.                                               *)
(***************************************************************************)
LEMMA BlockFrame ==
  ASSUME NEW c \in Client, BlockOf(c), block'[c] = block[c], loop'[c] = loop[c],
         meant'[c] = meant[c], clean'[c] = clean[c]
  PROVE  BlockOf(c)'
<1>1. StmtCount(c)' = StmtCount(c) /\ Renamed(c)' = Renamed(c)
  BY DEF StmtCount, Renamed
<1>2. BoundNames(c)'
  BY <1>1 DEF BlockOf, BoundNames
<1>3. TextNow(c)'
  BY <1>1 DEF BlockOf, TextNow
<1>4. \A i \in 1..StmtCount(c) : Means(c, i)' <=> Means(c, i)
  BY DEF Means
<1>5. clean'[c] => \A i \in 1..StmtCount(c) : Numbered(block'[c].stmts[i], i) /\ Means(c, i)'
  BY <1>4 DEF BlockOf
<1>6. QED
  BY <1>1, <1>2, <1>3, <1>5 DEF BlockOf

LEMMA BlockUnchanged ==
  ASSUME BlockInv, UNCHANGED <<block, loop, meant, clean>>
  PROVE  BlockInv'
BY BlockFrame DEF BlockInv

LEMMA CursorFrame ==
  ASSUME CursorInv, UNCHANGED cursor, versions \subseteq versions',
         versions' \subseteq Tables, table' \in versions'
  PROVE  CursorInv'
<1>1. CursorType'
  BY DEF CursorInv, CursorType, Cols
<1>2. QED
  BY <1>1 DEF CursorInv

LEMMA CursorUnchanged ==
  ASSUME CursorInv, UNCHANGED <<cursor, versions, table>>
  PROVE  CursorInv'
BY CursorFrame DEF CursorInv

LEMMA ReportUnchanged ==
  ASSUME ReportInv, UNCHANGED <<told, applied>>,
         \A c \in Client : told[c] # "building" => StmtCount(c)' = StmtCount(c),
         \A c \in Client : loop'[c] # None => told[c] = "building"
  PROVE  ReportInv'
BY DEF ReportInv, ReportIsTrue

\* A value that a binding gives, or NULL.
LEMMA ValuedType ==
  ASSUME NEW names, NEW ps \in Binding(names), NEW k
  PROVE  Valued(ps, k) \in Value \cup {None} /\ DOMAIN ps \subseteq names
BY DEF Valued, Binding

-----------------------------------------------------------------------------
(***************************************************************************)
(* Exec.                                                                   *)
(***************************************************************************)
LEMMA ExecPreserves ==
  ASSUME IInv, NEW c \in Client, NEW st \in Stmt, NEW ps \in Params, Exec(c, st, ps)
  PROVE  IInv'
<1> DEFINE n == StmtCount(c)
           job == [text |-> st, params |-> ps, todo |-> DOMAIN ps]
           what == [key |-> st.key, field |-> st.field, value |-> Valued(ps, st.name)]
<1>1. /\ loop' = [loop EXCEPT ![c] = job]
      /\ meant' = [meant EXCEPT ![c] = Append(@, what)]
      /\ clean' = [clean EXCEPT ![c] = @ /\ (DOMAIN ps \cup {st.name}) \cap Generated = {}]
      /\ UNCHANGED <<table, versions, block, told, applied, cursor, reads>>
      /\ told[c] = "building" /\ loop[c] = None /\ n < MaxStmts
  BY DEF Exec, Building
<1>2. /\ ps \in Binding(Name) /\ DOMAIN ps \subseteq Name
      /\ Valued(ps, st.name) \in Value \cup {None}
      /\ st \in [key : Key, field : Field, name : Name]
  BY RawSqlAssumption, ValuedType
<1>3. job \in Job /\ job # None
  <2>1. st \in Text
    BY <1>2 DEF Text, Names
  <2>2. job \in Job
    BY <2>1, <1>2 DEF Job
  <2>3. QED
    BY <2>2, RawSqlAssumption
<1>4. /\ meant[c] \in Seq([key : Key, field : Field, value : Value \cup {None}])
      /\ what \in [key : Key, field : Field, value : Value \cup {None}]
      /\ n \in Nat /\ Len(meant[c]) = n
  <2>1. n \in Nat
    BY DEF IInv, TypeOK, StmtCount
  <2>2. Len(meant[c]) = n
    BY <1>1, <2>1 DEF IInv, BlockInv, BlockOf
  <2>3. meant[c] \in Seq([key : Key, field : Field, value : Value \cup {None}])
    BY DEF IInv, TypeOK
  <2>4. what \in [key : Key, field : Field, value : Value \cup {None}]
    BY <1>2
  <2>5. QED
    BY <2>1, <2>2, <2>3, <2>4
<1>5. meant'[c] = Append(meant[c], what)
  BY <1>1 DEF IInv, TypeOK
<1>6. TypeOK'
  <2>1. loop' \in [Client -> Job \cup {None}]
    BY <1>1, <1>3 DEF IInv, TypeOK
  <2>2. meant' \in [Client -> Seq([key : Key, field : Field, value : Value \cup {None}])]
    <3>1. Append(meant[c], what) \in Seq([key : Key, field : Field, value : Value \cup {None}])
      BY <1>4
    <3>2. QED
      BY <1>1, <3>1 DEF IInv, TypeOK
  <2>3. clean' \in [Client -> BOOLEAN]
    BY <1>1 DEF IInv, TypeOK
  <2>4. ASSUME NEW d \in Client
        PROVE  Len(block'[d].stmts) + (IF loop'[d] = None THEN 0 ELSE 1) <= MaxStmts
    <3>1. CASE d = c
      <4>1. loop'[d] = job /\ Len(block'[d].stmts) = n
        BY <1>1, <3>1 DEF IInv, TypeOK, StmtCount
      <4>2. QED
        BY <1>1, <1>3, <1>4, <4>1, RawSqlAssumption
    <3>2. CASE d # c
      BY <1>1, <3>2 DEF IInv, TypeOK
    <3>3. QED
      BY <3>1, <3>2
  <2>5. QED
    BY <1>1, <2>1, <2>2, <2>3, <2>4 DEF IInv, TypeOK
<1>7. BlockInv'
  <2>1. ASSUME NEW d \in Client, d # c PROVE BlockOf(d)'
    BY <1>1, <2>1, BlockFrame DEF IInv, TypeOK, BlockInv
  <2>2. StmtCount(c)' = n /\ block'[c] = block[c] /\ loop'[c] = job
    BY <1>1 DEF IInv, TypeOK, StmtCount
  <2>3. Len(meant'[c]) = n + 1 /\ meant'[c][n + 1] = what
        /\ \A i \in 1..n : meant'[c][i] = meant[c][i]
    BY <1>4, <1>5
  <2>4. clean'[c] => clean[c] /\ DOMAIN ps \cap Generated = {} /\ st.name \notin Generated
    BY <1>1 DEF IInv, TypeOK
  <2>5. Renamed(c)' = {}
    BY <2>2 DEF Renamed
  <2>6. BoundNames(c)'
    <3>1. BoundNames(c)
      BY DEF IInv, BlockInv, BlockOf
    <3>2. QED
      BY <1>1, <2>2, <3>1 DEF BoundNames
  <2>7. TextNow(c)'
    <3>1. clean'[c] => \E o \in Name \ Generated :
            /\ st.name = NameNow(n, o, {})
            /\ what = [key |-> st.key, field |-> st.field, value |-> Valued(ps, o)]
      BY <1>2, <2>4 DEF NameNow
    <3>2. QED
      BY <1>3, <2>2, <2>3, <2>4, <2>5, <3>1 DEF TextNow
  <2>8. clean'[c] => \A i \in 1..n : Numbered(block'[c].stmts[i], i) /\ Means(c, i)'
    <3>1. clean[c] => \A i \in 1..n : Numbered(block[c].stmts[i], i) /\ Means(c, i)
      BY DEF IInv, BlockInv, BlockOf
    <3>2. QED
      BY <2>2, <2>3, <2>4, <3>1 DEF Means
  <2>9. BlockOf(c)'
    BY <1>3, <2>2, <2>3, <2>6, <2>7, <2>8 DEF BlockOf
  <2>10. QED
    BY <2>1, <2>9 DEF BlockInv
<1>8. ReportInv'
  <2>1. \A d \in Client : loop'[d] # None => told[d] = "building"
    BY <1>1 DEF IInv, ReportInv, TypeOK
  <2>2. QED
    BY <1>1, <2>1, ReportUnchanged DEF IInv, StmtCount
<1>9. QED
  BY <1>1, <1>6, <1>7, <1>8, CursorUnchanged DEF IInv

LEMMA RenamesPreserves ==
  ASSUME IInv, NEW c \in Client, NEW k \in Name, Renames(c, k)
  PROVE  IInv'
<1> DEFINE n == StmtCount(c)
           job == loop[c]
           new == <<n, k>>
           job2 == [text |-> [key |-> job.text.key, field |-> job.text.field,
                              name |-> IF job.text.name = k THEN new ELSE job.text.name],
                    params |-> job.params, todo |-> job.todo \ {k}]
           ps2 == [m \in DOMAIN block[c].params \cup {new} |->
                     IF m = new THEN job.params[k] ELSE block[c].params[m]]
<1>1. job \in Job /\ job # None /\ k \in job.todo
  BY DEF Renames, IInv, TypeOK
<1>2. /\ loop' = [loop EXCEPT ![c] = job2]
      /\ block' = [block EXCEPT ![c] = [stmts |-> block[c].stmts, params |-> ps2]]
      /\ UNCHANGED <<table, versions, told, applied, meant, clean, cursor, reads>>
  <2>1. block[c] = [stmts |-> block[c].stmts, params |-> block[c].params]
    BY DEF IInv, TypeOK
  <2>2. job = [text |-> job.text, params |-> job.params, todo |-> job.todo]
        /\ job.text = [key |-> job.text.key, field |-> job.text.field, name |-> job.text.name]
    BY <1>1 DEF Job, Text
  <2>3. loop' = [loop EXCEPT ![c] = job2]
    <3>1. loop' = [loop EXCEPT ![c] = [text |-> [job.text EXCEPT !.name = IF @ = k THEN new ELSE @],
                                       params |-> job.params, todo |-> job.todo \ {k}]]
      BY DEF Renames, NewKey
    <3>2. [job.text EXCEPT !.name = IF @ = k THEN new ELSE @] = job2.text
      BY <2>2
    <3>3. QED
      BY <3>1, <3>2
  <2>4. block' = [block EXCEPT ![c] = [stmts |-> block[c].stmts, params |-> ps2]]
    <3>1. block' = [block EXCEPT ![c] = [block[c] EXCEPT !.params = ps2]]
      BY DEF Renames, NewKey, IInv, TypeOK
    <3>2. [block[c] EXCEPT !.params = ps2] = [stmts |-> block[c].stmts, params |-> ps2]
      BY <2>1
    <3>3. QED
      BY <3>1, <3>2
  <2>5. QED
    BY <2>3, <2>4 DEF Renames
<1>3. /\ block[c].stmts \in Seq(Text) /\ block[c].params \in Binding(Generated)
      /\ n \in 0..MaxStmts /\ n + 1 <= MaxStmts
  <2>1. block[c].stmts \in Seq(Text) /\ block[c].params \in Binding(Generated)
    BY DEF IInv, TypeOK
  <2>2. n \in Nat /\ n + 1 <= MaxStmts
    <3>1. Len(block[c].stmts) + (IF loop[c] = None THEN 0 ELSE 1) <= MaxStmts
      BY DEF IInv, TypeOK
    <3>2. QED
      BY <1>1, <2>1, <3>1 DEF StmtCount
  <2>3. QED
    BY <2>1, <2>2, RawSqlAssumption
<1>4. /\ TextNow(c) /\ BoundNames(c) /\ k \in DOMAIN job.params
      /\ job.params \in Binding(Name) /\ job.params[k] \in Value
  <2>1. TextNow(c) /\ BoundNames(c)
    BY DEF IInv, BlockInv, BlockOf
  <2>2. job.params \in Binding(Name)
    BY <1>1 DEF Job
  <2>3. k \in DOMAIN job.params
    BY <1>1, <2>1 DEF TextNow
  <2>4. QED
    BY <2>1, <2>2, <2>3 DEF Binding
<1>5. new \in Generated
  BY <1>3 DEF Generated
<1>6. ps2 \in Binding(Generated)
  <2>1. PICK D \in SUBSET Generated : block[c].params \in [D -> Value]
    BY <1>3 DEF Binding
  <2>2. ps2 \in [D \cup {new} -> Value] /\ D \cup {new} \in SUBSET Generated
    BY <2>1, <1>4, <1>5
  <2>3. QED
    BY <2>2 DEF Binding
<1>7. job2 \in Job /\ job2 # None
  <2>1. new \in Names /\ job.text \in Text /\ job.todo \in SUBSET Name
    BY <1>1, <1>3 DEF Names, Job
  <2>2. job2.text \in Text
    BY <2>1 DEF Text
  <2>3. job2 \in Job
    BY <2>1, <2>2, <1>4 DEF Job
  <2>4. QED
    BY <2>3, RawSqlAssumption
<1>8. /\ block'[c].stmts = block[c].stmts /\ block'[c].params = ps2 /\ loop'[c] = job2
      /\ StmtCount(c)' = n
  BY <1>2 DEF IInv, TypeOK, StmtCount
<1>9. TypeOK'
  <2>1. loop' \in [Client -> Job \cup {None}]
    BY <1>2, <1>7 DEF IInv, TypeOK
  <2>2. block' \in [Client -> [stmts : Seq(Text), params : Binding(Generated)]]
    BY <1>2, <1>3, <1>6 DEF IInv, TypeOK
  <2>3. ASSUME NEW d \in Client
        PROVE  Len(block'[d].stmts) + (IF loop'[d] = None THEN 0 ELSE 1) <= MaxStmts
    <3>1. CASE d = c
      BY <1>3, <1>7, <1>8, <3>1 DEF StmtCount
    <3>2. CASE d # c
      BY <1>2, <3>2 DEF IInv, TypeOK
    <3>3. QED
      BY <3>1, <3>2
  <2>4. QED
    BY <1>2, <2>1, <2>2, <2>3 DEF IInv, TypeOK
<1>10. BlockInv'
  <2>1. ASSUME NEW d \in Client, d # c PROVE BlockOf(d)'
    BY <1>2, <2>1, BlockFrame DEF IInv, TypeOK, BlockInv
  <2>2. Renamed(c)' = Renamed(c) \cup {k}
    BY <1>1, <1>4, <1>8 DEF Renamed
  <2>3. DOMAIN ps2 = DOMAIN block[c].params \cup {new} /\ ps2[new] = job.params[k]
        /\ \A m \in DOMAIN block[c].params : m # new => ps2[m] = block[c].params[m]
    OBVIOUS
  <2>4. BoundNames(c)'
    <3>1. SUFFICES ASSUME NEW m \in DOMAIN ps2
                   PROVE  \E j \in 0..n, k2 \in Name :
                            /\ m = <<j, k2>>
                            /\ j = n => k2 \in Renamed(c) \cup {k}
      BY <1>7, <1>8, <2>2 DEF BoundNames
    <3>2. CASE m = new
      <4>1. n \in 0..n
        BY <1>3
      <4>2. QED
        BY <4>1, <3>2
    <3>3. CASE m # new
      BY <1>4, <2>3, <3>1, <3>3 DEF BoundNames
    <3>4. QED
      BY <3>2, <3>3
  <2>5. TextNow(c)'
    <3>1. job2.todo \subseteq DOMAIN job2.params
      BY <1>1, <1>4 DEF TextNow
    <3>2. ASSUME NEW k2 \in Renamed(c) \cup {k}
          PROVE  <<n, k2>> \in DOMAIN ps2 /\ ps2[<<n, k2>>] = job.params[k2]
      <4>1. CASE k2 = k
        BY <2>3, <4>1
      <4>2. CASE k2 # k
        <5>1. <<n, k2>> # new
          BY <4>2
        <5>2. /\ <<n, k2>> \in DOMAIN block[c].params
              /\ block[c].params[<<n, k2>>] = job.params[k2]
          BY <1>1, <1>4, <3>2, <4>2 DEF TextNow
        <5>3. QED
          BY <2>3, <5>1, <5>2
      <4>3. QED
        BY <4>1, <4>2
    <3>3. ASSUME clean[c]
          PROVE  /\ DOMAIN job.params \cap Generated = {}
                 /\ \E o \in Name \ Generated :
                      /\ job2.text.name = NameNow(n, o, Renamed(c) \cup {k})
                      /\ meant[c][n + 1] = [key |-> job.text.key, field |-> job.text.field,
                                            value |-> Valued(job.params, o)]
      <4>1. DOMAIN job.params \cap Generated = {}
        BY <1>1, <1>4, <3>3 DEF TextNow
      <4>2. PICK o \in Name \ Generated :
              /\ job.text.name = NameNow(n, o, Renamed(c))
              /\ meant[c][n + 1] = [key |-> job.text.key, field |-> job.text.field,
                                    value |-> Valued(job.params, o)]
        BY <1>1, <1>4, <3>3 DEF TextNow
      <4>3. k \notin Generated /\ k \notin Renamed(c)
        BY <1>1, <1>4, <4>1 DEF Renamed
      <4>4. job2.text.name = NameNow(n, o, Renamed(c) \cup {k})
        <5>1. CASE o = k
          BY <4>2, <4>3, <5>1 DEF NameNow
        <5>2. CASE o # k
          <6>1. <<n, o>> \in Generated
            BY <1>3 DEF Generated
          <6>2. job.text.name # k
            BY <4>2, <4>3, <5>2, <6>1 DEF NameNow
          <6>3. QED
            BY <4>2, <5>2, <6>2 DEF NameNow
        <5>3. QED
          BY <5>1, <5>2
      <4>5. QED
        BY <4>1, <4>2, <4>4
    <3>4. /\ job2.params = job.params /\ job2.text.key = job.text.key
          /\ job2.text.field = job.text.field
      OBVIOUS
    <3>5. meant' = meant /\ clean' = clean
      BY <1>2
    <3>6. loop'[c].todo \subseteq DOMAIN loop'[c].params
      BY <1>8, <3>1
    <3>7. \A k2 \in Renamed(c)' : /\ <<n, k2>> \in DOMAIN block'[c].params
                                  /\ block'[c].params[<<n, k2>>] = loop'[c].params[k2]
      BY <1>8, <2>2, <3>2, <3>4
    <3>8. clean'[c] =>
            /\ DOMAIN loop'[c].params \cap Generated = {}
            /\ \E o \in Name \ Generated :
                 /\ loop'[c].text.name = NameNow(n, o, Renamed(c)')
                 /\ meant'[c][n + 1] =
                      [key |-> loop'[c].text.key, field |-> loop'[c].text.field,
                       value |-> Valued(loop'[c].params, o)]
      <4>1. SUFFICES ASSUME clean[c]
                     PROVE  /\ DOMAIN job2.params \cap Generated = {}
                            /\ \E o \in Name \ Generated :
                                 /\ job2.text.name = NameNow(n, o, Renamed(c) \cup {k})
                                 /\ meant[c][n + 1] =
                                      [key |-> job2.text.key, field |-> job2.text.field,
                                       value |-> Valued(job2.params, o)]
        BY <1>8, <2>2, <3>5
      <4>2. PICK o \in Name \ Generated :
              /\ job2.text.name = NameNow(n, o, Renamed(c) \cup {k})
              /\ meant[c][n + 1] = [key |-> job.text.key, field |-> job.text.field,
                                    value |-> Valued(job.params, o)]
        BY <3>3, <4>1
      <4>3. DOMAIN job2.params \cap Generated = {}
        BY <3>3, <3>4, <4>1
      <4>4. QED
        BY <3>4, <4>2, <4>3
    <3>9. QED
      BY <1>8, <3>6, <3>7, <3>8 DEF TextNow
  <2>6. ASSUME clean[c], NEW i \in 1..n
        PROVE  Numbered(block'[c].stmts[i], i) /\ Means(c, i)'
    <3>1. Numbered(block[c].stmts[i], i) /\ Means(c, i)
      BY <2>6 DEF IInv, BlockInv, BlockOf
    <3>2. block[c].stmts[i].name # new
      <4>1. i - 1 # n
        BY <1>3
      <4>2. QED
        BY <3>1, <4>1, <1>5 DEF Numbered
    <3>3. Valued(ps2, block[c].stmts[i].name) = Valued(block[c].params, block[c].stmts[i].name)
      BY <2>3, <3>2 DEF Valued
    <3>4. meant'[c] = meant[c]
      BY <1>2
    <3>5. QED
      BY <1>8, <3>1, <3>3, <3>4 DEF Means
  <2>7. Len(meant'[c]) = n + 1
    BY <1>1, <1>2 DEF IInv, BlockInv, BlockOf
  <2>8. BlockOf(c)'
    BY <1>2, <1>7, <1>8, <2>4, <2>5, <2>6, <2>7 DEF BlockOf
  <2>9. QED
    BY <2>1, <2>8 DEF BlockInv
<1>11. ReportInv'
  <2>1. told[c] = "building"
    BY <1>1 DEF IInv, ReportInv
  <2>2. \A d \in Client : loop'[d] # None => told[d] = "building"
    BY <1>2, <2>1 DEF IInv, ReportInv, TypeOK
  <2>3. \A d \in Client : StmtCount(d)' = StmtCount(d)
    BY <1>2 DEF StmtCount, IInv, TypeOK
  <2>4. QED
    BY <1>2, <2>2, <2>3, ReportUnchanged DEF IInv
<1>12. QED
  BY <1>2, <1>9, <1>10, <1>11, CursorUnchanged DEF IInv
-----------------------------------------------------------------------------
LEMMA CollectsPreserves ==
  ASSUME IInv, NEW c \in Client, Collects(c)
  PROVE  IInv'
<1> DEFINE n == StmtCount(c)
           job == loop[c]
           stmts2 == Append(block[c].stmts, job.text)
<1>1. job \in Job /\ job # None /\ job.todo = {}
  BY DEF Collects, IInv, TypeOK
<1>2. /\ loop' = [loop EXCEPT ![c] = None]
      /\ block' = [block EXCEPT ![c] = [stmts |-> stmts2, params |-> block[c].params]]
      /\ UNCHANGED <<table, versions, told, applied, meant, clean, cursor, reads>>
  <2>1. block[c] = [stmts |-> block[c].stmts, params |-> block[c].params]
    BY DEF IInv, TypeOK
  <2>2. block' = [block EXCEPT ![c] = [block[c] EXCEPT !.stmts = stmts2]]
    BY DEF Collects, IInv, TypeOK
  <2>3. \A x : [block[c] EXCEPT !.stmts = x] = [stmts |-> x, params |-> block[c].params]
    BY <2>1
  <2>4. QED
    BY <2>2, <2>3 DEF Collects
<1>3. /\ block[c].stmts \in Seq(Text) /\ block[c].params \in Binding(Generated)
      /\ n \in Nat /\ n = Len(block[c].stmts) /\ n + 1 <= MaxStmts /\ job.text \in Text
  <2>1. block[c].stmts \in Seq(Text) /\ block[c].params \in Binding(Generated)
    BY DEF IInv, TypeOK
  <2>2. Len(block[c].stmts) + (IF loop[c] = None THEN 0 ELSE 1) <= MaxStmts
    BY DEF IInv, TypeOK
  <2>3. job.text \in Text
    BY <1>1 DEF Job
  <2>4. QED
    BY <1>1, <2>1, <2>2, <2>3 DEF StmtCount
<1>4. /\ stmts2 \in Seq(Text) /\ Len(stmts2) = n + 1 /\ stmts2[n + 1] = job.text
      /\ \A i \in 1..n : stmts2[i] = block[c].stmts[i]
  BY <1>3
<1>5. /\ block'[c].stmts = stmts2 /\ block'[c].params = block[c].params /\ loop'[c] = None
      /\ StmtCount(c)' = n + 1
  BY <1>2, <1>4 DEF IInv, TypeOK, StmtCount
<1>6. TypeOK'
  <2>1. loop' \in [Client -> Job \cup {None}]
    BY <1>2 DEF IInv, TypeOK
  <2>2. block' \in [Client -> [stmts : Seq(Text), params : Binding(Generated)]]
    BY <1>2, <1>3, <1>4 DEF IInv, TypeOK
  <2>3. ASSUME NEW d \in Client
        PROVE  Len(block'[d].stmts) + (IF loop'[d] = None THEN 0 ELSE 1) <= MaxStmts
    <3>1. CASE d = c
      BY <1>3, <1>4, <1>5, <3>1
    <3>2. CASE d # c
      BY <1>2, <3>2 DEF IInv, TypeOK
    <3>3. QED
      BY <3>1, <3>2
  <2>4. QED
    BY <1>2, <2>1, <2>2, <2>3 DEF IInv, TypeOK
<1>7. BlockInv'
  <2>1. ASSUME NEW d \in Client, d # c PROVE BlockOf(d)'
    BY <1>2, <2>1, BlockFrame DEF IInv, TypeOK, BlockInv
  <2>2. BlockOf(c)
    BY DEF IInv, BlockInv
  <2>3. Renamed(c) = DOMAIN job.params
    BY <1>1 DEF Renamed
  <2>4. BoundNames(c)'
    <3>1. SUFFICES ASSUME NEW m \in DOMAIN block[c].params
                   PROVE  \E j \in 0..(n + 1), k \in Name : m = <<j, k>> /\ j # n + 1
      BY <1>5 DEF BoundNames
    <3>2. PICK j \in 0..n, k \in Name : m = <<j, k>>
      BY <2>2, <3>1 DEF BlockOf, BoundNames
    <3>3. j \in 0..(n + 1) /\ j # n + 1
      BY <1>3
    <3>4. QED
      BY <3>2, <3>3
  <2>5. TextNow(c)'
    BY <1>5 DEF TextNow
  <2>6. ASSUME clean[c], NEW i \in 1..n
        PROVE  Numbered(stmts2[i], i) /\ Means(c, i)'
    <3>1. Numbered(block[c].stmts[i], i) /\ Means(c, i)
      BY <2>2, <2>6 DEF BlockOf
    <3>2. QED
      BY <1>2, <1>4, <1>5, <3>1 DEF Means
  <2>7. ASSUME clean[c], NEW i, i = n + 1
        PROVE  Numbered(stmts2[i], i) /\ Means(c, i)'
    <3>1. PICK o \in Name \ Generated :
            /\ job.text.name = NameNow(n, o, DOMAIN job.params)
            /\ meant[c][n + 1] = [key |-> job.text.key, field |-> job.text.field,
                                  value |-> Valued(job.params, o)]
      BY <1>1, <2>2, <2>3, <2>7 DEF BlockOf, TextNow
    <3>2. i - 1 = n /\ stmts2[i] = job.text /\ meant[c][i] = meant[c][n + 1]
      BY <1>3, <1>4, <2>7
    <3>3. Numbered(job.text, i)
      BY <3>1, <3>2 DEF Numbered, NameNow
    <3>4. Valued(block[c].params, job.text.name) = Valued(job.params, o)
      <4>1. CASE o \in DOMAIN job.params
        <5>1. job.text.name = <<n, o>>
          BY <3>1, <4>1 DEF NameNow
        <5>2. <<n, o>> \in DOMAIN block[c].params /\ block[c].params[<<n, o>>] = job.params[o]
          BY <1>1, <2>2, <2>3, <4>1 DEF BlockOf, TextNow
        <5>3. QED
          BY <4>1, <5>1, <5>2 DEF Valued
      <4>2. CASE o \notin DOMAIN job.params
        <5>1. job.text.name = o
          BY <3>1, <4>2 DEF NameNow
        <5>2. o \notin DOMAIN block[c].params
          BY <1>3, ValuedType
        <5>3. QED
          BY <4>2, <5>1, <5>2 DEF Valued
      <4>3. QED
        BY <4>1, <4>2
    <3>5. Means(c, i)'
      BY <1>2, <1>5, <3>1, <3>2, <3>4 DEF Means
    <3>6. QED
      BY <3>2, <3>3, <3>5
  <2>8. ASSUME clean[c], NEW i \in 1..(n + 1)
        PROVE  Numbered(stmts2[i], i) /\ Means(c, i)'
    <3>1. CASE i \in 1..n
      BY <2>6, <2>8, <3>1
    <3>2. CASE i = n + 1
      BY <2>7, <2>8, <3>2
    <3>3. QED
      BY <1>3, <3>1, <3>2
  <2>9. Len(meant'[c]) = n + 1
    BY <1>1, <1>2, <2>2 DEF BlockOf
  <2>10. clean'[c] => \A i \in 1..(n + 1) : Numbered(block'[c].stmts[i], i) /\ Means(c, i)'
    BY <1>2, <1>5, <2>8
  <2>11. Len(meant'[c]) = (n + 1) + (IF loop'[c] = None THEN 0 ELSE 1)
    BY <1>3, <1>5, <2>9
  <2>12. BlockOf(c)'
    BY <1>5, <2>4, <2>5, <2>10, <2>11 DEF BlockOf
  <2>13. QED
    BY <2>1, <2>12 DEF BlockInv
<1>8. ReportInv'
  <2>1. \A d \in Client : loop'[d] # None => told[d] = "building"
    BY <1>2 DEF IInv, ReportInv, TypeOK
  <2>2. told[c] = "building"
    BY <1>1 DEF IInv, ReportInv
  <2>3. \A d \in Client : told[d] # "building" => StmtCount(d)' = StmtCount(d)
    BY <1>2, <2>2 DEF StmtCount, IInv, TypeOK
  <2>4. QED
    BY <1>2, <2>1, <2>3, ReportUnchanged DEF IInv
<1>9. QED
  BY <1>2, <1>6, <1>7, <1>8, CursorUnchanged DEF IInv

-----------------------------------------------------------------------------
(***************************************************************************)
(* The end of a Transaction.                                               *)
(***************************************************************************)
LEMMA TypeFrame ==
  ASSUME TypeOK, UNCHANGED <<block, loop, meant, clean, cursor, reads>>, table' \in Tables,
         told' \in [Client -> {"building", "ok", "failed", "lost", "abandoned"}],
         applied' \in [Client -> Nat]
  PROVE  TypeOK'
BY DEF TypeOK, Tables

\* A Transaction that tells its end without the server: it was building, and no
\* block of it took effect.
LEMMA EndPreserves ==
  ASSUME IInv, NEW c \in Client, Building(c), NEW end \in {"ok", "abandoned", "failed", "lost"},
         told' = [told EXCEPT ![c] = end], end = "ok" => StmtCount(c) = 0,
         UNCHANGED <<table, versions, block, loop, applied, meant, clean, cursor, reads>>
  PROVE  IInv'
<1>1. told[c] = "building" /\ loop[c] = None /\ applied[c] = 0
  BY DEF Building, IInv, ReportInv, ReportIsTrue
<1>2. TypeOK'
  BY TypeFrame DEF IInv, TypeOK, Tables
<1>3. ReportInv'
  <2>1. told'[c] = end /\ \A d \in Client \ {c} : told'[d] = told[d]
    BY DEF IInv, TypeOK
  <2>2. \A d \in Client : StmtCount(d)' = StmtCount(d)
    BY DEF StmtCount
  <2>3. ReportIsTrue'
    BY <1>1, <2>1, <2>2 DEF IInv, ReportInv, ReportIsTrue
  <2>4. QED
    BY <1>1, <2>1, <2>3 DEF IInv, ReportInv
<1>4. QED
  BY <1>2, <1>3, BlockUnchanged, CursorUnchanged DEF IInv

\* The server executed the block: its table is still one, and the block is counted.
LEMMA CommitPreserves ==
  ASSUME IInv, NEW c \in Client, Sent(c), Commits(c), NEW end \in {"ok", "lost"},
         told' = [told EXCEPT ![c] = end],
         UNCHANGED <<block, loop, meant, clean, cursor, reads>>
  PROVE  IInv'
<1>1. told[c] = "building" /\ loop[c] = None /\ applied[c] = 0 /\ StmtCount(c) > 0
  BY DEF Sent, Building, IInv, ReportInv, ReportIsTrue
<1>2. table \in Tables /\ block[c].params \in Binding(Generated)
  BY DEF IInv, TypeOK, Tables
<1>3. table' \in Tables
  <2>1. ASSUME NEW k \in Key, NEW f \in Field PROVE Written(c, k, f) \in Value \cup {None}
    <3>1. \A m : Valued(block[c].params, m) \in Value \cup {None}
      BY <1>2, ValuedType
    <3>2. table[k][f] \in Value \cup {None}
      BY <1>2 DEF Tables
    <3>3. QED
      BY <3>1, <3>2 DEF Written
  <2>2. table' = [k \in Key |-> [f \in Field |-> Written(c, k, f)]]
    BY DEF Commits
  <2>3. QED
    BY <2>1, <2>2 DEF Tables
<1>4. /\ applied' = [applied EXCEPT ![c] = 1] /\ applied' \in [Client -> Nat]
      /\ told' \in [Client -> {"building", "ok", "failed", "lost", "abandoned"}]
  BY <1>1 DEF Commits, IInv, TypeOK
<1>5. TypeOK'
  BY <1>3, <1>4, TypeFrame DEF IInv
<1>6. ReportInv'
  <2>1. /\ told'[c] = end /\ applied'[c] = 1
        /\ \A d \in Client \ {c} : told'[d] = told[d] /\ applied'[d] = applied[d]
    BY <1>4 DEF IInv, TypeOK
  <2>2. \A d \in Client : StmtCount(d)' = StmtCount(d)
    BY DEF StmtCount
  <2>3. ReportIsTrue'
    <3>1. StmtCount(c) # 0
      BY <1>1
    <3>2. QED
      BY <2>1, <2>2, <3>1 DEF IInv, ReportInv, ReportIsTrue
  <2>4. QED
    BY <1>1, <2>1, <2>3 DEF IInv, ReportInv
<1>7. CursorInv'
  <2>1. versions' = versions \cup {table'} /\ versions \subseteq Tables
    BY DEF Commits, IInv, CursorInv
  <2>2. QED
    BY <1>3, <2>1, CursorFrame DEF IInv
<1>8. QED
  BY <1>5, <1>6, <1>7, BlockUnchanged DEF IInv

LEMMA SendsPreserves ==
  ASSUME IInv, NEW c \in Client, Sends(c)
  PROVE  IInv'
<1>1. Sent(c) /\ Building(c) /\ UNCHANGED <<block, loop, meant, clean, cursor, reads>>
  BY DEF Sends, Sent
<1>2. CASE Commits(c) /\ \E answer \in {"ok", "lost"} : told' = [told EXCEPT ![c] = answer]
  BY <1>1, <1>2, CommitPreserves
<1>3. CASE /\ \E end \in {"failed", "lost"} : told' = [told EXCEPT ![c] = end]
           /\ UNCHANGED <<table, versions, applied>>
  BY <1>1, <1>3, EndPreserves
<1>4. QED
  BY <1>2, <1>3 DEF Sends

-----------------------------------------------------------------------------
(***************************************************************************)
(* The cursor.                                                             *)
(***************************************************************************)
LEMMA ResultIsSeq ==
  ASSUME NEW t, NEW shape
  PROVE  Len(ResultOf(t, shape)) = MaxRows /\ ResultOf(t, shape) # <<>>
<1> DEFINE S == {RowOf(t, shape, k) : k \in Key}
<1>1. ResultOf(t, shape) \in [1..MaxRows -> S] /\ MaxRows \in Nat /\ MaxRows > 0
  BY RawSqlAssumption DEF ResultOf, Key
<1>2. ResultOf(t, shape) \in Seq(S) /\ Len(ResultOf(t, shape)) = MaxRows
  BY <1>1
<1>3. QED
  BY <1>1, <1>2

\* A row of a result: its columns, and what they hold.
LEMMA RowShape ==
  ASSUME NEW t \in Tables, NEW shape \in [Key -> Field \cup {Scalar}], NEW k \in Key,
         NEW row, row = RowOf(t, shape, k)
  PROVE  /\ DOMAIN row \subseteq Field \cup {Scalar}
         /\ \A f \in DOMAIN row : row[f] \in Value \cup {None}
         /\ IsDoc(row) => \A f : f \in DOMAIN row <=> f \in Field /\ t[k][f] # None
         /\ IsDoc(row) => \A f \in DOMAIN row : row[f] = t[k][f]
         /\ ~IsDoc(row) => \E f \in Field : Scalar \in DOMAIN row /\ row[Scalar] = t[k][f]
<1>1. t[k] \in [Field -> Value \cup {None}] /\ Scalar \notin Field
  BY RawSqlAssumption DEF Tables, Scalar
<1>2. CASE shape[k] = Scalar
  <2>1. row = Doc(t[k])
    BY <1>2 DEF RowOf
  <2>2. /\ DOMAIN row = {g \in Field : t[k][g] # None}
        /\ \A f \in DOMAIN row : row[f] = t[k][f]
    BY <2>1 DEF Doc
  <2>3. IsDoc(row)
    BY <1>1, <2>2 DEF IsDoc
  <2>4. QED
    BY <1>1, <2>2, <2>3
<1>3. CASE shape[k] # Scalar
  <2>1. row = AsScalar(t[k][shape[k]]) /\ shape[k] \in Field
    BY <1>3 DEF RowOf
  <2>2. DOMAIN row = {Scalar} /\ row[Scalar] = t[k][shape[k]]
    BY <2>1 DEF AsScalar
  <2>3. ~IsDoc(row)
    BY <2>2 DEF IsDoc
  <2>4. QED
    BY <1>1, <2>1, <2>2, <2>3
<1>4. QED
  BY <1>2, <1>3

LEMMA NullIsSqlValue == None \in SqlValue /\ Driver(None) = None
BY DEF SqlValue, Driver

LEMMA QueryPreserves ==
  ASSUME IInv, Query
  PROVE  IInv'
<1>1. PICK shape \in [Key -> Field \cup {Scalar}] : cursor' = Cursor(ResultOf(table, shape))
  BY DEF Query, ResultOf, RowOf
<1>2. UNCHANGED <<table, versions, block, loop, told, applied, meant, clean>>
      /\ reads' = reads + 1 /\ reads < MaxReads
  BY DEF Query
<1>3. /\ cursor'.rows = ResultOf(table, shape)
      /\ cursor'.buffer = [f \in Columns(ResultOf(table, shape)) |-> None]
      /\ cursor'.kept = <<>>
      /\ cursor' = [rows |-> cursor'.rows, buffer |-> cursor'.buffer, kept |-> cursor'.kept]
  BY <1>1 DEF Cursor
<1>4. table \in Tables /\ table \in versions /\ versions \subseteq Tables
  BY DEF IInv, CursorInv
<1>5. TypeOK'
  <2>1. Len(cursor'.kept) <= Len(cursor'.rows)
    BY <1>3, ResultIsSeq, RawSqlAssumption
  <2>2. reads' \in 0..MaxReads
    BY <1>2, RawSqlAssumption DEF IInv, TypeOK
  <2>3. QED
    BY <1>2, <2>1, <2>2 DEF IInv, TypeOK
<1>6. ReportInv'
  <2>1. \A d \in Client : StmtCount(d)' = StmtCount(d)
    BY <1>2 DEF StmtCount
  <2>2. QED
    BY <1>2, <2>1, ReportUnchanged DEF IInv, ReportInv
<1>7. Columns(ResultOf(table, shape)) \subseteq Field \cup {Scalar}
  <2>1. 1 \in Key
    BY RawSqlAssumption DEF Key
  <2>2. ResultOf(table, shape)[1] = RowOf(table, shape, 1)
    BY <2>1 DEF ResultOf
  <2>3. DOMAIN RowOf(table, shape, 1) \subseteq Field \cup {Scalar}
    BY <1>4, <2>1, RowShape
  <2>4. QED
    BY <2>2, <2>3 DEF Columns
<1>8. CursorType'
  <2>1. Cols' = Columns(ResultOf(table, shape))
    BY <1>3 DEF Cols
  <2>2. cursor'.buffer \in [Columns(ResultOf(table, shape)) -> SqlValue]
    BY <1>3, NullIsSqlValue
  <2>3. cursor'.kept \in Seq([Columns(ResultOf(table, shape)) -> SqlValue])
    BY <1>3
  <2>4. QED
    BY <1>3, <1>7, <2>1, <2>2, <2>3 DEF CursorType
<1>9. CursorInv'
  <2>1. \A i \in 1..Len(cursor'.kept) : FALSE
    BY <1>3
  <2>2. QED
    BY <1>2, <1>3, <1>4, <1>8, <2>1 DEF CursorInv
<1>10. QED
  BY <1>2, <1>5, <1>6, <1>9, BlockUnchanged DEF IInv

LEMMA FilledShows ==
  ASSUME NEW t \in Tables, NEW shape \in [Key -> Field \cup {Scalar}], NEW k \in Key,
         NEW row, row = RowOf(t, shape, k),
         NEW cols \in SUBSET (Field \cup {Scalar}), NEW buffer \in [cols -> SqlValue]
  PROVE  Filled(row, buffer) \in [cols -> SqlValue] /\ Shows(t[k], row, Filled(row, buffer))
<1>1. \A f \in DOMAIN row : Driver(row[f]) \in SqlValue
  BY RowShape DEF SqlValue
<1>2. DOMAIN buffer = cols /\ \A f \in cols : buffer[f] \in SqlValue
  OBVIOUS
<1>3. CASE IsDoc(row)
  <2>1. Filled(row, buffer) = [f \in cols |-> IF f \in DOMAIN row THEN Driver(row[f]) ELSE None]
    BY <1>2, <1>3 DEF Filled
  <2>2. Filled(row, buffer) \in [cols -> SqlValue]
    BY <1>1, <2>1, NullIsSqlValue
  <2>3. ASSUME NEW f \in cols
        PROVE  Filled(row, buffer)[f] = IF f = Scalar THEN None ELSE Driver(t[k][f])
    <3>1. \A g : g \in DOMAIN row <=> g \in Field /\ t[k][g] # None
      BY <1>3, RowShape
    <3>2. Scalar \notin Field
      BY RawSqlAssumption DEF Scalar
    <3>3. \A g \in DOMAIN row : row[g] = t[k][g]
      BY <1>3, RowShape
    <3>4. QED
      BY <2>1, <3>1, <3>2, <3>3, NullIsSqlValue
  <2>4. DOMAIN Filled(row, buffer) = cols
    BY <2>1
  <2>5. QED
    <3>1. \A f \in DOMAIN Filled(row, buffer) :
            Filled(row, buffer)[f] = IF f = Scalar THEN None ELSE Driver(t[k][f])
      BY <2>3, <2>4
    <3>2. Shows(t[k], row, Filled(row, buffer))
      BY <1>3, <3>1, Zenon DEF Shows
    <3>3. QED
      BY <2>2, <3>2
<1>4. CASE ~IsDoc(row)
  <2>1. PICK g \in Field : Scalar \in DOMAIN row /\ row[Scalar] = t[k][g]
    BY <1>4, RowShape
  <2>2. Filled(row, buffer) = [f \in cols |-> IF \A h \in cols : f <= h THEN Driver(row[Scalar])
                                              ELSE buffer[f]]
    BY <1>2, <1>4 DEF Filled
  <2>3. Filled(row, buffer) \in [cols -> SqlValue]
    BY <1>1, <1>2, <2>1, <2>2
  <2>4. Scalar \in cols => Filled(row, buffer)[Scalar] = Driver(t[k][g])
    <3>1. \A h \in cols : Scalar <= h
      BY RawSqlAssumption DEF Scalar
    <3>2. QED
      BY <2>1, <2>2, <3>1
  <2>5. DOMAIN Filled(row, buffer) = cols
    BY <2>2
  <2>6. QED
    BY <1>4, <2>3, <2>4, <2>5 DEF Shows
<1>5. QED
  BY <1>3, <1>4

LEMMA NextRowPreserves ==
  ASSUME IInv, NextRow
  PROVE  IInv'
<1> DEFINE rows == cursor.rows
           kept == cursor.kept
           i == Len(kept) + 1
           filled == Filled(rows[i], cursor.buffer)
           kept2 == Append(kept, filled)
<1>1. CursorType /\ versions \subseteq Tables /\ table \in versions
  BY DEF IInv, CursorInv
<1>2. /\ i <= Len(rows)
      /\ cursor' = [rows |-> rows, buffer |-> filled, kept |-> kept2]
      /\ UNCHANGED <<table, versions, block, loop, told, applied, meant, clean, reads>>
  BY DEF NextRow
<1>3. kept \in Seq([Cols -> SqlValue]) /\ Len(kept) \in Nat
  BY <1>1 DEF CursorType
<1>4. PICK t \in versions :
        /\ \/ rows = <<>>
           \/ \E shape \in [Key -> Field \cup {Scalar}] : rows = ResultOf(t, shape)
        /\ \A j \in 1..Len(kept) : Shows(t[j], rows[j], kept[j])
  BY DEF IInv, CursorInv
<1>5. PICK shape \in [Key -> Field \cup {Scalar}] : rows = ResultOf(t, shape)
  BY <1>2, <1>3, <1>4
<1>6. i \in Key
  BY <1>2, <1>3, <1>5, ResultIsSeq, RawSqlAssumption DEF Key
<1>7. filled \in [Cols -> SqlValue] /\ Shows(t[i], rows[i], filled)
  <2>1. rows[i] = RowOf(t, shape, i)
    BY <1>5, <1>6 DEF ResultOf
  <2>2. t \in Tables /\ Cols \in SUBSET (Field \cup {Scalar}) /\ cursor.buffer \in [Cols -> SqlValue]
    BY <1>1, <1>4 DEF CursorType
  <2>3. QED
    BY <1>6, <2>1, <2>2, FilledShows
<1>8. /\ kept2 \in Seq([Cols -> SqlValue]) /\ Len(kept2) = i /\ kept2[i] = filled
      /\ \A j \in 1..Len(kept) : kept2[j] = kept[j]
  BY <1>3, <1>7
<1>9. cursor'.rows = rows /\ cursor'.buffer = filled /\ cursor'.kept = kept2
  BY <1>2
<1>10. TypeOK'
  <2>1. Len(cursor'.kept) <= Len(cursor'.rows)
    BY <1>2, <1>8, <1>9
  <2>2. QED
    BY <1>2, <2>1 DEF IInv, TypeOK
<1>11. ReportInv'
  <2>1. \A d \in Client : StmtCount(d)' = StmtCount(d)
    BY <1>2 DEF StmtCount
  <2>2. QED
    BY <1>2, <2>1, ReportUnchanged DEF IInv, ReportInv
<1>12. CursorType'
  <2>1. Cols' = Cols
    BY <1>9 DEF Cols
  <2>2. Cols \subseteq Field \cup {Scalar}
    BY <1>1 DEF CursorType
  <2>3. QED
    BY <1>2, <1>7, <1>8, <1>9, <2>1, <2>2 DEF CursorType
<1>13. CursorInv'
  <2>1. ASSUME NEW j \in 1..i PROVE Shows(t[j], rows[j], kept2[j])
    <3>1. CASE j = i
      BY <1>7, <1>8, <3>1
    <3>2. CASE j # i
      <4>1. j \in 1..Len(kept)
        BY <1>3, <3>2
      <4>2. QED
        BY <1>4, <1>8, <4>1
    <3>3. QED
      BY <3>1, <3>2
  <2>2. \A j \in 1..Len(cursor'.kept) : Shows(t[j], cursor'.rows[j], cursor'.kept[j])
    BY <1>8, <1>9, <2>1
  <2>3. QED
    BY <1>1, <1>2, <1>4, <1>5, <1>9, <1>12, <2>2 DEF CursorInv
<1>14. QED
  BY <1>2, <1>10, <1>11, <1>13, BlockUnchanged DEF IInv

-----------------------------------------------------------------------------
LEMMA InitInv == Init => IInv
<1> SUFFICES ASSUME Init PROVE IInv
  OBVIOUS
<1>1. /\ table \in Tables /\ versions = {table}
      /\ \A c \in Client : /\ block[c].stmts = <<>> /\ block[c].params = <<>>
                           /\ loop[c] = None /\ told[c] = "building"
                           /\ applied[c] = 0 /\ meant[c] = <<>>
  BY RawSqlAssumption DEF Init, Tables
<1>2. /\ cursor.rows = <<>> /\ cursor.kept = <<>>
      /\ cursor.buffer = [f \in {} |-> None]
      /\ cursor = [rows |-> cursor.rows, buffer |-> cursor.buffer, kept |-> cursor.kept]
      /\ Columns(<<>>) = {}
  BY DEF Init, Cursor, Columns
<1>3. TypeOK
  <2>1. <<>> \in Binding(Generated)
    <3>1. <<>> \in [{} -> Value]
      OBVIOUS
    <3>2. QED
      BY <3>1 DEF Binding
  <2>2. block \in [Client -> [stmts : Seq(Text), params : Binding(Generated)]]
    BY <2>1 DEF Init
  <2>3. /\ told \in [Client -> {"building", "ok", "failed", "lost", "abandoned"}]
        /\ loop \in [Client -> Job \cup {None}]
        /\ applied \in [Client -> Nat] /\ clean \in [Client -> BOOLEAN]
        /\ meant \in [Client -> Seq([key : Key, field : Field, value : Value \cup {None}])]
    BY DEF Init
  <2>4. ASSUME NEW c \in Client
        PROVE  Len(block[c].stmts) + (IF loop[c] = None THEN 0 ELSE 1) <= MaxStmts
    <3>1. MaxStmts \in Nat
      BY RawSqlAssumption
    <3>2. Len(block[c].stmts) = 0 /\ loop[c] = None
      BY <1>1
    <3>3. QED
      BY <3>1, <3>2
  <2>5. reads \in 0..MaxReads
    BY RawSqlAssumption DEF Init
  <2>6. Len(cursor.kept) <= Len(cursor.rows)
    BY <1>2
  <2>7. QED
    BY <1>1, <2>2, <2>3, <2>4, <2>5, <2>6 DEF TypeOK, Tables
<1>4. BlockInv
  <2>1. SUFFICES ASSUME NEW c \in Client PROVE BlockOf(c)
    BY DEF BlockInv
  <2>2. StmtCount(c) = 0 /\ Len(meant[c]) = 0 /\ DOMAIN block[c].params = {}
    BY <1>1 DEF StmtCount
  <2>3. QED
    BY <1>1, <2>2 DEF BlockOf, BoundNames, TextNow
<1>5. ReportInv
  BY <1>1 DEF ReportInv, ReportIsTrue
<1>6. CursorInv
  <2>1. CursorType
    BY <1>2 DEF CursorType, Cols
  <2>2. QED
    BY <1>1, <1>2, <2>1 DEF CursorInv
<1>7. QED
  BY <1>3, <1>4, <1>5, <1>6 DEF IInv

LEMMA NextInv == IInv /\ [Next]_vars => IInv'
<1> SUFFICES ASSUME IInv, [Next]_vars PROVE IInv'
  OBVIOUS
<1>1. ASSUME NEW c \in Client, NEW st \in Stmt, NEW ps \in Params, Exec(c, st, ps) PROVE IInv'
  BY <1>1, ExecPreserves
<1>2. ASSUME NEW c \in Client, NEW k \in Name, Renames(c, k) PROVE IInv'
  BY <1>2, RenamesPreserves
<1>3. ASSUME NEW c \in Client, Collects(c) PROVE IInv'
  BY <1>3, CollectsPreserves
<1>4. ASSUME NEW c \in Client, Abandons(c) \/ Empty(c) PROVE IInv'
  <2>1. Building(c) /\ UNCHANGED <<table, versions, block, loop, applied, meant, clean, cursor, reads>>
    BY <1>4 DEF Abandons, Empty
  <2>2. \E end \in {"ok", "abandoned"} : /\ told' = [told EXCEPT ![c] = end]
                                         /\ end = "ok" => StmtCount(c) = 0
    BY <1>4 DEF Abandons, Empty
  <2>3. QED
    BY <2>1, <2>2, EndPreserves
<1>5. ASSUME NEW c \in Client, Sends(c) PROVE IInv'
  BY <1>5, SendsPreserves
<1>6. CASE Query
  BY <1>6, QueryPreserves
<1>7. CASE NextRow
  BY <1>7, NextRowPreserves
<1>8. CASE UNCHANGED vars
  <2>1. TypeOK'
    BY <1>8 DEF IInv, TypeOK, vars
  <2>2. ReportInv'
    BY <1>8, ReportUnchanged DEF IInv, ReportInv, vars, StmtCount
  <2>3. BlockInv' /\ CursorInv'
    BY <1>8, BlockUnchanged, CursorUnchanged DEF IInv, vars
  <2>4. QED
    BY <2>1, <2>2, <2>3 DEF IInv
<1>9. QED
  BY <1>1, <1>2, <1>3, <1>4, <1>5, <1>6, <1>7, <1>8 DEF Next

\* The invariant behind the theorems: the builder of every Transaction knows what
\* each of its statements binds, its report is true, and the cursor shows one of
\* the states committed (transaction.go:143-220, sqldriver.go:88-194).
THEOREM Invariant == Spec => []IInv
<1>1. IInv /\ [Next]_vars => IInv'
  BY NextInv
<1>2. QED
  BY InitInv, <1>1, PTL DEF Spec

\* The builder, the loop of Tx.Exec and the cursor keep their types.
THEOREM TypeCorrect == Spec => []TypeOK
<1>1. IInv => TypeOK
  BY DEF IInv
<1>2. QED
  BY Invariant, <1>1, PTL

\* Tx.Exec gives every statement of a block the parameters it was added with, in
\* whatever order its loop renames them, for every set of names, as long as the
\* application uses none of the names Exec makes (transaction.go:147-159).
THEOREM MeansItsStatements == Spec => []BlockMeansItsStatements
<1>1. IInv => BlockMeansItsStatements
  BY DEF IInv, BlockInv, BlockOf, Means, BlockMeansItsStatements
<1>2. QED
  BY Invariant, <1>1, PTL

\* surrealdb.Transaction tells the truth about its block, which takes effect once
\* or not at all (transaction.go:189-220).
THEOREM ReportTrue == Spec => []ReportIsTrue
<1>1. IInv => ReportIsTrue
  BY DEF IInv, ReportInv
<1>2. QED
  BY Invariant, <1>1, PTL

\* The rows of a cursor are those of one committed state, each under its own
\* columns, however the documents differ (sqldriver.go:136-194).
THEOREM ShowsOneState == Spec => []CursorShowsOneState
<1>1. IInv => CursorShowsOneState
  <2>1. SUFFICES ASSUME IInv PROVE CursorShowsOneState
    OBVIOUS
  <2>2. \E t \in versions : \A i \in 1..Len(cursor.kept) : Shows(t[i], cursor.rows[i], cursor.kept[i])
    <3>1. CursorInv
      BY <2>1 DEF IInv
    <3>2. QED
      BY <3>1 DEF CursorInv
  <2>3. QED
    BY <2>2 DEF Shows, CursorShowsOneState
<1>2. QED
  BY Invariant, <1>1, PTL

-----------------------------------------------------------------------------
(***************************************************************************)
(* Numbers.                                                                *)
(***************************************************************************)
\* A number that fits its word is not changed by the conversion to it.
LEMMA FitsItsWord ==
  ASSUME NEW n \in Int
  PROVE  /\ n \in MinInt..MaxInt => AsInt(n) = n
         /\ n \in 0..MaxUint => AsUint(n) = n
<1>w. Half \in Nat \ {0} /\ Word \in Nat
  BY NumbersAssumption DEF Word
<1>1. ASSUME NEW m \in Nat, m < Word
      PROVE  m % Word = m
  BY <1>1, <1>w
<1>2. CASE n \in MinInt..MaxInt
  <2>1. n - MinInt \in Nat /\ n - MinInt < Word /\ MinInt \in Int
    BY <1>2, <1>w DEF MinInt, MaxInt, Word
  <2>2. (n - MinInt) % Word = n - MinInt
    BY <2>1, <1>1
  <2> QED
    BY <2>1, <2>2, <1>2, <1>w, <1>1 DEF AsInt, AsUint, MaxInt, MaxUint, Word
<1>3. CASE n \in 0..MaxUint
  <2>1. n < Word /\ n \in Nat
    BY <1>3, <1>w DEF MaxUint, Word
  <2>2. n % Word = n
    BY <2>1, <1>1
  <2>3. n \in MinInt..MaxInt => AsInt(n) = n
    BY <1>2, <1>w, <1>1 DEF AsInt, MinInt, MaxInt, Word
  <2> QED
    BY <2>2, <2>3 DEF AsUint
<1> QED
  BY <1>2, <1>3

\* What one number of the server comes back as.
ReadBack(x) ==
  LET v == FromSDK(x)
  IN /\ ToDriverValue(v).h = x.h
     /\ x.type # "float" => \A n \in ToInt64(v) : n = Error \/ 2 * n = x.h
     /\ x.type # "float" /\ x.h >= 0 => \A n \in ToUint64(v) : n = Error \/ 2 * n = x.h
     /\ x.type = "int" => Error \notin ToInt64(v)

\* An int reaches the conversions as an int64 or a uint64, a decimal as a text;
\* neither loses anything.
LEMMA ValueReadsBack ==
  ASSUME NEW x \in Value
  PROVE  ReadBack(x)
<1>1. x \in Number /\ x.h \in Int /\ x.type \in {"int", "float", "decimal"}
  BY RawSqlAssumption DEF Number
<1>2. Half \in Nat \ {0} /\ Error \notin Int
  BY NumbersAssumption
<1> DEFINE v == FromSDK(x)
<1>3. v.h = x.h
  BY DEF FromSDK
<1>4. CASE x.type = "int"
  <2> DEFINE n == x.h \div 2
  <2>1. Whole(x) /\ n \in MinInt..MaxInt
    BY <1>4, RawSqlAssumption
  <2>2. n \in Int /\ 2 * n = x.h /\ (x.h >= 0 => n >= 0)
    BY <1>1, <2>1 DEF Whole
  <2>3. AsInt(n) = n
    BY <2>1, <2>2, FitsItsWord
  <2>4. x.h >= 0 => AsUint(n) = n
    <3>1. x.h >= 0 => n \in 0..MaxUint
      BY <2>1, <2>2, <1>2 DEF MinInt, MaxInt, MaxUint, Word
    <3> QED
      BY <3>1, <2>2, FitsItsWord
  <2>5. v.type \in {"int64", "uint64"}
    BY <1>4 DEF FromSDK
  <2>6. ToInt64(v) = {n}
    BY <2>3, <2>5, <1>3 DEF ToInt64
  <2>7. x.h >= 0 => ToUint64(v) = {n}
    BY <2>4, <2>5, <1>3 DEF ToUint64
  <2>8. ToDriverValue(v).h = x.h
    BY <2>2, <2>3, <2>5, <1>3 DEF ToDriverValue
  <2> QED
    BY <1>2, <2>2, <2>6, <2>7, <2>8 DEF ReadBack
<1>5. CASE x.type = "decimal"
  <2>1. v.type = "string"
    BY <1>5 DEF FromSDK
  <2>2. \A R : \A n \in Parsed(v, R) : n = Error \/ 2 * n = x.h
    BY <1>1, <1>3 DEF Parsed, Whole
  <2>3. ToInt64(v) = Parsed(v, MinInt..MaxInt) /\ ToUint64(v) = Parsed(v, 0..MaxUint)
    BY <2>1 DEF ToInt64, ToUint64
  <2>4. ToDriverValue(v).h = x.h
    BY <2>1, <1>3 DEF ToDriverValue
  <2> QED
    BY <1>5, <2>2, <2>3, <2>4 DEF ReadBack
<1>6. CASE x.type = "float"
  BY <1>3, <1>6 DEF ReadBack, ToDriverValue, FromSDK
<1> QED
  BY <1>1, <1>4, <1>5, <1>6

\* Whatever an application reads, at any width of a word: an int of the server comes
\* back as it is, as the cursor's value, an int64 or, unless negative, a uint64; a
\* decimal as it is or as an error.
THEOREM ReadsNumbersBack == Spec => []NumbersReadBack
<1>1. IInv => NumbersReadBack
  <2>1. SUFFICES ASSUME IInv, NEW i \in 1..Len(cursor.rows),
                        NEW f \in DOMAIN cursor.rows[i], cursor.rows[i][f] # None
                 PROVE  ReadBack(cursor.rows[i][f])
    BY DEF NumbersReadBack, ReadBack
  <2>2. PICK t \in Tables, shape \in [Key -> Field \cup {Scalar}] : cursor.rows = ResultOf(t, shape)
    BY <2>1 DEF IInv, CursorInv
  <2>3. i \in Key
    BY <2>2, ResultIsSeq DEF Key
  <2>4. cursor.rows[i] = RowOf(t, shape, i)
    BY <2>2, <2>3 DEF ResultOf
  <2>5. cursor.rows[i][f] \in Value
    BY <2>1, <2>3, <2>4, RowShape
  <2> QED
    BY <2>5, ValueReadsBack
<1> QED
  BY Invariant, <1>1, PTL
=============================================================================
