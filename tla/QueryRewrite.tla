---------------------------- MODULE QueryRewrite ----------------------------
(***************************************************************************)
(* QueryCallback from the conditions GORM has collected to the rows of the *)
(* server: the soft-delete condition, the rewriting of lookups by id into  *)
(* accesses of the records themselves, and the execution.                  *)
(*                                                                         *)
(* Both rewritings match and edit the text of the statement.  A text is    *)
(* kept as its conditions in order; what an edit would leave behind that   *)
(* is not a statement any more is "broken".  GORM numbers the arguments as *)
(* they come, so $p1 is the first argument of the text.                    *)
(***************************************************************************)
EXTENDS Naturals, Sequences, FiniteSets, Functions

CONSTANTS Mine,     \* ids of records of the queried table: numbers, as they are ordered
          Other,    \* ids of records of other tables
          Name,     \* values that are no record ids
          Queries,  \* what the application asks for
          Stores,   \* what the server holds
          NoRow,    \* no record
          NoAnswer  \* the server refuses the statement

AnyId == Mine \cup Other
Fields == [name : Name, author_id : Other, deleted : BOOLEAN]
Columns == {"id", "author_id", "name"}

\* A comparison.  Style is how the column is written: id, `id` or `users`.`id`.
Atom == {a \in [col : Columns, style : {"raw", "quoted", "table"}, op : {"eq", "in", "set"},
                args : Seq(AnyId \cup Name)] :
           /\ a.op = "eq" => Len(a.args) = 1
           /\ a.op = "in" => a.args # <<>>}

\* A condition of a WHERE: an atom, or atoms in parentheses with OR between them;
\* neg if a NOT comes before it; or if it is joined to the conditions before it by
\* OR, and not by AND.
Clause == [or : BOOLEAN, neg : BOOLEAN, any : Seq(Atom)]

\* What the application asks for, with 0 for no limit and no offset.
Query == [where : Seq(Clause), soft : BOOLEAN, order : {"none", "id", "desc"},
          count : BOOLEAN, limit : Nat, start : Nat]

\* Where the atoms of a WHERE are: atom p[2] of condition p[1].
Places(where) == UNION {{i} \X (DOMAIN where[i].any) : i \in DOMAIN where}
At(where, p) == where[p[1]].any[p[2]]
Earlier(p, q) == p[1] < q[1] \/ (p[1] = q[1] /\ p[2] < q[2])

\* "$p1" is also how "$p10" begins, and a comparison of an id behind nine arguments is
\* taken for one with the first.  What the cuts make of such a text is left out.
NumberedApart(where) ==
  \A p \in Places(where) :
    At(where, p).op = "eq" /\ At(where, p).col # "name" =>
      Cardinality(UNION {{q} \X (DOMAIN At(where, q).args) :
                           q \in {q \in Places(where) : Earlier(q, p)}}) < 9

ASSUME QueryRewriteAssumption ==
  /\ AnyId \subseteq Nat /\ IsFiniteSet(AnyId)
  /\ Mine \cap Other = {} /\ Name \cap AnyId = {} /\ NoRow \notin Fields
  /\ NoAnswer \notin Seq(AnyId)
  /\ Stores \subseteq [AnyId -> Fields \cup {NoRow}]
  /\ Queries \subseteq {q \in Query : NumberedApart(q.where)}

VARIABLES query,  \* the application's
          db,     \* the records of the server, or NoRow
          text,   \* the statement: [direct, from, where, order, broken]
          pc,
          rows    \* the ids of the answer, or of the records counted, or NoAnswer

queryVars == <<query, db, text, pc, rows>>

Plain(c) == ~c.neg /\ Len(c.any) = 1

Alive == [or |-> FALSE, neg |-> FALSE,
          any |-> <<[col |-> "deleted_at", style |-> "quoted", op |-> "alive", args |-> <<>>]>>]

-----------------------------------------------------------------------------
(***************************************************************************)
(* The server.                                                             *)
(***************************************************************************)
\* `x IN ($p1, $p2)` is no membership in SurrealQL: nothing is in it.
Server(a, r) ==
  CASE a.op = "eq"     -> (IF a.col = "id" THEN r ELSE db[r][a.col]) = a.args[1]
    [] a.op = "in"    -> FALSE
    [] a.op = "set"   -> TRUE
    [] a.op = "alive" -> ~db[r].deleted

\* What the application means.
Meant(a, r) ==
  IF a.op = "in" THEN (IF a.col = "id" THEN r ELSE db[r][a.col]) \in Range(a.args)
                 ELSE Server(a, r)

Holds(c, r, Val(_, _)) == (\E k \in DOMAIN c.any : Val(c.any[k], r)) # c.neg

\* AND binds closer than OR.
Satisfies(r, where, Val(_, _)) ==
  \/ where = <<>>
  \/ \E i \in DOMAIN where :
       /\ i = 1 \/ where[i].or
       /\ \A j \in i..Len(where) :
            (\A k \in i+1..j : ~where[k].or) => Holds(where[j], r, Val)

\* The finite set S as a sequence in the order `before`, a set of pairs.
Ranked(S, before) ==
  [n \in 1..Cardinality(S) |->
     CHOOSE x \in S : Cardinality({y \in S : <<y, x>> \in before}) = n - 1]

Less(S) == {p \in S \X S : p[1] < p[2]}
InOrder(S) == Ranked(S, Less(S))

Elements(ids, at) == [n \in DOMAIN at |-> ids[at[n]]]

\* Those of ids that are in S, in the order they are in.
Kept(ids, S) == Elements(ids, InOrder({i \in DOMAIN ids : ids[i] \in S}))

\* ORDER BY id, which keeps what is asked for twice.
Sorted(ids) ==
  Elements(ids, Ranked(DOMAIN ids, {p \in (DOMAIN ids) \X (DOMAIN ids) :
                                      Earlier(<<ids[p[1]], p[1]>>, <<ids[p[2]], p[2]>>)}))

Backwards(ids) == [n \in DOMAIN ids |-> ids[Len(ids) + 1 - n]]

Ordered(ids, order) ==
  CASE order = "none"    -> ids
    [] order = "id"      -> Sorted(ids)
    [] order = "desc" -> Backwards(Sorted(ids))

\* LIMIT and START.
Page(ids, limit, start) ==
  LET rest == SubSeq(ids, start + 1, Len(ids))
  IN IF limit = 0 \/ limit >= Len(rest) THEN rest ELSE SubSeq(rest, 1, limit)

Found(where) == {r \in AnyId : db[r] # NoRow /\ Satisfies(r, where, Server)}

Response(t) ==
  IF t.broken THEN NoAnswer
  ELSE Page(Ordered(Kept(t.from, Found(t.where)), t.order), query.limit, query.start)

-----------------------------------------------------------------------------
(***************************************************************************)
(* QueryCallback.                                                          *)
(***************************************************************************)
\* FROM is the table; the soft-delete condition is one more condition behind the
\* application's.
Build ==
  /\ pc = "build"
  /\ text' = [direct |-> FALSE, from |-> InOrder(Mine),
              where |-> IF query.soft THEN Append(query.where, Alive) ELSE query.where,
              order |-> query.order, broken |-> FALSE]
  /\ pc' = "byID"
  /\ UNCHANGED <<query, db, rows>>

\* mutant: the predicate stays.
DropNothing(t, i) == t

\* mutant: the conditions behind the predicate go with it.
DropAndTheRest(t, i) ==
  IF Plain(t.where[i]) /\ t.where[i].any[1].col = "id" /\ (i = 1 \/ ~t.where[i].or)
    THEN [t EXCEPT !.where = SubSeq(t.where, 1, i - 1)]
    ELSE t

Without(s, i) == SubSeq(s, 1, i - 1) \o SubSeq(s, i + 1, Len(s))

\* The text without condition i: "WHERE c AND ", " AND c" or "WHERE c" is cut out,
\* where c is the predicate on id alone; anywhere else it is not found, and stays.
Drop(t, i) ==
  LET rest == Without(t.where, i)
  IN IF Plain(t.where[i]) /\ t.where[i].any[1].col = "id" /\ (i = 1 \/ ~t.where[i].or)
     THEN [t EXCEPT !.where = rest, !.broken = @ \/ (rest # <<>> /\ rest[1].or)]
     ELSE t

\* mutant: any argument is taken for an id.
IsAnything(v) == TRUE

IsRecordID(v) == v \in AnyId

\* The text has "id = $p1" at p, also as the end of a longer unquoted name.
IsP1(where, p) ==
  LET a == At(where, p) IN
  /\ a.op = "eq"
  /\ a.col = "id" \/ (a.col = "author_id" /\ a.style = "raw")
  /\ \A q \in Places(where) : Earlier(q, p) => At(where, q).args = <<>>

OptimizeFindByID ==
  /\ pc = "byID"
  /\ LET at == {p \in Places(text.where) : /\ IsP1(text.where, p)
                                           /\ IsRecordID(At(text.where, p).args[1])}
     IN \/ at = {} /\ UNCHANGED text
        \/ \E p \in at :
             text' = [Drop(text, p[1]) EXCEPT
                        !.direct = TRUE, !.from = At(text.where, p).args, !.order = "none",
                        \* ORDER BY `id` is cut out of ORDER BY `id` DESC, too.
                        !.broken = @ \/ text.order = "desc"]
  /\ pc' = "byIDList"
  /\ UNCHANGED <<query, db, rows>>

\* What idInListRe matches; the match may begin inside a longer name.
InList(a) == a.op = "in" /\ a.col \in {"id", "author_id"}

OptimizeFindByIDList ==
  /\ pc = "byIDList"
  /\ LET at == {p \in Places(text.where) : InList(At(text.where, p))}
         first == {p \in at : /\ \A q \in at : ~Earlier(q, p)
                              /\ \A v \in Range(At(text.where, p).args) : IsRecordID(v)}
     IN \/ first = {} /\ UNCHANGED text
        \/ \E p \in first :
             text' = [Drop(text, p[1]) EXCEPT
                        !.direct = TRUE,
                        !.from = IF text.direct THEN @ ELSE At(text.where, p).args]
  /\ pc' = "rewrite"
  /\ UNCHANGED <<query, db, rows>>

\* executeSQL: a count gets GROUP ALL at its end, where it may not stand behind LIMIT
\* or START; these get the values of their parameters.
RewriteSQL ==
  /\ pc = "rewrite"
  /\ text' = [text EXCEPT !.broken = @ \/ (query.count /\ (query.limit # 0 \/ query.start # 0))]
  /\ pc' = "execute"
  /\ UNCHANGED <<query, db, rows>>

Execute ==
  /\ pc = "execute"
  /\ rows' = Response(text)
  /\ pc' = "done"
  /\ UNCHANGED <<query, db, text>>

QueryInit ==
  /\ query \in Queries /\ db \in Stores
  /\ text = [direct |-> FALSE, from |-> <<>>, where |-> <<>>, order |-> "none", broken |-> FALSE]
  /\ pc = "build"
  /\ rows = <<>>

QueryNext == Build \/ OptimizeFindByID \/ OptimizeFindByIDList \/ RewriteSQL \/ Execute

QuerySpec == QueryInit /\ [][QueryNext]_queryVars

-----------------------------------------------------------------------------
(***************************************************************************)
(* Properties.                                                             *)
(***************************************************************************)
\* The type invariant.
QueryTypeOK ==
  /\ query \in Query /\ db \in Stores
  /\ text.direct \in BOOLEAN /\ text.broken \in BOOLEAN
  /\ text.from \in Seq(AnyId)
  /\ text.where \in Seq(Clause \cup {Alive}) /\ Len(text.where) <= Len(query.where) + 1
  /\ pc \in {"build", "byID", "byIDList", "rewrite", "execute", "done"}
  /\ rows = NoAnswer \/ rows \in Seq(AnyId)

\* Comparisons that a rewriting may take for a lookup by id.
LooksLikeID(a) == a.op \in {"eq", "in"} /\ a.col \in {"id", "author_id"}

\* A lookup that uses ids as the driver expects it to: by ids of the table, each
\* once, in one condition of its own; conditions are joined by AND, no other column is
\* compared by IN, those that hold ids are quoted, there is no descending order by id,
\* and what is counted is not limited.
Sensible(q) ==
  /\ \A i \in DOMAIN q.where :
       LET c == q.where[i] IN
       /\ ~c.or
       /\ \A k \in DOMAIN c.any :
            LET a == c.any[k] IN
            /\ LooksLikeID(a) /\ a.col = "id" =>
                 /\ Plain(c)
                 /\ Range(a.args) \subseteq Mine /\ IsInjective(a.args)
                 /\ \A j \in DOMAIN q.where \ {i} : \A l \in DOMAIN q.where[j].any :
                      ~(LooksLikeID(q.where[j].any[l]) /\ q.where[j].any[l].col = "id")
            /\ LooksLikeID(a) /\ a.col # "id" => a.style # "raw"
            /\ a.op = "in" => a.col = "id"
  /\ q.order # "desc"
  /\ q.count => q.limit = 0 /\ q.start = 0

Intended == {r \in Mine : /\ db[r] # NoRow
                          /\ Satisfies(r, query.where, Meant)
                          /\ query.soft => ~db[r].deleted}

\* Such a lookup, however the rewritings cut its text, returns, or counts, the records
\* that its conditions describe, each once, or the page of them that LIMIT and START ask
\* for, in the order asked for (callback_query.go:21-26, executor.go:161-221).
FindMeansItsWhere ==
  pc = "done" /\ Sensible(query) =>
    /\ rows # NoAnswer /\ Range(rows) \subseteq Intended /\ IsInjective(rows)
    /\ LET page == Page(InOrder(Intended), query.limit, query.start)
       IN Len(rows) = Len(page) /\ (query.order = "id" => rows = page)

\* Any lookup whose conditions are joined by AND, sensible or not: what the answer
\* holds satisfies every condition that is not about ids, and is not soft-deleted; the
\* two rewritings together lose no condition (callback_query.go:58).
OtherConditionsKept ==
  pc = "done" /\ rows # NoAnswer /\ (\A i \in DOMAIN query.where : ~query.where[i].or) =>
    \A r \in Range(rows) :
      /\ \A i \in DOMAIN query.where :
           (\A k \in DOMAIN query.where[i].any : ~LooksLikeID(query.where[i].any[k]))
             => Holds(query.where[i], r, Server)
      /\ query.soft => ~db[r].deleted

\* "soft-deleted record should not appear in normal query" (test/gorm_suite_test.go:579).
SoftDeletedHidden ==
  pc = "done" /\ rows # NoAnswer /\ query.soft => \A r \in Range(rows) : ~db[r].deleted
=============================================================================
