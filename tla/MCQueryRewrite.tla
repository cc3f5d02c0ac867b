--------------------------- MODULE MCQueryRewrite ---------------------------
(* Small instances of QueryRewrite: WHERE clauses of up to two conditions,  *)
(* of which one may be a group, over stores of two records.                *)
EXTENDS QueryRewrite

CONSTANTS m1, m2, f1, n1, n2

A(col, style, op, args) == [col |-> col, style |-> style, op |-> op, args |-> args]

IDAtoms ==
  {A("id", style, "eq", <<v>>) : style \in {"raw", "quoted", "table"}, v \in {m1, f1}} \cup
  {A("id", style, "in", vs) : style \in {"raw", "quoted", "table"},
                              vs \in {<<m1, m2>>, <<m1, f1>>, <<m1, n1>>}}
OtherAtoms ==
  {A("author_id", style, "eq", <<f1>>) : style \in {"raw", "quoted"}} \cup
  {A("author_id", "quoted", "in", <<f1, m1>>),
   A("name", "quoted", "in", <<n1, n2>>),
   A("name", "quoted", "eq", <<n1>>), A("name", "raw", "set", <<>>)}

C(any) == {[or |-> or, neg |-> neg, any |-> any] : or \in BOOLEAN, neg \in BOOLEAN}

Single == UNION {C(<<a>>) : a \in IDAtoms \cup OtherAtoms}
Group == UNION {C(<<a, A("name", "quoted", "eq", <<n1>>)>>) : a \in IDAtoms \cup OtherAtoms}
Second == UNION {C(<<a>>) : a \in OtherAtoms \cup
                   {A("id", "table", "eq", <<m2>>), A("id", "raw", "in", <<m2, m1>>)}}

First(S) == {c \in S : ~c.or}
Wheres == {<<>>} \cup {<<c>> : c \in First(Single)}
          \cup {<<c, d>> : c \in First(Single), d \in Second \cup First(Group)}
          \cup {<<c, d>> : c \in First(Group), d \in Second}

\* What is asked of the matching records: order, count, limit and start.  Orders, counts
\* and pages are asked of conditions that are joined by AND.
Plainly == {<<"none", FALSE, 0, 0>>}
Shapes == {<<"id", FALSE, 1, 0>>, <<"id", FALSE, 1, 1>>, <<"none", FALSE, 0, 1>>,
           <<"desc", FALSE, 0, 0>>, <<"none", TRUE, 0, 0>>, <<"none", TRUE, 1, 0>>}
Ands == {w \in Wheres : \A i \in DOMAIN w : Plain(w[i]) /\ ~w[i].or}

MCQueries == {[where |-> a[1], soft |-> soft, order |-> a[2][1], count |-> a[2][2],
               limit |-> a[2][3], start |-> a[2][4]] :
                soft \in BOOLEAN, a \in (Wheres \X Plainly) \cup (Ands \X Shapes)}

R(name, deleted) == [name |-> name, author_id |-> f1, deleted |-> deleted]
Store(r, s) == [i \in {m1, m2, f1} |-> CASE i = m1 -> r [] i = m2 -> s [] i = f1 -> R(n1, FALSE)]
MCStores == {Store(R(n1, FALSE), R(n1, FALSE)), Store(R(n1, TRUE), R(n2, FALSE)),
             Store(R(n2, FALSE), R(n1, TRUE)), Store(NoRow, R(n1, FALSE))}
=============================================================================
