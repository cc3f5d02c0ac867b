--------------------------- MODULE GormTx_proofs ---------------------------
(***************************************************************************)
(* Theorems about GormTx for every value of its constants: its type        *)
(* invariant, the isolation of the writes that are routed by ConnPool, the *)
(* truth of what db.Transaction reports, the relations of the Saves that   *)
(* are stored, and that the driver implements TxStore.                     *)
(*                                                                         *)
(* Every step either sends one write set over one connection (Sends), ends *)
(* a transaction (Ends), or leaves the server's contents alone; the        *)
(* invariants are proved for those three kinds of step.                    *)
(***************************************************************************)
EXTENDS GormTx, TLAPS

\* A set of writes that connection c may be sent: what goes into a transaction
\* is tagged with it and not direct, what goes to the shared connection outside
\* a transaction is tagged Shared or direct.
Tagged(c, W) ==
  /\ W \in [Key -> Val \cup {Same}]
  /\ \A k \in Key : W[k] # Same => /\ W[k] \in Val
                                   /\ W[k].direct => c = Shared
                                   /\ ~W[k].direct => W[k].tx = c

\* The step is one write over one connection.
Sends == \E c \in Conn : \E W : Tagged(c, W) /\ Send(c, W)

\* A step of a callback that makes a server call.
DataStep == /\ Sends
            /\ UNCHANGED <<pool, finish, told>>
            /\ nop' \in OpId
            /\ job' \in [Session -> Job \cup {NoJob}]

-----------------------------------------------------------------------------
(***************************************************************************)
(* The inductive invariants.                                               *)
(***************************************************************************)
\* A transaction's buffer holds only its own writes, and only while it is open:
\* this is why what enters the store with a commit carries a committed tag.
BufferOwned ==
  \A t \in Txn :
    /\ \A k \in Key : buf[t][k] # Same => ~buf[t][k].direct /\ buf[t][k].tx = t
    /\ srv[t] # "open" => buf[t] = NoWrites

IsolationInv == BufferOwned /\ RoutedWritesAreTransactional

\* A handle is held by one session, was opened, and its fate has not been told.
HandleHeld ==
  \A s \in Session : LET t == pool[s] IN
    /\ t = Shared => finish[s] = "no"
    /\ t # Shared =>
         /\ \A r \in Session : pool[r] = t => r = s
         /\ srv[t] # "none"
         /\ told[t] \in {"none", "inner"}
         /\ closed[t] /\ finish[s] # "rollback" => told[t] = "inner"
         /\ srv[t] = "committed" /\ told[t] = "none" => expired[t]

Unopened == \A t \in Txn : srv[t] = "none" => told[t] = "none" /\ ~closed[t]

ReportInv == HandleHeld /\ Unopened /\ ReportsAreTrue

-----------------------------------------------------------------------------
(***************************************************************************)
(* The values callbacks make, and the write sets built from them.          *)
(***************************************************************************)
LEMMA InitialType ==
  ASSUME NEW b \in BOOLEAN
  PROVE  Initial(b) \in Val /\ Initial(b).tx = Shared /\ Initial(b).direct = FALSE
  BY GormTxAssumption, SMT DEF Initial, Val, OpId, Conn

LEMMA StampType ==
  ASSUME TypeOK, NEW s \in Session, NEW o \in OpId, NEW d \in BOOLEAN
  PROVE  /\ Stamp(s, o, d) \in Val
         /\ Stamp(s, o, d).tx = pool[s]
         /\ Stamp(s, o, d).direct = d
<1>1. pool[s] \in Conn
  BY DEF TypeOK
<1>2. QED
  BY <1>1, SMT DEF Stamp, Val

LEMMA PutTagged ==
  ASSUME NEW R \in SUBSET Key, NEW v \in Val, NEW c \in Conn,
         v.direct => c = Shared, ~v.direct => v.tx = c
  PROVE  Tagged(c, Put(R, v))
  BY DEF Tagged, Put

LEMMA RelationTagged ==
  ASSUME TypeOK, NEW s \in Session, NEW o \in OpId, NEW d \in BOOLEAN,
         NEW e \in Edge, NEW from \in Row, NEW to \in Row,
         NEW c \in Conn, IF d THEN c = Shared ELSE c = pool[s]
  PROVE  Tagged(c, Relation(s, o, d, e, from, to))
<1> DEFINE v == [Stamp(s, o, d) EXCEPT !.ends = <<from, to>>]
<1>1. v \in Val /\ v.tx = pool[s] /\ v.direct = d
  <2>1. <<from, to>> \in (Row \X Row) \cup {NoEnds}
    OBVIOUS
  <2> QED
    BY <2>1, StampType, SMT DEF Val
<1>2. Tagged(c, Put({e}, v))
  <2>1. {e} \in SUBSET Key
    BY DEF Key
  <2> HIDE DEF v
  <2> QED
    BY <1>1, <2>1, PutTagged
<1> QED
  BY <1>2 DEF Relation

LEMMA RemoveTagged ==
  ASSUME TypeOK, NEW s \in Session, NEW o \in OpId, NEW d \in BOOLEAN,
         NEW f \in [Key -> Val], NEW D,
         NEW c \in Conn, IF d THEN c = Shared ELSE c = pool[s]
  PROVE  Tagged(c, Remove(s, o, d, f, D))
<1> DEFINE v == [Stamp(s, o, d) EXCEPT !.alive = FALSE]
           w(k) == [f[k] EXCEPT !.alive = FALSE, !.tx = pool[s], !.direct = d]
           W == Remove(s, o, d, f, D)
<1>1. v \in Val /\ v.tx = pool[s] /\ v.direct = d
  <2>1. Stamp(s, o, d) \in Val /\ Stamp(s, o, d).tx = pool[s] /\ Stamp(s, o, d).direct = d
    BY StampType
  <2>2. v \in Val
    BY <2>1 DEF Val
  <2>3. v.tx = pool[s]
    BY <2>1 DEF Val
  <2>4. v.direct = d
    BY <2>1 DEF Val
  <2> QED
    BY <2>2, <2>3, <2>4
<1>2. ASSUME NEW k \in Key
      PROVE  w(k) \in Val /\ w(k).tx = pool[s] /\ w(k).direct = d
  <2>1. f[k] \in Val /\ pool[s] \in Conn
    BY DEF TypeOK
  <2>2. w(k) \in Val
    BY <2>1 DEF Val
  <2>3. w(k).tx = pool[s]
    BY <2>1 DEF Val
  <2>4. w(k).direct = d
    BY <2>1 DEF Val
  <2> QED
    BY <2>2, <2>3, <2>4
<1>3. W = [k \in Key |-> CASE k \notin D -> Same
                           [] k \in D /\ k \in Row -> v
                           [] OTHER -> w(k)]
  BY DEF Remove
<1> HIDE DEF v, w, W
<1>4. ASSUME NEW k \in Key
      PROVE  W[k] = Same \/ W[k] = v \/ W[k] = w(k)
  BY <1>3
<1>5. W \in [Key -> Val \cup {Same}]
  BY <1>1, <1>2, <1>3
<1>6. Tagged(c, W)
  BY <1>1, <1>2, <1>4, <1>5 DEF Tagged
<1> QED
  BY <1>6 DEF W

-----------------------------------------------------------------------------
(***************************************************************************)
(* Every callback that calls the server sends tagged writes.               *)
(***************************************************************************)
LEMMA OntoType ==
  ASSUME NEW W \in [Key -> Val \cup {Same}], NEW f \in [Key -> Val]
  PROVE  Onto(W, f) \in [Key -> Val]
  BY DEF Onto

LEMMA ViewType ==
  ASSUME TypeOK, NEW s \in Session
  PROVE  Routed(s) \in Conn /\ View(Routed(s)) \in [Key -> Val]
<1>1. Routed(s) \in Conn
  BY DEF Routed, TypeOK
<1>2. CASE Routed(s) = Shared
  BY <1>1, <1>2 DEF View, TypeOK
<1>3. CASE Routed(s) # Shared
  <2>1. Routed(s) \in Txn
    BY <1>1, <1>3 DEF Conn
  <2>2. buf[Routed(s)] \in [Key -> Val \cup {Same}] /\ db \in [Key -> Val]
    BY <2>1 DEF TypeOK
  <2> QED
    BY <1>1, <1>3, <2>2, OntoType DEF View
<1> QED
  BY <1>2, <1>3

LEMMA NextOp ==
  ASSUME TypeOK, nop < MaxOp
  PROVE  nop + 1 \in OpId
  BY GormTxAssumption DEF TypeOK, OpId

LEMMA CallbackIsDataStep ==
  ASSUME TypeOK, NEW s \in Session, NEW c \in Conn, NEW W, Tagged(c, W), Callback(s, c, W)
  PROVE  DataStep
<1>1. nop' \in OpId
  BY NextOp DEF Callback
<1>2. Sends
  BY DEF Callback, Sends
<1>3. UNCHANGED <<pool, job, finish, told>>
  BY DEF Callback, client
<1>4. job' \in [Session -> Job \cup {NoJob}]
  BY <1>3 DEF TypeOK
<1> QED
  BY <1>1, <1>2, <1>3, <1>4 DEF DataStep

LEMMA RoutedCallbackIsDataStep ==
  ASSUME TypeOK, NEW s \in Session, RoutedCallback(s)
  PROVE  DataStep
<1> DEFINE o == nop + 1
           v == Stamp(s, o, FALSE)
<1>c. Routed(s) \in Conn /\ View(Routed(s)) \in [Key -> Val] /\ Routed(s) = pool[s]
  BY ViewType DEF Routed
<1>o. nop < MaxOp => o \in OpId
  BY NextOp
<1>p. ASSUME NEW R \in SUBSET Row, Callback(s, Routed(s), Put(R, v))
      PROVE  DataStep
  <2>1. nop < MaxOp
    BY <1>p DEF Callback
  <2>2. v \in Val /\ v.tx = pool[s] /\ v.direct = FALSE
    BY <1>o, <2>1, StampType
  <2>3. R \in SUBSET Key
    BY DEF Key
  <2> HIDE DEF v
  <2>4. Tagged(Routed(s), Put(R, v))
    BY <1>c, <2>2, <2>3, PutTagged
  <2> QED
    BY <1>c, <1>p, <2>4, CallbackIsDataStep
<1>r. ASSUME NEW e \in Edge, NEW from \in Row, NEW to \in Row,
             Callback(s, Routed(s), Relation(s, o, FALSE, e, from, to))
      PROVE  DataStep
  <2>1. o \in OpId
    BY <1>o, <1>r DEF Callback
  <2>2. Tagged(Routed(s), Relation(s, o, FALSE, e, from, to))
    BY <1>c, <2>1, RelationTagged
  <2> QED
    BY <1>c, <1>r, <2>2, CallbackIsDataStep
<1>d. ASSUME NEW D, Callback(s, Routed(s), Remove(s, o, FALSE, View(Routed(s)), D))
      PROVE  DataStep
  <2>1. o \in OpId
    BY <1>o, <1>d DEF Callback
  <2>2. Tagged(Routed(s), Remove(s, o, FALSE, View(Routed(s)), D))
    BY <1>c, <2>1, RemoveTagged
  <2> QED
    BY <1>c, <1>d, <2>2, CallbackIsDataStep
<1> HIDE DEF o, v
<1>1. ASSUME NEW R \in SUBSET Row, CreateRows(s, R) \/ CreateMany(s, R)
      PROVE  DataStep
  BY <1>1, <1>p DEF CreateRows, CreateMany, o, v
<1>2. ASSUME NEW R \in SUBSET Row, UpdateRows(s, R) \/ SoftDelete(s, R)
      PROVE  DataStep
  BY <1>2, <1>p DEF UpdateRows, SoftDelete, o, v
<1>3. ASSUME NEW R \in SUBSET Row, DeleteRows(s, R)
      PROVE  DataStep
  BY <1>3, <1>d DEF DeleteRows, o
<1>4. ASSUME NEW from \in Owner, NEW to \in Target,
             CreateEdge(s, from, to) \/ ExecInsertEdge(s, from, to)
      PROVE  DataStep
  <2>1. from \in Row /\ to \in Row
    BY GormTxAssumption
  <2> QED
    BY <1>4, <2>1, <1>r DEF CreateEdge, ExecInsertEdge, o
<1>5. ASSUME NEW R \in SUBSET Row, ExecRows(s, R)
      PROVE  DataStep
  BY <1>2, <1>3, <1>5 DEF ExecRows
<1> QED
  BY <1>1, <1>2, <1>3, <1>4, <1>5 DEF RoutedCallback

LEMMA DirectCallbackIsDataStep ==
  ASSUME TypeOK, NEW s \in Session, DirectCallback(s)
  PROVE  DataStep
<1> DEFINE o == nop + 1
<1>c. Shared \in Conn
  BY DEF Conn
<1>o. nop < MaxOp => o \in OpId
  BY NextOp
<1>1. ASSUME NEW R \in SUBSET Row, RawTransaction(s, R)
      PROVE  DataStep
  <2> DEFINE v == Stamp(s, o, TRUE)
  <2>1. Callback(s, Shared, Put(R, v))
    BY <1>1 DEF RawTransaction, Direct
  <2>2. o \in OpId
    BY <1>o, <2>1 DEF Callback
  <2>3. v \in Val /\ v.direct = TRUE
    BY <2>2, StampType
  <2>4. R \in SUBSET Key
    BY DEF Key
  <2> HIDE DEF v
  <2>5. Tagged(Shared, Put(R, v))
    BY <1>c, <2>3, <2>4, PutTagged
  <2> QED
    BY <1>c, <2>1, <2>5, CallbackIsDataStep
<1>2. ASSUME NEW from \in Owner, NEW to \in Target, Relate(s, from, to)
      PROVE  DataStep
  <2> DEFINE v == [Initial(TRUE) EXCEPT !.op = o, !.ends = <<from, to>>]
  <2>1. PICK e \in Edge : Callback(s, Shared, Put({e}, v))
    BY <1>2 DEF Relate, Direct
  <2>2. o \in OpId
    BY <1>o, <2>1 DEF Callback
  <2>3. Initial(TRUE) \in Val /\ Initial(TRUE).tx = Shared /\ Initial(TRUE).direct = FALSE
    BY InitialType
  <2>4. <<from, to>> \in (Row \X Row) \cup {NoEnds}
    BY GormTxAssumption
  <2>5. v \in Val
    BY <2>2, <2>3, <2>4 DEF Val
  <2>6. v.tx = Shared
    BY <2>3 DEF Val
  <2>7. v.direct = FALSE
    BY <2>3 DEF Val
  <2>8. {e} \in SUBSET Key
    BY DEF Key
  <2> HIDE DEF v
  <2>9. Tagged(Shared, Put({e}, v))
    BY <1>c, <2>5, <2>6, <2>7, <2>8, PutTagged
  <2> QED
    BY <1>c, <2>1, <2>9, CallbackIsDataStep
<1> QED
  BY <1>1, <1>2 DEF DirectCallback

LEMMA RunningJob ==
  ASSUME TypeOK, NEW s \in Session, Running(s)
  PROVE  /\ job[s] \in Job
         /\ job[s].op \in OpId /\ job[s].owner \in Row
         /\ job[s].want \subseteq Row /\ job[s].left \subseteq Row
<1>1. job[s] \in Job
  BY DEF TypeOK, Running
<1> QED
  BY <1>1 DEF Job

LEMMA StepIsDataStep ==
  ASSUME TypeOK, NEW s \in Session, NEW kind, NEW c \in Conn, NEW W,
         NEW next \in Job \cup {NoJob}, Tagged(c, W), Step(s, kind, c, W, next)
  PROVE  DataStep
<1>1. Sends
  BY DEF Step, Sends
<1>2. nop' \in OpId /\ UNCHANGED <<pool, finish, told>>
  BY DEF Step, TypeOK
<1>3. job' \in [Session -> Job \cup {NoJob}]
  BY DEF Step, TypeOK
<1> QED
  BY <1>1, <1>2, <1>3 DEF DataStep

\* What is left of a job is a job.
LEMMA JobRest ==
  ASSUME NEW j \in Job, NEW x
  PROVE  [j EXCEPT !.left = @ \ {x}] \in Job /\ [j EXCEPT !.left = j.left \ {x}] \in Job
<1>1. [j EXCEPT !.left = @ \ {x}] \in Job
  BY DEF Job
<1>2. [j EXCEPT !.left = j.left \ {x}] \in Job
  BY DEF Job
<1> QED
  BY <1>1, <1>2

LEMMA JobStepIsDataStep ==
  ASSUME TypeOK, NEW s \in Session,
         SaveEdge(s) \/ SaveRow(s) \/ Unlink(s) \/ Wipe(s) \/ Relink(s)
  PROVE  DataStep
<1> DEFINE j == job[s]
           r == Routed(s)
<1>j. /\ j \in Job
      /\ j.op \in OpId /\ j.owner \in Row /\ j.want \subseteq Row /\ j.left \subseteq Row
  BY RunningJob DEF SaveEdge, SaveRow, Unlink, Wipe, Relink
<1>c. Shared \in Conn /\ r \in Conn /\ View(r) \in [Key -> Val] /\ r = pool[s]
  BY ViewType DEF Routed, Conn
<1>b. db \in [Key -> Val]
  BY DEF TypeOK
<1>1. CASE SaveEdge(s)
  <2>1. PICK x \in j.left, e \in Edge :
          Step(s, "save", r, Relation(s, j.op, FALSE, e, j.owner, x),
               [j EXCEPT !.left = @ \ {x}])
    BY <1>1 DEF SaveEdge
  <2>2. x \in Row
    BY <1>j
  <2>3. [j EXCEPT !.left = @ \ {x}] \in Job
    BY <1>j, JobRest
  <2>4. Tagged(r, Relation(s, j.op, FALSE, e, j.owner, x))
    BY <1>j, <1>c, <2>2, RelationTagged
  <2> HIDE DEF j, r
  <2> QED
    BY <1>c, <2>1, <2>3, <2>4, StepIsDataStep
<1>2. CASE SaveRow(s)
  <2> DEFINE v == [Stamp(s, j.op, FALSE) EXCEPT !.want = j.want]
             R == IF View(r)[j.owner].alive THEN {j.owner} ELSE {}
  <2>1. Step(s, "save", r, Put(R, v), NoJob)
    BY <1>2 DEF SaveRow, SendRow
  <2>2. Stamp(s, j.op, FALSE) \in Val /\ Stamp(s, j.op, FALSE).tx = r
        /\ Stamp(s, j.op, FALSE).direct = FALSE
    BY <1>j, <1>c, StampType
  <2>3. v \in Val
    BY <1>j, <2>2 DEF Val
  <2>4. v.tx = r
    BY <2>2 DEF Val
  <2>5. v.direct = FALSE
    BY <2>2 DEF Val
  <2>6. R \in SUBSET Key
    BY <1>j DEF Key
  <2> HIDE DEF v, R, j, r
  <2>7. Tagged(r, Put(R, v))
    BY <1>c, <2>3, <2>4, <2>5, <2>6, PutTagged
  <2> QED
    BY <1>c, <2>1, <2>7, StepIsDataStep
<1>3. CASE Unlink(s)
  <2> DEFINE D(x) == {e \in EdgesOf(db, j.owner) : db[e].ends[2] = x}
             n(x) == IF j.left \ {x} = {} THEN NoJob ELSE [j EXCEPT !.left = j.left \ {x}]
  <2>1. PICK x \in j.left : Step(s, "unlink", Shared, Remove(s, j.op, TRUE, db, D(x)), n(x))
    BY <1>3 DEF Unlink, Direct
  <2>2. n(x) \in Job \cup {NoJob}
    BY <1>j, JobRest
  <2> HIDE DEF D, n, j
  <2>3. Tagged(Shared, Remove(s, j.op, TRUE, db, D(x)))
    BY <1>j, <1>c, <1>b, RemoveTagged
  <2> QED
    BY <1>c, <2>1, <2>2, <2>3, StepIsDataStep
<1>4. CASE Wipe(s)
  <2> DEFINE D == EdgesOf(db, j.owner)
             n == IF j.left = {} THEN NoJob ELSE [j EXCEPT !.kind = "relink"]
  <2>1. Step(s, "wipe", Shared, Remove(s, j.op, TRUE, db, D), n)
    BY <1>4 DEF Wipe, Direct
  <2>2. n \in Job \cup {NoJob}
    <3>1. [j EXCEPT !.kind = "relink"] \in Job
      BY <1>j DEF Job
    <3> QED
      BY <3>1
  <2> HIDE DEF D, n, j
  <2>3. Tagged(Shared, Remove(s, j.op, TRUE, db, D))
    BY <1>j, <1>c, <1>b, RemoveTagged
  <2> QED
    BY <1>c, <2>1, <2>2, <2>3, StepIsDataStep
<1>5. CASE Relink(s)
  <2> DEFINE n(x) == IF j.left \ {x} = {} THEN NoJob ELSE [j EXCEPT !.left = j.left \ {x}]
  <2>1. PICK x \in j.left, e \in Edge :
          Step(s, "relink", Shared, Relation(s, j.op, TRUE, e, j.owner, x), n(x))
    BY <1>5 DEF Relink, Direct
  <2>2. n(x) \in Job \cup {NoJob}
    BY <1>j, JobRest
  <2>3. x \in Row
    BY <1>j
  <2> HIDE DEF n, j
  <2>4. Tagged(Shared, Relation(s, j.op, TRUE, e, j.owner, x))
    BY <1>j, <1>c, <2>3, RelationTagged
  <2> QED
    BY <1>c, <2>1, <2>2, <2>4, StepIsDataStep
<1> QED
  BY <1>1, <1>2, <1>3, <1>4, <1>5

-----------------------------------------------------------------------------
(***************************************************************************)
(* The steps that end a transaction.                                       *)
(***************************************************************************)
Ends(t) == /\ Reachable(t)
           /\ \E how \in {"committed", "cancelled"} : ServerEnds(t, how)

\* What the ending of a transaction by its holder may change.
Finishing(s) ==
  LET t == pool[s] IN
  /\ s \in Session /\ t \in Txn
  /\ UNCHANGED server \/ Ends(t)
  /\ closed' \in [Txn -> BOOLEAN] /\ expired' \in [Txn -> BOOLEAN]
  /\ \A u \in Txn : u # t => closed'[u] = closed[u] /\ expired'[u] = expired[u]
  /\ UNCHANGED <<up, job, nop>>

LEMMA SdkCallFinishes ==
  ASSUME TypeOK, NEW t \in Txn, CommitNil(t) \/ CommitError(t) \/ Rollback(t)
  PROVE  /\ UNCHANGED server \/ Ends(t)
         /\ closed' \in [Txn -> BOOLEAN] /\ expired' \in [Txn -> BOOLEAN]
         /\ \A u \in Txn : u # t => closed'[u] = closed[u] /\ expired'[u] = expired[u]
<1>1. UNCHANGED server \/ Ends(t)
  BY DEF CommitNil, CommitError, Rollback, Ends
<1>2. \E b \in BOOLEAN : closed' = closed \/ closed' = [closed EXCEPT ![t] = b]
  BY DEF CommitNil, CommitError, Rollback
<1>3. expired' = expired \/ expired' = [expired EXCEPT ![t] = TRUE]
  BY DEF CommitNil, CommitError, Rollback
<1> QED
  BY <1>1, <1>2, <1>3 DEF TypeOK

LEMMA HolderFinishes ==
  ASSUME TypeOK, HandleHeld, NEW s \in Session,
         EndCommit(s) \/ EndRollback(s) \/ InnerFinish(s)
  PROVE  Finishing(s)
<1>1. pool[s] # Shared
  BY DEF EndCommit, EndRollback, InnerFinish, InClosure, HandleHeld
<1>2. pool[s] \in Txn
  BY <1>1 DEF TypeOK, Conn
<1>3. CommitNil(pool[s]) \/ CommitError(pool[s]) \/ Rollback(pool[s])
  BY DEF EndCommit, EndRollback, InnerFinish
<1>4. UNCHANGED <<up, job, nop>>
  BY DEF EndCommit, EndRollback, InnerFinish
<1> QED
  BY <1>2, <1>3, <1>4, SdkCallFinishes DEF Finishing

-----------------------------------------------------------------------------
(***************************************************************************)
(* Type correctness.                                                       *)
(***************************************************************************)
LEMMA NoWritesType == NoWrites \in [Key -> Val \cup {Same}]
  BY DEF NoWrites

LEMMA OntoWrites ==
  ASSUME NEW W \in [Key -> Val \cup {Same}], NEW V \in [Key -> Val \cup {Same}]
  PROVE  Onto(W, V) \in [Key -> Val \cup {Same}]
  BY DEF Onto

LEMMA ServerStepType ==
  ASSUME TypeOK, Sends \/ (\E t \in Txn : Ends(t)) \/ UNCHANGED server
  PROVE  /\ db' \in [Key -> Val]
         /\ srv' \in [Txn -> {"none", "open", "committed", "cancelled", "lost"}]
         /\ buf' \in [Txn -> [Key -> Val \cup {Same}]]
<1> USE DEF TypeOK
<1>1. CASE Sends
  <2>1. PICK c \in Conn : \E W : Tagged(c, W) /\ Send(c, W)
    BY <1>1 DEF Sends
  <2>2. PICK W : Tagged(c, W) /\ Send(c, W)
    BY <2>1
  <2>3. W \in [Key -> Val \cup {Same}]
    BY <2>2 DEF Tagged
  <2>4. srv' = srv
    BY <2>2 DEF Send
  <2>5. CASE c = Shared
    BY <2>2, <2>3, <2>4, <2>5, OntoType DEF Send
  <2>6. CASE c # Shared
    <3>1. c \in Txn /\ buf' = [buf EXCEPT ![c] = Onto(W, buf[c])] /\ db' = db
      BY <2>2, <2>6 DEF Send, Conn
    <3>2. Onto(W, buf[c]) \in [Key -> Val \cup {Same}]
      BY <2>3, <3>1, OntoWrites
    <3> QED
      BY <2>4, <3>1, <3>2
  <2> QED
    BY <2>5, <2>6
<1>2. ASSUME NEW t \in Txn, Ends(t)
      PROVE  /\ db' \in [Key -> Val]
             /\ srv' \in [Txn -> {"none", "open", "committed", "cancelled", "lost"}]
             /\ buf' \in [Txn -> [Key -> Val \cup {Same}]]
  <2>1. Onto(buf[t], db) \in [Key -> Val]
    BY OntoType
  <2> QED
    BY <1>2, <2>1, NoWritesType DEF Ends, ServerEnds
<1>3. CASE UNCHANGED server
  BY <1>3 DEF server
<1> QED
  BY <1>1, <1>2, <1>3

LEMMA TypeInit == Init => TypeOK
<1> SUFFICES ASSUME Init PROVE TypeOK
  OBVIOUS
<1> USE GormTxAssumption DEF Init
<1>1. db \in [Key -> Val]
  <2>1. ASSUME NEW k \in Key
        PROVE  Initial(k \in Seeded) \in Val
    <3>1. (k \in Seeded) \in BOOLEAN
      OBVIOUS
    <3> QED
      BY <3>1, InitialType, Zenon
  <2> QED
    BY <2>1, Zenon
<1>2. buf \in [Txn -> [Key -> Val \cup {Same}]]
  BY NoWritesType
<1>3. nop \in OpId
  BY DEF OpId
<1> QED
  BY <1>1, <1>2, <1>3 DEF TypeOK, Conn

\* A step that sends nothing and ends nothing.
LocalStep(s) == StartJob(s) \/ JobFails(s) \/ Closure(s)

LEMMA LocalStepType ==
  ASSUME TypeOK, NEW s \in Session, LocalStep(s)
  PROVE  /\ UNCHANGED <<server, up, pool, closed, expired, told>>
         /\ job' \in [Session -> Job \cup {NoJob}]
         /\ nop' \in OpId
         /\ finish' = finish \/ /\ InClosure(s)
                                /\ \E how \in {"commit", "rollback"} :
                                     finish' = [finish EXCEPT ![s] = how]
<1>1. ASSUME NEW o \in Owner, NEW T \in SUBSET Target, NEW kind \in {"save", "unlink", "wipe"},
             Start(s, kind, o, T)
      PROVE  /\ UNCHANGED <<server, up, pool, closed, expired, told, finish>>
             /\ job' \in [Session -> Job \cup {NoJob}] /\ nop' \in OpId
  <2> DEFINE j == [kind |-> kind, op |-> nop + 1, owner |-> o, want |-> T, left |-> T]
  <2>1. nop + 1 \in OpId /\ nop' = nop + 1
    BY <1>1, NextOp DEF Start
  <2>2. j \in Job
    BY <2>1, GormTxAssumption DEF Job
  <2>3. job' = [job EXCEPT ![s] = j]
    BY <1>1 DEF Start
  <2> HIDE DEF j
  <2>4. job' \in [Session -> Job \cup {NoJob}]
    BY <2>2, <2>3 DEF TypeOK
  <2> QED
    BY <1>1, <2>1, <2>4 DEF Start
<1>2. CASE StartJob(s)
  BY <1>1, <1>2 DEF StartJob, Save, AssocDelete, AssocReplace
<1>3. CASE JobFails(s)
  BY <1>3 DEF JobFails, TypeOK
<1>4. CASE Closure(s)
  BY <1>4 DEF Closure, ClosureReturns, TypeOK
<1> QED
  BY <1>2, <1>3, <1>4 DEF LocalStep

\* The kinds of step a driver takes.
LEMMA StepKinds ==
  ASSUME TypeOK, HandleHeld, Next
  PROVE  \/ DataStep
         \/ \E s \in Session : LocalStep(s)
         \/ \E s \in Session, t \in Txn : Begin(s, t)
         \/ \E s \in Session : /\ Finishing(s)
                               /\ EndCommit(s) \/ EndRollback(s) \/ InnerFinish(s)
         \/ \E t \in Txn : Expire(t)
         \/ Drop
         \/ Reconnect
  BY RoutedCallbackIsDataStep, DirectCallbackIsDataStep, JobStepIsDataStep, HolderFinishes
     DEF Next, JobStep, LocalStep

LEMMA TypeStep == TypeOK /\ HandleHeld /\ [Next]_vars => TypeOK'
<1> SUFFICES ASSUME TypeOK, HandleHeld, [Next]_vars PROVE TypeOK'
  OBVIOUS
<1>1. CASE DataStep
  <2>1. Sends /\ UNCHANGED <<pool, finish, told>> /\ nop' \in OpId
        /\ job' \in [Session -> Job \cup {NoJob}]
    BY <1>1 DEF DataStep
  <2>2. UNCHANGED <<up, closed, expired>>
    BY <2>1 DEF Sends, Send
  <2> QED
    BY <2>1, <2>2, ServerStepType DEF TypeOK
<1>2. ASSUME NEW s \in Session, LocalStep(s) PROVE TypeOK'
  <2>1. finish' \in [Session -> {"no", "commit", "rollback"}]
    BY <1>2, LocalStepType DEF TypeOK
  <2>2. UNCHANGED <<db, srv, buf, up, pool, closed, expired, told>>
    BY <1>2, LocalStepType DEF server
  <2>3. job' \in [Session -> Job \cup {NoJob}] /\ nop' \in OpId
    BY <1>2, LocalStepType
  <2> QED
    BY <2>1, <2>2, <2>3 DEF TypeOK
<1>3. ASSUME NEW s \in Session, NEW t \in Txn, Begin(s, t) PROVE TypeOK'
  <2>1. t \in Conn
    BY DEF Conn
  <2> QED
    BY <1>3, <2>1 DEF Begin, TypeOK
<1>4. ASSUME NEW s \in Session, Finishing(s),
             EndCommit(s) \/ EndRollback(s) \/ InnerFinish(s)
      PROVE  TypeOK'
  <2>1. pool[s] \in Txn /\ Shared \in Conn
    BY <1>4 DEF Finishing, Conn
  <2>2. pool' \in [Session -> Conn]
    BY <1>4, <2>1 DEF EndCommit, EndRollback, InnerFinish, Return, TypeOK
  <2>3. finish' \in [Session -> {"no", "commit", "rollback"}]
    BY <1>4 DEF EndCommit, EndRollback, InnerFinish, Return, TypeOK
  <2>4. told' \in [Txn -> {"none", "nil", "error", "inner"}]
    BY <1>4, <2>1 DEF EndCommit, EndRollback, InnerFinish, Return, TypeOK
  <2>5. /\ db' \in [Key -> Val]
        /\ srv' \in [Txn -> {"none", "open", "committed", "cancelled", "lost"}]
        /\ buf' \in [Txn -> [Key -> Val \cup {Same}]]
    BY <1>4, ServerStepType DEF Finishing
  <2>6. closed' \in [Txn -> BOOLEAN] /\ expired' \in [Txn -> BOOLEAN]
        /\ UNCHANGED <<up, job, nop>>
    BY <1>4 DEF Finishing
  <2> QED
    BY <2>2, <2>3, <2>4, <2>5, <2>6 DEF TypeOK
<1>5. ASSUME NEW t \in Txn, Expire(t) PROVE TypeOK'
  BY <1>5 DEF Expire, server, client, TypeOK
<1>6. CASE Drop
  BY <1>6, NoWritesType DEF Drop, client, TypeOK
<1>7. CASE Reconnect
  BY <1>7 DEF Reconnect, server, client, TypeOK
<1>8. CASE UNCHANGED vars
  BY <1>8 DEF vars, TypeOK
<1> QED
  BY <1>1, <1>2, <1>3, <1>4, <1>5, <1>6, <1>7, <1>8, StepKinds

-----------------------------------------------------------------------------
(***************************************************************************)
(* Isolation.                                                              *)
(***************************************************************************)
LEMMA SendsIsolation ==
  ASSUME TypeOK, IsolationInv, Sends
  PROVE  IsolationInv'
<1> USE DEF IsolationInv
<1>1. PICK c \in Conn : \E W : Tagged(c, W) /\ Send(c, W)
  BY DEF Sends
<1>2. PICK W : Tagged(c, W) /\ Send(c, W)
  BY <1>1
<1>3. srv' = srv
  BY <1>2 DEF Send
<1>4. CASE c = Shared
  <2>1. db' = Onto(W, db) /\ buf' = buf
    BY <1>2, <1>4 DEF Send
  <2>2. BufferOwned'
    BY <1>3, <2>1 DEF BufferOwned
  <2>3. ASSUME NEW k \in Key, db'[k].tx # Shared, ~db'[k].direct
        PROVE  srv'[db'[k].tx] = "committed"
    <3>1. db'[k] = db[k]
      BY <1>2, <1>4, <2>1, <2>3 DEF Onto, Tagged
    <3> QED
      BY <1>3, <2>3, <3>1 DEF RoutedWritesAreTransactional
  <2> QED
    BY <2>2, <2>3 DEF RoutedWritesAreTransactional
<1>5. CASE c # Shared
  <2>1. c \in Txn /\ db' = db /\ buf' = [buf EXCEPT ![c] = Onto(W, buf[c])] /\ srv[c] = "open"
    BY <1>1, <1>2, <1>5 DEF Send, Conn, Reachable
  <2>2. RoutedWritesAreTransactional'
    BY <1>3, <2>1 DEF RoutedWritesAreTransactional
  <2>3. ASSUME NEW t \in Txn, NEW k \in Key, buf'[t][k] # Same
        PROVE  ~buf'[t][k].direct /\ buf'[t][k].tx = t
    <3>1. CASE t = c /\ W[k] # Same
      <4>1. buf'[t][k] = W[k]
        BY <2>1, <3>1 DEF Onto, TypeOK
      <4> QED
        BY <1>2, <1>5, <3>1, <4>1 DEF Tagged
    <3>2. CASE ~(t = c /\ W[k] # Same)
      <4>1. buf'[t][k] = buf[t][k]
        BY <2>1, <3>2 DEF Onto, TypeOK
      <4> QED
        BY <2>3, <4>1 DEF BufferOwned
    <3> QED
      BY <3>1, <3>2
  <2>4. ASSUME NEW t \in Txn, srv'[t] # "open"
        PROVE  buf'[t] = NoWrites
    BY <1>3, <2>1, <2>4 DEF BufferOwned, TypeOK
  <2> QED
    BY <2>2, <2>3, <2>4 DEF BufferOwned
<1> QED
  BY <1>4, <1>5

LEMMA EndsIsolation ==
  ASSUME TypeOK, IsolationInv, NEW t \in Txn, Ends(t)
  PROVE  IsolationInv'
<1> USE DEF IsolationInv
<1>1. PICK how \in {"committed", "cancelled"} : ServerEnds(t, how)
  BY DEF Ends
<1>2. srv' = [srv EXCEPT ![t] = how] /\ buf' = [buf EXCEPT ![t] = NoWrites]
      /\ db' = IF how = "committed" THEN Onto(buf[t], db) ELSE db
  BY <1>1 DEF ServerEnds
<1>3. srv[t] # "committed"
  <2>1. t # Shared
    BY GormTxAssumption
  <2> QED
    BY <2>1 DEF Ends, Reachable
<1>4. BufferOwned'
  BY <1>2 DEF BufferOwned, NoWrites, TypeOK
<1>5. ASSUME NEW k \in Key, db'[k].tx # Shared, ~db'[k].direct
      PROVE  srv'[db'[k].tx] = "committed"
  <2>1. CASE db'[k] = db[k]
    <3>1. srv[db[k].tx] = "committed"
      BY <1>5, <2>1 DEF RoutedWritesAreTransactional
    <3>2. db[k].tx \in Txn
      BY <1>5, <2>1 DEF TypeOK, Val, Conn
    <3> QED
      BY <1>2, <1>3, <2>1, <3>1, <3>2 DEF TypeOK
  <2>2. CASE db'[k] # db[k]
    <3>1. how = "committed" /\ db'[k] = buf[t][k] /\ buf[t][k] # Same
      BY <1>2, <2>2 DEF Onto, TypeOK
    <3>2. db'[k].tx = t
      BY <3>1 DEF BufferOwned
    <3> QED
      BY <1>2, <3>1, <3>2 DEF TypeOK
  <2> QED
    BY <2>1, <2>2
<1> QED
  BY <1>4, <1>5 DEF RoutedWritesAreTransactional

LEMMA SameServerIsolation ==
  ASSUME IsolationInv, UNCHANGED server
  PROVE  IsolationInv'
  BY DEF IsolationInv, BufferOwned, RoutedWritesAreTransactional, server

LEMMA IsolationStep == TypeOK /\ HandleHeld /\ IsolationInv /\ [Next]_vars => IsolationInv'
<1> SUFFICES ASSUME TypeOK, HandleHeld, IsolationInv, [Next]_vars PROVE IsolationInv'
  OBVIOUS
<1>1. CASE DataStep
  BY <1>1, SendsIsolation DEF DataStep
<1>2. ASSUME NEW s \in Session, LocalStep(s) PROVE IsolationInv'
  BY <1>2, LocalStepType, SameServerIsolation
<1>3. ASSUME NEW s \in Session, NEW t \in Txn, Begin(s, t) PROVE IsolationInv'
  <2>1. srv[t] = "none" /\ srv' = [srv EXCEPT ![t] = "open"] /\ UNCHANGED <<db, buf>>
    BY <1>3 DEF Begin
  <2>2. BufferOwned'
    BY <2>1 DEF IsolationInv, BufferOwned, TypeOK
  <2>3. ASSUME NEW k \in Key, db'[k].tx # Shared, ~db'[k].direct
        PROVE  srv'[db'[k].tx] = "committed"
    <3>1. db[k].tx \in Txn /\ srv[db[k].tx] = "committed"
      <4>1. db' = db /\ db[k] \in Val
        BY <2>1 DEF TypeOK
      <4>2. db[k].tx \in Txn
        BY <2>3, <4>1 DEF Val, Conn
      <4> QED
        BY <2>3, <4>1, <4>2 DEF IsolationInv, RoutedWritesAreTransactional
    <3> QED
      BY <2>1, <3>1 DEF TypeOK
  <2> QED
    BY <2>2, <2>3 DEF IsolationInv, RoutedWritesAreTransactional
<1>4. ASSUME NEW s \in Session, Finishing(s) PROVE IsolationInv'
  BY <1>4, EndsIsolation, SameServerIsolation DEF Finishing
<1>5. ASSUME NEW t \in Txn, Expire(t) PROVE IsolationInv'
  BY <1>5, SameServerIsolation DEF Expire
<1>6. CASE Drop
  <2>1. /\ srv' = [t \in Txn |-> IF srv[t] = "open" THEN "lost" ELSE srv[t]]
        /\ buf' = [t \in Txn |-> NoWrites] /\ db' = db
    BY <1>6 DEF Drop
  <2>2. BufferOwned'
    BY <2>1 DEF BufferOwned, NoWrites
  <2>3. ASSUME NEW k \in Key, db'[k].tx # Shared, ~db'[k].direct
        PROVE  srv'[db'[k].tx] = "committed"
    <3>1. db[k].tx \in Txn /\ srv[db[k].tx] = "committed"
      <4>1. db' = db /\ db[k] \in Val
        BY <2>1 DEF TypeOK
      <4>2. db[k].tx \in Txn
        BY <2>3, <4>1 DEF Val, Conn
      <4> QED
        BY <2>3, <4>1, <4>2 DEF IsolationInv, RoutedWritesAreTransactional
    <3> QED
      BY <2>1, <3>1
  <2> QED
    BY <2>2, <2>3 DEF IsolationInv, RoutedWritesAreTransactional
<1>7. CASE Reconnect
  BY <1>7, SameServerIsolation DEF Reconnect
<1>8. CASE UNCHANGED vars
  BY <1>8, SameServerIsolation DEF vars, server
<1> QED
  BY <1>1, <1>2, <1>3, <1>4, <1>5, <1>6, <1>7, <1>8, StepKinds

-----------------------------------------------------------------------------
(***************************************************************************)
(* Reports.                                                                *)
(***************************************************************************)
\* What ReportInv says of one session, and of one transaction.
HeldBy(s) == LET t == pool[s] IN
  /\ t = Shared => finish[s] = "no"
  /\ t # Shared => /\ srv[t] # "none"
                   /\ told[t] \in {"none", "inner"}
                   /\ closed[t] /\ finish[s] # "rollback" => told[t] = "inner"
                   /\ srv[t] = "committed" /\ told[t] = "none" => expired[t]

Exclusive == \A s, r \in Session : pool[s] = pool[r] /\ pool[s] # Shared => s = r

Reported(t) == /\ srv[t] = "none" => told[t] = "none" /\ ~closed[t]
               /\ told[t] = "nil" => srv[t] = "committed"
               /\ told[t] = "error" /\ srv[t] = "committed" => expired[t]

LEMMA ReportParts ==
  ReportInv <=> /\ \A s \in Session : HeldBy(s)
                /\ Exclusive
                /\ \A t \in Txn : Reported(t)
  BY DEF ReportInv, HandleHeld, Unopened, ReportsAreTrue, HeldBy, Exclusive, Reported

LEMMA ReportPartsNext ==
  ReportInv' <=> /\ \A s \in Session : HeldBy(s)'
                 /\ Exclusive'
                 /\ \A t \in Txn : Reported(t)'
  BY DEF ReportInv, HandleHeld, Unopened, ReportsAreTrue, HeldBy, Exclusive, Reported

LEMMA FinishingReports ==
  ASSUME TypeOK, ReportInv, NEW s \in Session, Finishing(s),
         EndCommit(s) \/ EndRollback(s) \/ InnerFinish(s)
  PROVE  ReportInv'
<1>h. (\A r \in Session : HeldBy(r)) /\ Exclusive /\ (\A u \in Txn : Reported(u))
  BY ReportParts
<1>t. PICK t \in Txn : t = pool[s] /\ t # Shared /\ Shared \notin Txn
  BY GormTxAssumption DEF Finishing
<1>1. srv' = srv \/ /\ srv[t] = "open"
                    /\ \E how \in {"committed", "cancelled"} : srv' = [srv EXCEPT ![t] = how]
  BY <1>t DEF Finishing, Ends, Reachable, ServerEnds, server
<1>2. /\ pool' = pool \/ pool' = [pool EXCEPT ![s] = Shared]
      /\ \E f \in {"no", "rollback"} : finish' = finish \/ finish' = [finish EXCEPT ![s] = f]
      /\ told' = told \/ \E w \in {"nil", "error", "inner"} : told' = [told EXCEPT ![t] = w]
  BY <1>t DEF EndCommit, EndRollback, InnerFinish, Return
<1>3. ASSUME NEW u \in Txn, u # t
      PROVE  srv'[u] = srv[u] /\ closed'[u] = closed[u] /\ expired'[u] = expired[u]
             /\ told'[u] = told[u]
  BY <1>1, <1>2, <1>3, <1>t DEF Finishing, TypeOK
<1>4. ASSUME NEW u \in Txn, u # t PROVE Reported(u)'
  BY <1>3, <1>4, <1>h DEF Reported
<1>5. ASSUME NEW r \in Session, r # s PROVE HeldBy(r)'
  <2>1. pool'[r] = pool[r] /\ finish'[r] = finish[r] /\ pool[r] # t
    BY <1>2, <1>5, <1>h, <1>t DEF TypeOK, Exclusive
  <2>2. pool[r] = Shared \/ pool[r] \in Txn
    BY DEF TypeOK, Conn
  <2> QED
    BY <1>3, <1>h, <2>1, <2>2 DEF HeldBy
<1>6. Exclusive'
  BY <1>2, <1>h DEF Exclusive, TypeOK
<1>7. /\ srv[t] # "none" /\ told[t] \in {"none", "inner"}
      /\ closed[t] /\ finish[s] # "rollback" => told[t] = "inner"
      /\ srv[t] = "committed" /\ told[t] = "none" => expired[t]
  BY <1>h, <1>t DEF HeldBy
<1>8. srv'[t] # "none"
  BY <1>1, <1>7, <1>t DEF TypeOK
<1>9. HeldBy(s)' /\ Reported(t)'
  <2>1. CASE EndCommit(s) /\ CommitNil(t) /\ Return(s, "nil")
    <3>1. pool'[s] = Shared /\ finish'[s] = "no"
          /\ told'[t] = IF told[t] = "inner" THEN "inner" ELSE "nil"
      BY <2>1, <1>t DEF Return, TypeOK
    <3>2. told[t] # "inner" => srv'[t] = "committed"
      <4>1. finish[s] # "rollback"
        BY <2>1 DEF EndCommit
      <4> QED
        BY <2>1, <4>1, <1>7, <1>t DEF CommitNil, ServerEnds, TypeOK
    <3> QED
      BY <3>1, <3>2, <1>8 DEF HeldBy, Reported
  <2>2. CASE EndCommit(s) /\ CommitError(t) /\ finish' = [finish EXCEPT ![s] = "rollback"]
             /\ UNCHANGED <<pool, told>>
    <3>1. finish'[s] = "rollback" /\ pool'[s] = t /\ told'[t] = told[t]
      BY <2>2, <1>t DEF TypeOK
    <3>2. srv'[t] = "committed" /\ told[t] = "none" => expired'[t]
      BY <2>2, <1>7, <1>t DEF CommitError, ServerEnds, server, TypeOK
    <3> QED
      BY <3>1, <3>2, <1>7, <1>8, <1>t DEF HeldBy, Reported
  <2>3. CASE EndRollback(s)
    <3>1. pool'[s] = Shared /\ finish'[s] = "no"
          /\ told'[t] = IF told[t] = "inner" THEN "inner" ELSE "error"
      BY <2>3, <1>t DEF EndRollback, Return, TypeOK
    <3>2. srv'[t] = "committed" => srv[t] = "committed" /\ expired'[t] = expired[t]
      BY <2>3, <1>t DEF EndRollback, Rollback, ServerEnds, server, TypeOK
    <3> QED
      BY <3>1, <3>2, <1>7, <1>8 DEF HeldBy, Reported
  <2>4. CASE InnerFinish(s)
    <3>1. pool'[s] = t /\ finish'[s] = "no" /\ told'[t] = "inner"
      BY <2>4, <1>t DEF InnerFinish, InClosure, Idle, TypeOK
    <3> QED
      BY <3>1, <1>8, <1>t DEF HeldBy, Reported
  <2> QED
    BY <2>1, <2>2, <2>3, <2>4, <1>t DEF EndCommit
<1> QED
  BY <1>4, <1>5, <1>6, <1>9, ReportPartsNext

LEMMA ReportStep == TypeOK /\ ReportInv /\ [Next]_vars => ReportInv'
<1> SUFFICES ASSUME TypeOK, ReportInv, [Next]_vars PROVE ReportInv'
  OBVIOUS
<1>h. (\A s \in Session : HeldBy(s)) /\ Exclusive /\ (\A t \in Txn : Reported(t))
  BY ReportParts
<1>c. \A s \in Session : pool[s] = Shared \/ pool[s] \in Txn
  BY DEF TypeOK, Conn
<1>u. ASSUME UNCHANGED <<srv, pool, finish, closed, expired, told>> PROVE ReportInv'
  BY <1>u DEF ReportInv, HandleHeld, Unopened, ReportsAreTrue
<1>1. CASE DataStep
  BY <1>1, <1>u DEF DataStep, Sends, Send
<1>2. ASSUME NEW s \in Session, LocalStep(s) PROVE ReportInv'
  <2>1. UNCHANGED <<srv, pool, closed, expired, told>>
    BY <1>2, LocalStepType DEF server
  <2>2. finish' = finish \/ /\ finish[s] = "no" /\ pool[s] # Shared
                            /\ \E how \in {"commit", "rollback"} :
                                 finish' = [finish EXCEPT ![s] = how]
    BY <1>2, LocalStepType DEF InClosure, Idle
  <2>3. \A r \in Session : HeldBy(r)'
    BY <1>h, <2>1, <2>2 DEF HeldBy, TypeOK
  <2>4. Exclusive' /\ \A t \in Txn : Reported(t)'
    BY <1>h, <2>1 DEF Exclusive, Reported
  <2> QED
    BY <2>3, <2>4, ReportPartsNext
<1>3. ASSUME NEW s \in Session, NEW t \in Txn, Begin(s, t) PROVE ReportInv'
  <2>1. /\ srv[t] = "none" /\ srv' = [srv EXCEPT ![t] = "open"]
        /\ pool[s] = Shared /\ pool' = [pool EXCEPT ![s] = t] /\ finish[s] = "no"
        /\ UNCHANGED <<finish, closed, expired, told>>
    BY <1>3 DEF Begin, Idle
  <2>2. \A r \in Session : pool[r] # t
    BY <2>1, <1>h, GormTxAssumption DEF HeldBy
  <2>3. told[t] = "none" /\ ~closed[t] /\ t # Shared
    BY <2>1, <1>h, GormTxAssumption DEF Reported
  <2>4. ASSUME NEW r \in Session PROVE HeldBy(r)'
    <3>1. CASE r = s
      BY <2>1, <2>3, <3>1 DEF HeldBy, TypeOK
    <3>2. CASE r # s
      BY <1>c, <1>h, <2>1, <2>2, <3>2 DEF HeldBy, TypeOK
    <3> QED
      BY <3>1, <3>2
  <2>5. Exclusive'
    BY <1>h, <2>1, <2>2 DEF Exclusive, TypeOK
  <2>6. ASSUME NEW u \in Txn PROVE Reported(u)'
    BY <1>h, <2>1, <2>3 DEF Reported, TypeOK
  <2> QED
    BY <2>4, <2>5, <2>6, ReportPartsNext
<1>4. ASSUME NEW s \in Session, Finishing(s),
             EndCommit(s) \/ EndRollback(s) \/ InnerFinish(s)
      PROVE  ReportInv'
  BY <1>4, FinishingReports
<1>5. ASSUME NEW t \in Txn, Expire(t) PROVE ReportInv'
  <2>1. expired' = [expired EXCEPT ![t] = TRUE]
        /\ UNCHANGED <<srv, pool, finish, closed, told>>
    BY <1>5 DEF Expire, server, client
  <2>2. \A u \in Txn : expired[u] => expired'[u]
    BY <2>1 DEF TypeOK
  <2>3. \A r \in Session : HeldBy(r)'
    BY <1>c, <1>h, <2>1, <2>2 DEF HeldBy
  <2>4. Exclusive' /\ \A u \in Txn : Reported(u)'
    BY <1>h, <2>1, <2>2 DEF Exclusive, Reported
  <2> QED
    BY <2>3, <2>4, ReportPartsNext
<1>6. CASE Drop
  <2>1. /\ srv' = [t \in Txn |-> IF srv[t] = "open" THEN "lost" ELSE srv[t]]
        /\ UNCHANGED <<pool, finish, closed, expired, told>>
    BY <1>6 DEF Drop, client
  <2>2. \A r \in Session : HeldBy(r)'
    BY <1>c, <1>h, <2>1 DEF HeldBy
  <2>3. Exclusive' /\ \A u \in Txn : Reported(u)'
    BY <1>h, <2>1 DEF Exclusive, Reported
  <2> QED
    BY <2>2, <2>3, ReportPartsNext
<1>7. CASE Reconnect
  BY <1>7, <1>u DEF Reconnect, server, client
<1>8. CASE UNCHANGED vars
  BY <1>8, <1>u DEF vars
<1> QED
  BY <1>1, <1>2, <1>3, <1>4, <1>5, <1>6, <1>7, <1>8, StepKinds DEF ReportInv

-----------------------------------------------------------------------------
(***************************************************************************)
(* Saves and their relations.  An edge keeps the callback and the ends it  *)
(* was made with, also when it is deleted, and is made over one connection *)
(* only.  So an edge that a connection sees is seen there as long as its   *)
(* transaction goes on, and by all once it is committed.                   *)
(*                                                                         *)
(* The operators and lemmas of this section are about any contents d and   *)
(* buffers b of the server: they are used for those before a step and for  *)
(* those after it.                                                         *)
(***************************************************************************)
\* What connection c sees: View, of contents d and buffers b.
Seen(d, b, c) == IF c = Shared THEN d ELSE Onto(b[c], d)

SameEdge(v, w) == v.op = w.op /\ v.ends = w.ends

\* An edge that is in the store is the same in every buffer, and one that is not
\* is in one buffer at most.
EdgesOnce(d, b) ==
  /\ \A e \in Edge : d[e].alive => d[e].op # 0
  /\ \A t \in Txn, e \in Edge : b[t][e] # Same =>
       /\ b[t][e].op # 0
       /\ d[e].op # 0 => SameEdge(b[t][e], d[e])
       /\ \A u \in Txn \ {t} : b[u][e] # Same => d[e].op # 0

\* f has the relation from r to x that callback o made.
Made(f, o, r, x) == \E e \in Edge : f[e].op = o /\ f[e].op # 0 /\ f[e].ends = <<r, x>>

\* The rows of f that show a Save have its relations.
Shown(f) == \A r \in Row : \A x \in f[r].want : Made(f, f[r].op, r, x)

\* The edges of f are those of g, if perhaps deleted.
Kept(f, g) == \A e \in Edge : f[e].op # 0 => SameEdge(g[e], f[e])

\* A write of new edges, or of edges that c sees without making them others, and of
\* rows whose relations c sees.
Lawful(d, b, c, W) ==
  /\ \A e \in Edge : W[e] # Same =>
       /\ W[e].op # 0
       /\ \/ d[e].op = 0 /\ \A t \in Txn : b[t][e] = Same
          \/ Seen(d, b, c)[e].op # 0 /\ SameEdge(W[e], Seen(d, b, c)[e])
  /\ \A r \in Row : W[r] # Same => \A x \in W[r].want : Made(Seen(d, b, c), W[r].op, r, x)

Good(d, b) == EdgesOnce(d, b) /\ \A c \in Conn : Shown(Seen(d, b, c))

Typed(d, b) == d \in [Key -> Val] /\ b \in [Txn -> [Key -> Val \cup {Same}]]

LEMMA SeenAt ==
  ASSUME NEW d, NEW b, NEW t \in Txn
  PROVE  \A k \in Key : Seen(d, b, t)[k] = IF b[t][k] = Same THEN d[k] ELSE b[t][k]
<1>1. t # Shared
  BY GormTxAssumption
<1> QED
  BY <1>1 DEF Seen, Onto

LEMMA Keys == (\A e \in Edge : e \in Key) /\ (\A r \in Row : r \in Key /\ r \notin Edge)
  BY GormTxAssumption DEF Key

LEMMA KeptMade ==
  ASSUME NEW f, NEW g, Kept(f, g), NEW o, NEW r, NEW x, Made(f, o, r, x)
  PROVE  Made(g, o, r, x)
  BY DEF Kept, Made, SameEdge

\* What the store has, every connection sees.
LEMMA SharedMade ==
  ASSUME NEW d, NEW b, EdgesOnce(d, b), NEW c \in Conn
  PROVE  Kept(d, Seen(d, b, c))
<1>1. CASE c = Shared
  BY <1>1 DEF Seen, Kept, SameEdge
<1>2. CASE c \in Txn
  <2>1. ASSUME NEW e \in Edge, d[e].op # 0 PROVE SameEdge(Seen(d, b, c)[e], d[e])
    <3>1. Seen(d, b, c)[e] = IF b[c][e] = Same THEN d[e] ELSE b[c][e]
      BY <1>2, SeenAt, Keys
    <3>2. b[c][e] # Same => SameEdge(b[c][e], d[e])
      BY <1>2, <2>1 DEF EdgesOnce
    <3> QED
      BY <3>1, <3>2 DEF SameEdge
  <2> QED
    BY <2>1 DEF Kept
<1> QED
  BY <1>1, <1>2 DEF Conn

\* The store changes under a transaction.
LEMMA ShownBelow ==
  ASSUME NEW d, NEW b, NEW d2, NEW b2, NEW t \in Txn, b2[t] = b[t],
         EdgesOnce(d2, b2), Shown(d2), Shown(Seen(d, b, t)),
         Kept(Seen(d, b, t), Seen(d2, b2, t))
  PROVE  Shown(Seen(d2, b2, t))
<1> DEFINE f == Seen(d, b, t)
           g == Seen(d2, b2, t)
<1>1. ASSUME NEW r \in Row, NEW x \in g[r].want PROVE Made(g, g[r].op, r, x)
  <2>1. /\ f[r] = IF b[t][r] = Same THEN d[r] ELSE b[t][r]
        /\ g[r] = IF b[t][r] = Same THEN d2[r] ELSE b[t][r]
    <3>1. \A k \in Key : f[k] = IF b[t][k] = Same THEN d[k] ELSE b[t][k]
      BY SeenAt
    <3>2. \A k \in Key : g[k] = IF b[t][k] = Same THEN d2[k] ELSE b[t][k]
      BY SeenAt
    <3> QED
      BY <3>1, <3>2, Keys
  <2>2. CASE b[t][r] = Same
    <3>1. Made(d2, g[r].op, r, x)
      BY <1>1, <2>1, <2>2 DEF Shown
    <3>2. Kept(d2, g)
      BY SharedMade DEF Conn
    <3> QED
      BY <3>1, <3>2, KeptMade
  <2>3. CASE b[t][r] # Same
    <3>1. g[r] = f[r]
      BY <2>1, <2>3
    <3>2. Made(f, g[r].op, r, x)
      BY <1>1, <3>1 DEF Shown
    <3> QED
      BY <3>2, KeptMade
  <2> QED
    BY <2>2, <2>3
<1> QED
  BY <1>1 DEF Shown

\* A lawful write to the store.
LEMMA LawfulShared ==
  ASSUME NEW d, NEW b, Typed(d, b), Good(d, b), NEW W, Lawful(d, b, Shared, W)
  PROVE  LET d2 == Onto(W, d) IN
         Good(d2, b) /\ \A c \in Conn : Kept(Seen(d, b, c), Seen(d2, b, c))
<1> DEFINE d2 == Onto(W, d)
<1>0. EdgesOnce(d, b) /\ (\A c \in Conn : Shown(Seen(d, b, c))) /\ Shown(d)
  BY DEF Good, Conn, Seen
<1>1. \A k \in Key : d2[k] = IF W[k] = Same THEN d[k] ELSE W[k]
  BY DEF Onto
<1> HIDE DEF d2
<1>2. Kept(d, d2)
  <2>1. ASSUME NEW e \in Edge, d[e].op # 0 PROVE SameEdge(d2[e], d[e])
    BY <1>1, <2>1, Keys DEF Lawful, Seen, SameEdge
  <2> QED
    BY <2>1 DEF Kept
<1>3. ASSUME NEW e \in Edge, d[e].op = 0, d2[e].op # 0
      PROVE  \A t \in Txn : b[t][e] = Same
  BY <1>1, <1>3, Keys DEF Lawful, Seen
<1>4. EdgesOnce(d2, b)
  <2>1. ASSUME NEW e \in Edge, d2[e].alive PROVE d2[e].op # 0
    BY <1>0, <1>1, <2>1, Keys DEF EdgesOnce, Lawful
  <2>2. ASSUME NEW t \in Txn, NEW e \in Edge, b[t][e] # Same
        PROVE  /\ b[t][e].op # 0
               /\ d2[e].op # 0 => SameEdge(b[t][e], d2[e])
               /\ \A u \in Txn \ {t} : b[u][e] # Same => d2[e].op # 0
    BY <1>0, <1>2, <1>3, <2>2 DEF EdgesOnce, Kept, SameEdge
  <2> QED
    BY <2>1, <2>2 DEF EdgesOnce
<1>5. ASSUME NEW c \in Conn PROVE Kept(Seen(d, b, c), Seen(d2, b, c))
  <2>1. CASE c = Shared
    BY <1>2, <2>1 DEF Seen
  <2>2. CASE c \in Txn
    <3>1. \A k \in Key : Seen(d, b, c)[k] = IF b[c][k] = Same THEN d[k] ELSE b[c][k]
      BY <2>2, SeenAt
    <3>2. \A k \in Key : Seen(d2, b, c)[k] = IF b[c][k] = Same THEN d2[k] ELSE b[c][k]
      BY <2>2, SeenAt
    <3>3. ASSUME NEW e \in Edge, Seen(d, b, c)[e].op # 0
          PROVE  SameEdge(Seen(d2, b, c)[e], Seen(d, b, c)[e])
      BY <1>2, <3>1, <3>2, <3>3, Keys DEF Kept, SameEdge
    <3> QED
      BY <3>3 DEF Kept
  <2> QED
    BY <2>1, <2>2 DEF Conn
<1>6. Shown(d2)
  <2>1. ASSUME NEW r \in Row, NEW x \in d2[r].want PROVE Made(d, d2[r].op, r, x)
    BY <1>0, <1>1, <2>1, Keys DEF Shown, Lawful, Seen
  <2> QED
    BY <1>2, <2>1, KeptMade DEF Shown
<1>7. ASSUME NEW c \in Conn PROVE Shown(Seen(d2, b, c))
  <2>1. CASE c = Shared
    BY <1>6, <2>1 DEF Seen
  <2>2. CASE c \in Txn
    BY <1>0, <1>4, <1>5, <1>6, <2>2, ShownBelow
  <2> QED
    BY <2>1, <2>2 DEF Conn
<1> QED
  BY <1>4, <1>5, <1>7 DEF Good, d2

\* A lawful write to a transaction.
LEMMA LawfulInTx ==
  ASSUME NEW d, NEW b, Typed(d, b), Good(d, b), NEW t \in Txn, NEW W, Lawful(d, b, t, W)
  PROVE  LET b2 == [b EXCEPT ![t] = Onto(W, @)] IN
         Good(d, b2) /\ \A c \in Conn : Kept(Seen(d, b, c), Seen(d, b2, c))
<1> DEFINE b2 == [b EXCEPT ![t] = Onto(W, @)]
<1>0. EdgesOnce(d, b) /\ \A c \in Conn : Shown(Seen(d, b, c))
  BY DEF Good
<1>1. /\ \A k \in Key : b2[t][k] = IF W[k] = Same THEN b[t][k] ELSE W[k]
      /\ \A u \in Txn \ {t} : b2[u] = b[u]
  BY DEF Onto, Typed
<1> HIDE DEF b2
<1>s. \A k \in Key : Seen(d, b, t)[k] = IF b[t][k] = Same THEN d[k] ELSE b[t][k]
  BY SeenAt
<1>2. \A k \in Key : Seen(d, b2, t)[k] = IF W[k] = Same THEN Seen(d, b, t)[k] ELSE W[k]
  <2>1. \A k \in Key : Seen(d, b2, t)[k] = IF b2[t][k] = Same THEN d[k] ELSE b2[t][k]
    BY SeenAt
  <2> QED
    BY <1>1, <1>s, <2>1
<1>3. ASSUME NEW c \in Conn, c # t PROVE Seen(d, b2, c) = Seen(d, b, c)
  BY <1>1, <1>3 DEF Seen, Conn
<1>4. EdgesOnce(d, b2)
  <2>1. ASSUME NEW u \in Txn, NEW e \in Edge, b2[u][e] # Same
        PROVE  /\ b2[u][e].op # 0
               /\ d[e].op # 0 => SameEdge(b2[u][e], d[e])
               /\ \A v \in Txn \ {u} : b2[v][e] # Same => d[e].op # 0
    <3> e \in Key
      BY Keys
    <3>1. CASE W[e] = Same
      <4>1. \A v \in Txn : b2[v][e] = b[v][e]
        BY <1>1, <3>1
      <4> QED
        BY <1>0, <2>1, <4>1 DEF EdgesOnce
    <3>2. CASE W[e] # Same /\ d[e].op = 0 /\ \A v \in Txn : b[v][e] = Same
      <4>1. \A v \in Txn \ {t} : b2[v][e] = Same
        BY <1>1, <3>2
      <4>2. u = t /\ b2[u][e] = W[e]
        BY <1>1, <2>1, <3>2, <4>1
      <4> QED
        BY <3>2, <4>1, <4>2 DEF Lawful
    <3>3. CASE W[e] # Same /\ ~(d[e].op = 0 /\ \A v \in Txn : b[v][e] = Same)
      <4>1. W[e].op # 0 /\ Seen(d, b, t)[e].op # 0 /\ SameEdge(W[e], Seen(d, b, t)[e])
        BY <3>3 DEF Lawful
      <4>2. CASE b[t][e] = Same
        <5>1. d[e].op # 0 /\ SameEdge(W[e], d[e])
          BY <1>s, <4>1, <4>2
        <5>2. CASE u = t
          BY <1>1, <3>3, <4>1, <5>1, <5>2
        <5>3. CASE u # t
          BY <1>0, <1>1, <2>1, <5>1, <5>3 DEF EdgesOnce
        <5> QED
          BY <5>2, <5>3
      <4>3. CASE b[t][e] # Same
        <5>1. SameEdge(W[e], b[t][e])
          BY <1>s, <4>1, <4>3
        <5>2. \A v \in Txn : b2[v][e] # Same => b[v][e] # Same
          BY <1>1, <4>3
        <5>3. b2[u][e].op # 0 /\ SameEdge(b2[u][e], b[u][e])
          BY <1>0, <1>1, <2>1, <3>3, <4>1, <5>1 DEF SameEdge, EdgesOnce
        <5> QED
          BY <1>0, <2>1, <5>2, <5>3 DEF EdgesOnce, SameEdge
      <4> QED
        BY <4>2, <4>3
    <3> QED
      BY <3>1, <3>2, <3>3
  <2> QED
    BY <1>0, <2>1 DEF EdgesOnce
<1>5. Kept(Seen(d, b, t), Seen(d, b2, t))
  <2>1. ASSUME NEW e \in Edge, Seen(d, b, t)[e].op # 0, W[e] # Same
        PROVE  SameEdge(W[e], Seen(d, b, t)[e])
    BY <1>s, <2>1, Keys DEF Lawful
  <2> QED
    BY <1>2, <2>1, Keys DEF Kept, SameEdge
<1>6. ASSUME NEW c \in Conn PROVE Kept(Seen(d, b, c), Seen(d, b2, c))
  BY <1>3, <1>5, <1>6 DEF Kept, SameEdge
<1>7. Shown(Seen(d, b2, t))
  <2> DEFINE f == Seen(d, b, t)
             g == Seen(d, b2, t)
  <2>1. Shown(f)
    BY <1>0 DEF Conn
  <2>2. \A r \in Row : g[r] = IF W[r] = Same THEN f[r] ELSE W[r]
    BY <1>2, Keys
  <2>3. \A r \in Row : W[r] # Same => \A x \in W[r].want : Made(f, W[r].op, r, x)
    BY DEF Lawful
  <2> HIDE DEF f, g
  <2>4. ASSUME NEW r \in Row, NEW x \in g[r].want PROVE Made(f, g[r].op, r, x)
    BY <2>1, <2>2, <2>3, <2>4 DEF Shown
  <2>5. \A r \in Row : \A x \in g[r].want : Made(g, g[r].op, r, x)
    BY <1>5, <2>4, KeptMade DEF f, g
  <2> QED
    BY <2>5 DEF Shown, g
<1>8. ASSUME NEW c \in Conn PROVE Shown(Seen(d, b2, c))
  BY <1>0, <1>3, <1>7, <1>8
<1> QED
  BY <1>4, <1>6, <1>8 DEF Good, b2

\* A transaction ends: its writes are installed or dropped.
LEMMA EndKeeps ==
  ASSUME NEW d, NEW b, Typed(d, b), Good(d, b), NEW t \in Txn,
         NEW d2, d2 = d \/ d2 = Onto(b[t], d)
  PROVE  LET b2 == [b EXCEPT ![t] = NoWrites] IN
         /\ Good(d2, b2)
         /\ \A c \in Conn \ {t} : Kept(Seen(d, b, c), Seen(d2, b2, c))
<1> DEFINE b2 == [b EXCEPT ![t] = NoWrites]
<1>0. EdgesOnce(d, b) /\ (\A c \in Conn : Shown(Seen(d, b, c))) /\ Shown(d)
  BY DEF Good, Conn, Seen
<1>t. t # Shared
  BY GormTxAssumption
<1>1. /\ \A k \in Key : b2[t][k] = Same
      /\ \A u \in Txn \ {t} : b2[u] = b[u]
  BY DEF NoWrites, Typed
<1>2. \/ \A k \in Key : d2[k] = d[k]
      \/ \A k \in Key : d2[k] = IF b[t][k] = Same THEN d[k] ELSE b[t][k]
  BY DEF Onto
<1>3. Shown(d2)
  <2>1. Shown(Onto(b[t], d))
    BY <1>0, <1>t DEF Seen, Conn
  <2> QED
    BY <1>0, <2>1
<1> HIDE DEF b2
<1>4. Kept(d, d2)
  <2>1. ASSUME NEW e \in Edge, d[e].op # 0 PROVE SameEdge(d2[e], d[e])
    BY <1>0, <1>2, <2>1, Keys DEF EdgesOnce, SameEdge
  <2> QED
    BY <2>1 DEF Kept
<1>5. EdgesOnce(d2, b2)
  <2>1. ASSUME NEW e \in Edge, d2[e].alive PROVE d2[e].op # 0
    BY <1>0, <1>2, <2>1, Keys DEF EdgesOnce
  <2>2. ASSUME NEW u \in Txn, NEW e \in Edge, b2[u][e] # Same
        PROVE  /\ b2[u][e].op # 0
               /\ d2[e].op # 0 => SameEdge(b2[u][e], d2[e])
               /\ \A v \in Txn \ {u} : b2[v][e] # Same => d2[e].op # 0
    <3>1. u # t /\ b2[u] = b[u] /\ e \in Key
      BY <1>1, <2>2, Keys
    <3>2. d2[e].op # 0 => SameEdge(b2[u][e], d2[e])
      BY <1>0, <1>2, <2>2, <3>1 DEF EdgesOnce, SameEdge
    <3>3. \A v \in Txn \ {u} : b2[v][e] # Same => d[e].op # 0
      BY <1>0, <1>1, <2>2, <3>1 DEF EdgesOnce
    <3>4. d[e].op # 0 => d2[e].op # 0
      BY <1>4 DEF Kept, SameEdge
    <3> QED
      BY <1>0, <2>2, <3>1, <3>2, <3>3, <3>4 DEF EdgesOnce
  <2> QED
    BY <2>1, <2>2 DEF EdgesOnce
<1>6. ASSUME NEW u \in Txn, u # t PROVE Kept(Seen(d, b, u), Seen(d2, b2, u))
  <2>1. \A k \in Key : Seen(d, b, u)[k] = IF b[u][k] = Same THEN d[k] ELSE b[u][k]
    BY SeenAt
  <2>2. \A k \in Key : Seen(d2, b2, u)[k] = IF b2[u][k] = Same THEN d2[k] ELSE b2[u][k]
    BY SeenAt
  <2>3. ASSUME NEW e \in Edge, Seen(d, b, u)[e].op # 0
        PROVE  SameEdge(Seen(d2, b2, u)[e], Seen(d, b, u)[e])
    BY <1>1, <1>4, <1>6, <2>1, <2>2, <2>3, Keys DEF Kept, SameEdge
  <2> QED
    BY <2>3 DEF Kept
<1>7. Shown(Seen(d2, b2, t))
  <2>1. \A k \in Key : Seen(d2, b2, t)[k] = d2[k]
    <3>1. \A k \in Key : Seen(d2, b2, t)[k] = IF b2[t][k] = Same THEN d2[k] ELSE b2[t][k]
      BY SeenAt
    <3> QED
      BY <1>1, <3>1
  <2> QED
    BY <1>3, <2>1, Keys DEF Shown, Made
<1>8. ASSUME NEW c \in Conn PROVE Shown(Seen(d2, b2, c))
  <2>1. CASE c = Shared
    BY <1>3, <2>1 DEF Seen
  <2>2. CASE c \in Txn \ {t}
    BY <1>0, <1>1, <1>3, <1>5, <1>6, <2>2, ShownBelow DEF Conn
  <2> QED
    BY <1>7, <2>1, <2>2 DEF Conn
<1>9. Kept(Seen(d, b, Shared), Seen(d2, b2, Shared))
  BY <1>4 DEF Seen
<1> QED
  BY <1>5, <1>6, <1>8, <1>9 DEF Good, Conn, b2

\* All transactions are lost.
LEMMA LossKeeps ==
  ASSUME NEW d, NEW b, Typed(d, b), Good(d, b)
  PROVE  LET b2 == [t \in Txn |-> NoWrites] IN
         Good(d, b2) /\ Kept(Seen(d, b, Shared), Seen(d, b2, Shared))
<1> DEFINE b2 == [t \in Txn |-> NoWrites]
<1>1. \A t \in Txn, k \in Key : b2[t][k] = Same
  BY DEF NoWrites
<1> HIDE DEF b2
<1>2. EdgesOnce(d, b2)
  BY <1>1, Keys DEF Good, EdgesOnce
<1>3. Shown(d) /\ Seen(d, b, Shared) = d /\ Seen(d, b2, Shared) = d
  BY DEF Good, Conn, Seen
<1>4. ASSUME NEW t \in Txn PROVE Shown(Seen(d, b2, t))
  <2>1. \A k \in Key : Seen(d, b2, t)[k] = IF b2[t][k] = Same THEN d[k] ELSE b2[t][k]
    BY SeenAt
  <2>2. \A k \in Key : Seen(d, b2, t)[k] = d[k]
    BY <1>1, <2>1
  <2> QED
    BY <1>3, <2>2, Keys DEF Shown, Made
<1>5. Kept(d, d)
  BY DEF Kept, SameEdge
<1> QED
  BY <1>2, <1>3, <1>4, <1>5 DEF Good, Conn, b2

-----------------------------------------------------------------------------
(***************************************************************************)
(* The writes of the driver are lawful.                                    *)
(***************************************************************************)
\* A Save has made the relations it has not left.
SoFar(f, j) == \A x \in j.want \ j.left : Made(f, j.op, j.owner, x)

Live(c) == c # Shared => srv[c] = "open"

JobInv(s) ==
  /\ finish[s] # "no" => job[s] = NoJob
  /\ job[s] # NoJob => job[s].op # 0
  /\ job[s] # NoJob /\ job[s].kind = "save" /\ Live(pool[s]) =>
       SoFar(Seen(db, buf, pool[s]), job[s])

SaveInv == Good(db, buf) /\ \A s \in Session : JobInv(s)

LEMMA NewEdgeLawful ==
  ASSUME NEW c, NEW e \in Edge, Fresh(e), NEW v, v.op # 0
  PROVE  Lawful(db, buf, c, Put({e}, v))
<1>1. \A k \in Key : Put({e}, v)[k] = IF k = e THEN v ELSE Same
  BY DEF Put
<1> QED
  BY <1>1, Keys DEF Lawful, Fresh

LEMMA RelationLawful ==
  ASSUME NEW c, NEW s, NEW o, o # 0, NEW direct, NEW e \in Edge, Fresh(e), NEW from, NEW to
  PROVE  Lawful(db, buf, c, Relation(s, o, direct, e, from, to))
<1> DEFINE v == [Stamp(s, o, direct) EXCEPT !.ends = <<from, to>>]
<1>1. v.op = o
  BY DEF Stamp
<1>2. Relation(s, o, direct, e, from, to) = Put({e}, v)
  BY DEF Relation
<1> HIDE DEF v
<1> QED
  BY <1>1, <1>2, NewEdgeLawful

LEMMA RowsLawful ==
  ASSUME NEW c, NEW R \in SUBSET Row, NEW v,
         \A r \in R : \A x \in v.want : Made(Seen(db, buf, c), v.op, r, x)
  PROVE  Lawful(db, buf, c, Put(R, v))
<1>1. \A k \in Key : Put(R, v)[k] = IF k \in R THEN v ELSE Same
  BY DEF Put
<1>2. \A e \in Edge : e \notin R
  BY Keys
<1> QED
  BY <1>1, <1>2, Keys DEF Lawful

LEMMA AliveMade ==
  ASSUME NEW d, NEW b, EdgesOnce(d, b), NEW c \in Conn, NEW e \in Edge, Seen(d, b, c)[e].alive
  PROVE  Seen(d, b, c)[e].op # 0
<1>1. CASE c = Shared
  BY <1>1 DEF Seen, EdgesOnce
<1>2. CASE c \in Txn
  <2>1. Seen(d, b, c)[e] = IF b[c][e] = Same THEN d[e] ELSE b[c][e]
    BY <1>2, SeenAt, Keys
  <2> QED
    BY <1>2, <2>1 DEF EdgesOnce
<1> QED
  BY <1>1, <1>2 DEF Conn

LEMMA RemoveLawful ==
  ASSUME SaveInv, NEW c \in Conn, NEW s, NEW o, NEW direct, NEW D,
         NEW f \in [Key -> Val], f = Seen(db, buf, c),
         \A e \in Edge : e \in D => f[e].alive
  PROVE  Lawful(db, buf, c, Remove(s, o, direct, f, D))
<1> DEFINE W == Remove(s, o, direct, f, D)
           v == [Stamp(s, o, direct) EXCEPT !.alive = FALSE]
           w(k) == [f[k] EXCEPT !.alive = FALSE, !.tx = pool[s], !.direct = direct]
<1>1. W = [k \in Key |-> CASE k \notin D -> Same
                           [] k \in D /\ k \in Row -> v
                           [] OTHER -> w(k)]
  BY DEF Remove
<1>2. v.want = {}
  BY DEF Stamp
<1>3. ASSUME NEW e \in Edge PROVE w(e).op = f[e].op /\ w(e).ends = f[e].ends
  <2>1. f[e] \in Val
    BY Keys
  <2>2. w(e).op = f[e].op
    BY <2>1 DEF Val
  <2>3. w(e).ends = f[e].ends
    BY <2>1 DEF Val
  <2> QED
    BY <2>2, <2>3
<1> HIDE DEF W, v, w
<1>4. ASSUME NEW r \in Row, W[r] # Same PROVE W[r] = v
  BY <1>1, <1>4, Keys
<1>5. ASSUME NEW e \in Edge, W[e] # Same
      PROVE  W[e].op # 0 /\ f[e].op # 0 /\ SameEdge(W[e], f[e])
  <2>1. e \in Key /\ e \notin Row
    BY Keys
  <2>2. e \in D /\ W[e] = w(e)
    BY <1>1, <1>5, <2>1
  <2>3. f[e].op # 0
    BY <2>2, AliveMade DEF SaveInv, Good
  <2> QED
    BY <1>3, <2>2, <2>3 DEF SameEdge
<1>6. \A r \in Row : W[r] # Same => W[r].want = {}
  BY <1>2, <1>4
<1> QED
  BY <1>5, <1>6 DEF Lawful, W

-----------------------------------------------------------------------------
(***************************************************************************)
(* Every step keeps the relations of the Saves that are shown.             *)
(***************************************************************************)
LEMMA SendKeeps ==
  ASSUME TypeOK, Good(db, buf), NEW c \in Conn, NEW W, Lawful(db, buf, c, W), Send(c, W)
  PROVE  /\ Good(db', buf') /\ srv' = srv
         /\ \A d \in Conn : Kept(Seen(db, buf, d), Seen(db', buf', d))
<1>1. Typed(db, buf)
  BY DEF TypeOK, Typed
<1>2. CASE c = Shared
  <2>1. db' = Onto(W, db) /\ buf' = buf /\ srv' = srv
    BY <1>2 DEF Send
  <2> QED
    BY <1>1, <1>2, <2>1, LawfulShared
<1>3. CASE c \in Txn
  <2>1. db' = db /\ buf' = [buf EXCEPT ![c] = Onto(W, @)] /\ srv' = srv
    BY <1>3, GormTxAssumption DEF Send
  <2> QED
    BY <1>1, <1>3, <2>1, LawfulInTx
<1> QED
  BY <1>2, <1>3 DEF Conn

\* A session that keeps its job and its handle.
LEMMA JobKept ==
  ASSUME NEW s \in Session, JobInv(s),
         job'[s] = job[s], pool'[s] = pool[s], finish'[s] = finish[s] \/ job[s] = NoJob,
         Live(pool[s])' => /\ Live(pool[s])
                           /\ Kept(Seen(db, buf, pool[s]), Seen(db', buf', pool[s]))
  PROVE  JobInv(s)'
<1>1. ASSUME job[s] # NoJob, job[s].kind = "save", Live(pool[s])'
      PROVE  SoFar(Seen(db', buf', pool[s]), job[s])
  <2>1. SoFar(Seen(db, buf, pool[s]), job[s]) /\ Kept(Seen(db, buf, pool[s]), Seen(db', buf', pool[s]))
    BY <1>1 DEF JobInv
  <2> QED
    BY <2>1, KeptMade DEF SoFar
<1> QED
  BY <1>1 DEF JobInv, Live

LEMMA CallbackKeeps ==
  ASSUME TypeOK, SaveInv, NEW s \in Session, NEW c \in Conn, NEW W,
         Lawful(db, buf, c, W), Callback(s, c, W)
  PROVE  SaveInv'
<1>1. UNCHANGED <<pool, job, finish>> /\ Send(c, W)
  BY DEF Callback, client
<1>2. /\ Good(db', buf') /\ srv' = srv
      /\ \A d \in Conn : Kept(Seen(db, buf, d), Seen(db', buf', d))
  BY <1>1, SendKeeps DEF SaveInv
<1>3. ASSUME NEW r \in Session PROVE JobInv(r)'
  <2>1. pool[r] \in Conn
    BY DEF TypeOK
  <2>2. Live(pool[r])' => Live(pool[r])
    BY <1>1, <1>2 DEF Live
  <2> QED
    BY <1>1, <1>2, <2>1, <2>2, JobKept DEF SaveInv
<1> QED
  BY <1>2, <1>3 DEF SaveInv

LEMMA StepKeeps ==
  ASSUME TypeOK, SaveInv, NEW s \in Session, NEW kind, NEW c \in Conn, NEW W, NEW next,
         Running(s), Lawful(db, buf, c, W), Step(s, kind, c, W, next),
         next # NoJob => /\ next.op # 0
                         /\ next.kind = "save" => SoFar(Seen(db', buf', pool[s]), next)
  PROVE  SaveInv'
<1>1. /\ UNCHANGED <<pool, finish>> /\ Send(c, W)
      /\ job'[s] = next
      /\ \A r \in Session \ {s} : job'[r] = job[r]
  BY DEF Step, TypeOK
<1>2. /\ Good(db', buf') /\ srv' = srv
      /\ \A d \in Conn : Kept(Seen(db, buf, d), Seen(db', buf', d))
  BY <1>1, SendKeeps DEF SaveInv
<1>3. ASSUME NEW r \in Session, r # s PROVE JobInv(r)'
  <2>1. pool[r] \in Conn
    BY DEF TypeOK
  <2>2. Live(pool[r])' => Live(pool[r])
    BY <1>1, <1>2 DEF Live
  <2> QED
    BY <1>1, <1>2, <1>3, <2>1, <2>2, JobKept DEF SaveInv
<1>4. JobInv(s)'
  <2>1. finish[s] = "no"
    BY DEF SaveInv, JobInv, Running
  <2> QED
    BY <1>1, <2>1 DEF JobInv
<1> QED
  BY <1>2, <1>3, <1>4 DEF SaveInv

LEMMA RoutedSees ==
  ASSUME TypeOK, NEW s \in Session
  PROVE  /\ Routed(s) \in Conn /\ View(Routed(s)) = Seen(db, buf, Routed(s))
         /\ View(Routed(s)) \in [Key -> Val]
  BY ViewType DEF View, Seen

LEMMA RoutedCallbackKeeps ==
  ASSUME TypeOK, SaveInv, NEW s \in Session, RoutedCallback(s)
  PROVE  SaveInv'
<1> DEFINE c == Routed(s)
           o == nop + 1
<1>c. c \in Conn /\ View(c) = Seen(db, buf, c) /\ View(c) \in [Key -> Val]
  BY RoutedSees
<1>o. o # 0
  BY DEF TypeOK, OpId
<1>p. ASSUME NEW R \in SUBSET Row, Callback(s, c, Put(R, Stamp(s, o, FALSE)))
      PROVE  SaveInv'
  <2>1. Stamp(s, o, FALSE).want = {}
    BY DEF Stamp
  <2>2. Lawful(db, buf, c, Put(R, Stamp(s, o, FALSE)))
    BY <2>1, RowsLawful
  <2> QED
    BY <1>c, <1>p, <2>2, CallbackKeeps
<1>r. ASSUME NEW e \in Edge, Fresh(e), NEW from, NEW to,
             Callback(s, c, Relation(s, o, FALSE, e, from, to))
      PROVE  SaveInv'
  <2>1. Lawful(db, buf, c, Relation(s, o, FALSE, e, from, to))
    BY <1>o, <1>r, RelationLawful
  <2> QED
    BY <1>c, <1>r, <2>1, CallbackKeeps
<1>d. ASSUME NEW R \in SUBSET Row,
             Callback(s, c, Remove(s, o, FALSE, View(c), R \cup Touching(View(c), R)))
      PROVE  SaveInv'
  <2>1. \A e \in Edge : e \in R \cup Touching(View(c), R) => View(c)[e].alive
    BY Keys DEF Touching
  <2>2. Lawful(db, buf, c, Remove(s, o, FALSE, View(c), R \cup Touching(View(c), R)))
    BY <1>c, <2>1, RemoveLawful
  <2> QED
    BY <1>c, <1>d, <2>2, CallbackKeeps
<1> HIDE DEF c, o
<1>1. ASSUME NEW R \in SUBSET Row,
             CreateRows(s, R) \/ CreateMany(s, R) \/ UpdateRows(s, R) \/ SoftDelete(s, R)
      PROVE  SaveInv'
  BY <1>1, <1>p DEF CreateRows, CreateMany, UpdateRows, SoftDelete, o, c
<1>2. ASSUME NEW R \in SUBSET Row, DeleteRows(s, R) PROVE SaveInv'
  BY <1>2, <1>d DEF DeleteRows, o, c
<1>3. ASSUME NEW from, NEW to, CreateEdge(s, from, to) \/ ExecInsertEdge(s, from, to)
      PROVE  SaveInv'
  BY <1>3, <1>r DEF CreateEdge, ExecInsertEdge, NextEdge, o, c
<1>4. ASSUME NEW R \in SUBSET Row, ExecRows(s, R) PROVE SaveInv'
  BY <1>1, <1>2, <1>4 DEF ExecRows
<1> QED
  BY <1>1, <1>2, <1>3, <1>4 DEF RoutedCallback

LEMMA DirectCallbackKeeps ==
  ASSUME TypeOK, SaveInv, NEW s \in Session, DirectCallback(s)
  PROVE  SaveInv'
<1> DEFINE o == nop + 1
<1>c. Shared \in Conn
  BY DEF Conn
<1>o. o # 0
  BY DEF TypeOK, OpId
<1>1. ASSUME NEW R \in SUBSET Row, RawTransaction(s, R) PROVE SaveInv'
  <2>1. Callback(s, Shared, Put(R, Stamp(s, o, TRUE)))
    BY <1>1 DEF RawTransaction, Direct
  <2>2. Stamp(s, o, TRUE).want = {}
    BY DEF Stamp
  <2>3. Lawful(db, buf, Shared, Put(R, Stamp(s, o, TRUE)))
    BY <2>2, RowsLawful
  <2> QED
    BY <1>c, <2>1, <2>3, CallbackKeeps
<1>2. ASSUME NEW from, NEW to, Relate(s, from, to) PROVE SaveInv'
  <2> DEFINE v == [Initial(TRUE) EXCEPT !.op = o, !.ends = <<from, to>>]
  <2>1. PICK e \in Edge : Fresh(e) /\ Callback(s, Shared, Put({e}, v))
    BY <1>2 DEF Relate, Direct, NextEdge
  <2>2. v.op = o
    BY DEF Initial
  <2> HIDE DEF v, o
  <2>3. Lawful(db, buf, Shared, Put({e}, v))
    BY <1>o, <2>1, <2>2, NewEdgeLawful
  <2> QED
    BY <1>c, <2>1, <2>3, CallbackKeeps
<1> QED
  BY <1>1, <1>2 DEF DirectCallback

\* The relation a Save has sent is one more that it has made.
LEMMA SaveEdgeKeeps ==
  ASSUME TypeOK, SaveInv, NEW s \in Session, SaveEdge(s)
  PROVE  SaveInv'
<1> DEFINE j == job[s]
           c == Routed(s)
<1>j. j \in Job /\ j.op # 0 /\ j.kind = "save" /\ Live(pool[s]) /\ SoFar(Seen(db, buf, c), j)
  <2>1. Running(s) /\ j.kind = "save" /\ Live(pool[s])
    BY DEF SaveEdge, Step, Send, Reachable, Routed, Live
  <2> QED
    BY <2>1, RunningJob DEF SaveInv, JobInv, Running, Routed
<1>1. PICK x \in j.left, e \in Edge :
        Fresh(e) /\ Step(s, "save", c, Relation(s, j.op, FALSE, e, j.owner, x),
                         [j EXCEPT !.left = @ \ {x}])
  BY DEF SaveEdge, NextEdge
<1>c. c \in Conn /\ c = pool[s] /\ Running(s)
  BY RoutedSees DEF Routed, SaveEdge
<1>v. Relation(s, j.op, FALSE, e, j.owner, x)[e] \in Val
  <2>1. x \in Row /\ j.owner \in Row /\ j.op \in OpId
    BY <1>j DEF Job
  <2>2. Stamp(s, j.op, FALSE) \in Val /\ <<j.owner, x>> \in (Row \X Row) \cup {NoEnds}
    BY <2>1, StampType
  <2>3. [Stamp(s, j.op, FALSE) EXCEPT !.ends = <<j.owner, x>>] \in Val
    BY <2>2 DEF Val
  <2> QED
    BY <2>3, Keys DEF Relation, Put
<1> DEFINE W == Relation(s, j.op, FALSE, e, j.owner, x)
           n == [j EXCEPT !.left = @ \ {x}]
<1>3. n.op = j.op /\ n.owner = j.owner /\ n.want = j.want /\ n.left = j.left \ {x}
  BY <1>j DEF Job
<1> HIDE DEF n, j, c
<1>2. Lawful(db, buf, c, W) /\ W[e].op = j.op /\ W[e].ends = <<j.owner, x>>
  <2>1. j.op # 0 /\ Fresh(e)
    BY <1>j, <1>1
  <2>2. Lawful(db, buf, c, W)
    BY <2>1, RelationLawful
  <2>3. W[e].op = j.op /\ W[e].ends = <<j.owner, x>>
    BY Keys DEF Relation, Put, Stamp
  <2> QED
    BY <2>2, <2>3
<1> HIDE DEF W
<1>4. Send(c, W) /\ Step(s, "save", c, W, n)
  BY <1>1 DEF Step, W, n
<1>5. /\ Good(db', buf')
      /\ Kept(Seen(db, buf, c), Seen(db', buf', c))
  BY <1>2, <1>4, <1>c, SendKeeps DEF SaveInv
<1>6. Seen(db', buf', c)[e] = W[e]
  <2>0. W[e] # Same
    BY <1>v, SameAssumption DEF W
  <2>1. CASE c = Shared
    BY <1>4, <2>0, <2>1, Keys DEF Send, Seen, Onto
  <2>2. CASE c \in Txn
    <3>1. buf'[c] = Onto(W, buf[c])
      BY <1>4, <2>2, GormTxAssumption DEF Send, TypeOK
    <3>2. \A k \in Key : Seen(db', buf', c)[k] = IF buf'[c][k] = Same THEN db'[k] ELSE buf'[c][k]
      BY <2>2, SeenAt
    <3> QED
      BY <2>0, <3>1, <3>2, Keys DEF Onto
  <2> QED
    BY <1>c, <2>1, <2>2 DEF Conn
<1>7. Made(Seen(db', buf', c), j.op, j.owner, x)
  BY <1>j, <1>2, <1>6 DEF Made
<1>8. SoFar(Seen(db', buf', c), n)
  <2>1. \A y \in j.want \ j.left : Made(Seen(db', buf', c), j.op, j.owner, y)
    BY <1>j, <1>5, KeptMade DEF SoFar
  <2> QED
    BY <1>3, <1>7, <2>1 DEF SoFar
<1> QED
  BY <1>j, <1>2, <1>3, <1>4, <1>8, <1>c, StepKeeps

\* The row is sent when nothing is left: all the relations are made.
LEMMA SaveRowKeeps ==
  ASSUME TypeOK, SaveInv, NEW s \in Session, SaveRow(s)
  PROVE  SaveInv'
<1> DEFINE j == job[s]
           c == Routed(s)
           v == [Stamp(s, j.op, FALSE) EXCEPT !.want = j.want]
           R == IF View(c)[j.owner].alive THEN {j.owner} ELSE {}
<1>1. Running(s) /\ j.left = {} /\ Step(s, "save", c, Put(R, v), NoJob)
  BY DEF SaveRow, SendRow
<1>2. SoFar(Seen(db, buf, c), j) /\ R \subseteq {j.owner} /\ R \in SUBSET Row
  <2>1. Live(pool[s]) /\ j.kind = "save"
    BY <1>1 DEF Step, Send, Reachable, Routed, Live
  <2> QED
    BY <1>1, <2>1, RunningJob DEF SaveInv, JobInv, Running, Routed
<1>3. v.op = j.op /\ v.want = j.want
  BY DEF Stamp
<1>c. c \in Conn
  BY RoutedSees
<1> HIDE DEF v, R, c, j
<1>4. \A r \in R : \A x \in v.want : Made(Seen(db, buf, c), v.op, r, x)
  BY <1>1, <1>2, <1>3 DEF SoFar
<1>5. Lawful(db, buf, c, Put(R, v))
  BY <1>2, <1>4, RowsLawful
<1> QED
  BY <1>c, <1>1, <1>5, StepKeeps

LEMMA UnlinkKeeps ==
  ASSUME TypeOK, SaveInv, NEW s \in Session, Unlink(s) \/ Wipe(s) \/ Relink(s)
  PROVE  SaveInv'
<1> DEFINE j == job[s]
<1>j. j \in Job /\ j # NoJob /\ j.op # 0 /\ Running(s)
  BY RunningJob DEF Unlink, Wipe, Relink, Running, SaveInv, JobInv
<1>c. Shared \in Conn /\ db \in [Key -> Val] /\ db = Seen(db, buf, Shared)
  BY DEF Conn, TypeOK, Seen
<1>n. ASSUME NEW x
      PROVE  /\ [j EXCEPT !.left = j.left \ {x}].op = j.op
             /\ [j EXCEPT !.left = j.left \ {x}].kind = j.kind
             /\ [j EXCEPT !.kind = "relink"].op = j.op
             /\ [j EXCEPT !.kind = "relink"].kind = "relink"
  BY <1>j DEF Job
<1>1. CASE Unlink(s)
  <2> DEFINE D(x) == {e \in EdgesOf(db, j.owner) : db[e].ends[2] = x}
             n(x) == IF j.left \ {x} = {} THEN NoJob ELSE [j EXCEPT !.left = j.left \ {x}]
  <2>1. PICK x \in j.left : Step(s, "unlink", Shared, Remove(s, j.op, TRUE, db, D(x)), n(x))
    BY <1>1 DEF Unlink, Direct
  <2>2. \A e \in Edge : e \in D(x) => db[e].alive
    BY DEF EdgesOf
  <2>3. j.kind = "unlink"
    BY <2>1 DEF Step
  <2>4. n(x) # NoJob => n(x).op # 0 /\ n(x).kind = "unlink"
    BY <1>j, <1>n, <2>3
  <2> HIDE DEF D, n, j
  <2>5. Lawful(db, buf, Shared, Remove(s, j.op, TRUE, db, D(x)))
    BY <1>c, <2>2, RemoveLawful
  <2> QED
    BY <1>c, <1>j, <2>1, <2>4, <2>5, StepKeeps
<1>2. CASE Wipe(s)
  <2> DEFINE D == EdgesOf(db, j.owner)
             n == IF j.left = {} THEN NoJob ELSE [j EXCEPT !.kind = "relink"]
  <2>1. Step(s, "wipe", Shared, Remove(s, j.op, TRUE, db, D), n)
    BY <1>2 DEF Wipe, Direct
  <2>2. \A e \in Edge : e \in D => db[e].alive
    BY DEF EdgesOf
  <2>3. n # NoJob => n.op # 0 /\ n.kind = "relink"
    BY <1>j, <1>n
  <2> HIDE DEF D, n, j
  <2>4. Lawful(db, buf, Shared, Remove(s, j.op, TRUE, db, D))
    BY <1>c, <2>2, RemoveLawful
  <2> QED
    BY <1>c, <1>j, <2>1, <2>3, <2>4, StepKeeps
<1>3. CASE Relink(s)
  <2> DEFINE n(x) == IF j.left \ {x} = {} THEN NoJob ELSE [j EXCEPT !.left = j.left \ {x}]
  <2>1. PICK x \in j.left, e \in Edge :
          Fresh(e) /\ Step(s, "relink", Shared, Relation(s, j.op, TRUE, e, j.owner, x), n(x))
    BY <1>3 DEF Relink, Direct, NextEdge
  <2>2. j.kind = "relink"
    BY <2>1 DEF Step
  <2>3. n(x) # NoJob => n(x).op # 0 /\ n(x).kind = "relink"
    BY <1>j, <1>n, <2>2
  <2> HIDE DEF n, j
  <2>4. Lawful(db, buf, Shared, Relation(s, j.op, TRUE, e, j.owner, x))
    BY <1>j, <2>1, RelationLawful
  <2> QED
    BY <1>c, <1>j, <2>1, <2>3, <2>4, StepKeeps
<1> QED
  BY <1>1, <1>2, <1>3

\* The callback starts with nothing made, or stops.
LEMMA LocalStepKeeps ==
  ASSUME TypeOK, SaveInv, NEW s \in Session, LocalStep(s)
  PROVE  SaveInv'
<1>1. UNCHANGED <<db, buf, srv, pool>>
  BY LocalStepType DEF server
<1>k. \A c : Kept(Seen(db, buf, c), Seen(db', buf', c))
  BY <1>1 DEF Kept, SameEdge
<1>l. \A r \in Session : Live(pool[r])' => Live(pool[r])
  BY <1>1 DEF Live
<1>2. ASSUME NEW r \in Session, job'[r] = job[r], finish'[r] = finish[r] \/ job[r] = NoJob
      PROVE  JobInv(r)'
  BY <1>1, <1>2, <1>k, <1>l, JobKept DEF SaveInv
<1>3. ASSUME NEW r \in Session PROVE JobInv(r)'
  <2>1. CASE Closure(s)
    BY <1>2, <2>1 DEF Closure, ClosureReturns, InClosure, Idle, TypeOK
  <2>2. CASE JobFails(s)
    <3>1. CASE r = s
      BY <2>2, <3>1 DEF JobFails, JobInv, TypeOK
    <3>2. CASE r # s
      BY <1>2, <2>2, <3>2 DEF JobFails, TypeOK
    <3> QED
      BY <3>1, <3>2
  <2>3. ASSUME NEW o \in Owner, NEW T \in SUBSET Target, NEW kind \in {"save", "unlink", "wipe"},
               Start(s, kind, o, T)
        PROVE  JobInv(r)'
    <3> DEFINE j == [kind |-> kind, op |-> nop + 1, owner |-> o, want |-> T, left |-> T]
    <3>1. j.op # 0 /\ j.want \ j.left = {}
      BY DEF TypeOK, OpId
    <3>2. job' = [job EXCEPT ![s] = j] /\ finish' = finish /\ finish[s] = "no"
      BY <2>3 DEF Start, Idle
    <3> HIDE DEF j
    <3>3. CASE r = s
      <4>1. job'[r] = j /\ finish'[r] = "no"
        BY <3>2, <3>3 DEF TypeOK
      <4>2. SoFar(Seen(db', buf', pool'[r]), j)
        BY <3>1 DEF SoFar
      <4> QED
        BY <3>1, <4>1, <4>2 DEF JobInv
    <3>4. CASE r # s
      BY <1>2, <3>2, <3>4 DEF TypeOK
    <3> QED
      BY <3>3, <3>4
  <2>4. CASE StartJob(s)
    BY <2>3, <2>4 DEF StartJob, Save, AssocDelete, AssocReplace
  <2> QED
    BY <2>1, <2>2, <2>4 DEF LocalStep
<1> QED
  BY <1>1, <1>3 DEF SaveInv

\* The holder ends its transaction: no other session uses that one.
LEMMA FinishingKeeps ==
  ASSUME TypeOK, HandleHeld, SaveInv, NEW s \in Session, Finishing(s),
         EndCommit(s) \/ EndRollback(s) \/ InnerFinish(s)
  PROVE  SaveInv'
<1>t. PICK t \in Txn : t = pool[s] /\ t # Shared
  BY GormTxAssumption DEF Finishing
<1>1. job' = job /\ job[s] = NoJob
  BY DEF Finishing, EndCommit, EndRollback, InnerFinish, InClosure, Idle, SaveInv, JobInv
<1>2. \A r \in Session \ {s} : pool'[r] = pool[r] /\ finish'[r] = finish[r] /\ pool[r] # t
  BY <1>t DEF EndCommit, EndRollback, InnerFinish, Return, TypeOK, HandleHeld
<1>3. /\ Good(db', buf')
      /\ \A c \in Conn \ {t} : Kept(Seen(db, buf, c), Seen(db', buf', c))
      /\ \A u \in Txn \ {t} : srv'[u] = srv[u]
  <2>1. CASE UNCHANGED server
    BY <2>1 DEF server, SaveInv, Kept, SameEdge
  <2>2. CASE Ends(t)
    <3>1. /\ db' = db \/ db' = Onto(buf[t], db)
          /\ buf' = [buf EXCEPT ![t] = NoWrites]
          /\ \A u \in Txn \ {t} : srv'[u] = srv[u]
      BY <2>2 DEF Ends, ServerEnds, TypeOK
    <3>2. Typed(db, buf) /\ Good(db, buf)
      BY DEF TypeOK, Typed, SaveInv
    <3>3. /\ Good(db', [buf EXCEPT ![t] = NoWrites])
          /\ \A c \in Conn \ {t} : Kept(Seen(db, buf, c), Seen(db', [buf EXCEPT ![t] = NoWrites], c))
      BY <3>1, <3>2, EndKeeps
    <3> QED
      BY <3>1, <3>3
  <2> QED
    BY <1>t, <2>1, <2>2 DEF Finishing
<1>4. ASSUME NEW r \in Session PROVE JobInv(r)'
  <2>1. CASE r = s
    BY <1>1, <2>1 DEF JobInv
  <2>2. CASE r # s
    <3>1. pool[r] \in Conn \ {t}
      BY <1>2, <2>2 DEF TypeOK
    <3>2. Live(pool[r])' => Live(pool[r])
      BY <1>2, <1>3, <2>2, <3>1 DEF Live, Conn
    <3> QED
      BY <1>1, <1>2, <1>3, <2>2, <3>1, <3>2, JobKept DEF SaveInv
  <2> QED
    BY <2>1, <2>2
<1> QED
  BY <1>3, <1>4 DEF SaveInv

LEMMA SaveStep == TypeOK /\ HandleHeld /\ SaveInv /\ [Next]_vars => SaveInv'
<1> SUFFICES ASSUME TypeOK, HandleHeld, SaveInv, [Next]_vars PROVE SaveInv'
  OBVIOUS
<1>c. \A s \in Session : pool[s] \in Conn
  BY DEF TypeOK
<1>u. ASSUME UNCHANGED <<db, buf, srv, pool, job, finish>> PROVE SaveInv'
  BY <1>u DEF SaveInv, JobInv, Live
<1>1. ASSUME NEW s \in Session, RoutedCallback(s) \/ DirectCallback(s) PROVE SaveInv'
  BY <1>1, RoutedCallbackKeeps, DirectCallbackKeeps
<1>2. ASSUME NEW s \in Session, JobStep(s) PROVE SaveInv'
  BY <1>2, SaveEdgeKeeps, SaveRowKeeps, UnlinkKeeps, LocalStepKeeps DEF JobStep, LocalStep
<1>3. ASSUME NEW s \in Session, StartJob(s) \/ Closure(s) PROVE SaveInv'
  BY <1>3, LocalStepKeeps DEF LocalStep
<1>4. ASSUME NEW s \in Session, EndCommit(s) \/ EndRollback(s) \/ InnerFinish(s) PROVE SaveInv'
  BY <1>4, HolderFinishes, FinishingKeeps
<1>5. ASSUME NEW s \in Session, NEW t \in Txn, Begin(s, t) PROVE SaveInv'
  <2>1. /\ srv[t] = "none" /\ srv' = [srv EXCEPT ![t] = "open"]
        /\ pool' = [pool EXCEPT ![s] = t] /\ job[s] = NoJob
        /\ UNCHANGED <<db, buf, job, finish>>
    BY <1>5 DEF Begin, Idle
  <2>2. ASSUME NEW r \in Session PROVE JobInv(r)'
    <3>1. CASE r = s
      BY <2>1, <3>1 DEF JobInv, SaveInv
    <3>2. CASE r # s
      <4>1. pool'[r] = pool[r] /\ pool[r] # t
        BY <2>1, <3>2, GormTxAssumption DEF TypeOK, HandleHeld
      <4>2. Live(pool[r])' => Live(pool[r])
        BY <1>c, <2>1, <4>1 DEF Live, Conn, TypeOK
      <4>3. Kept(Seen(db, buf, pool[r]), Seen(db', buf', pool[r]))
        BY <2>1 DEF Kept, SameEdge
      <4> QED
        BY <2>1, <4>1, <4>2, <4>3, JobKept DEF SaveInv
    <3> QED
      BY <3>1, <3>2
  <2> QED
    BY <2>1, <2>2 DEF SaveInv
<1>6. CASE Drop
  <2>1. /\ srv' = [t \in Txn |-> IF srv[t] = "open" THEN "lost" ELSE srv[t]]
        /\ buf' = [t \in Txn |-> NoWrites] /\ UNCHANGED <<db, pool, job, finish>>
    BY <1>6 DEF Drop, client
  <2>2. Typed(db, buf) /\ Good(db, buf)
    BY DEF TypeOK, Typed, SaveInv
  <2>3. Good(db', buf') /\ Kept(Seen(db, buf, Shared), Seen(db', buf', Shared))
    BY <2>1, <2>2, LossKeeps
  <2>4. ASSUME NEW r \in Session PROVE JobInv(r)'
    <3>1. Live(pool[r])' => pool[r] = Shared
      BY <1>c, <2>1 DEF Live, Conn
    <3>2. Live(Shared)
      BY DEF Live
    <3> QED
      BY <2>1, <2>3, <3>1, <3>2, JobKept DEF SaveInv
  <2> QED
    BY <2>3, <2>4 DEF SaveInv
<1>7. ASSUME NEW t \in Txn, Expire(t) PROVE SaveInv'
  BY <1>7, <1>u DEF Expire, server, client
<1>8. CASE Reconnect
  BY <1>8, <1>u DEF Reconnect, server, client
<1>9. CASE UNCHANGED vars
  BY <1>9, <1>u DEF vars
<1> QED
  BY <1>1, <1>2, <1>3, <1>4, <1>5, <1>6, <1>7, <1>8, <1>9 DEF Next

LEMMA SaveInit == Init => SaveInv
<1> SUFFICES ASSUME Init PROVE SaveInv
  OBVIOUS
<1>1. \A k \in Key : db[k].op = 0 /\ db[k].want = {}
  BY DEF Init, Initial
<1>2. \A t \in Txn, k \in Key : buf[t][k] = Same
  BY DEF Init, NoWrites
<1>3. \A e \in Edge : ~db[e].alive
  <2>1. \A e \in Edge : e \notin Seeded
    BY Keys, GormTxAssumption
  <2> QED
    BY <2>1, Keys DEF Init, Initial
<1>4. EdgesOnce(db, buf)
  BY <1>2, <1>3, Keys DEF EdgesOnce
<1>5. ASSUME NEW c \in Conn PROVE Shown(Seen(db, buf, c))
  <2>1. CASE c = Shared
    BY <1>1, <2>1, Keys DEF Shown, Seen
  <2>2. CASE c \in Txn
    <3>1. \A k \in Key : Seen(db, buf, c)[k] = IF buf[c][k] = Same THEN db[k] ELSE buf[c][k]
      BY <2>2, SeenAt
    <3> QED
      BY <1>1, <1>2, <2>2, <3>1, Keys DEF Shown
  <2> QED
    BY <2>1, <2>2 DEF Conn
<1>6. \A s \in Session : JobInv(s)
  <2>1. \A s \in Session : job[s] = NoJob /\ finish[s] = "no"
    BY Zenon DEF Init
  <2> QED
    BY <2>1, Zenon DEF JobInv
<1> QED
  BY <1>4, <1>5, <1>6 DEF SaveInv, Good

-----------------------------------------------------------------------------
(***************************************************************************)
(* The theorems.                                                           *)
(***************************************************************************)
Inv == TypeOK /\ IsolationInv /\ ReportInv /\ SaveInv

LEMMA InitInv == Init => Inv
<1> SUFFICES ASSUME Init PROVE Inv
  OBVIOUS
<1>1. TypeOK
  BY TypeInit
<1>2. BufferOwned
  BY DEF Init, BufferOwned, NoWrites
<1>3. RoutedWritesAreTransactional
  <2>1. ASSUME NEW k \in Key PROVE db[k].tx = Shared
    BY DEF Init, Initial
  <2> QED
    BY <2>1 DEF RoutedWritesAreTransactional
<1>4. ReportInv
  BY DEF Init, ReportInv, HandleHeld, Unopened, ReportsAreTrue
<1> QED
  BY <1>1, <1>2, <1>3, <1>4, SaveInit DEF Inv, IsolationInv

THEOREM Invariance == Spec => []Inv
<1>1. Inv /\ [Next]_vars => Inv'
  BY TypeStep, IsolationStep, ReportStep, SaveStep DEF Inv, ReportInv
<1> QED
  BY InitInv, <1>1, PTL DEF Spec

\* Every variable of the driver and of the server keeps its type.
THEOREM TypeCorrect == Spec => []TypeOK
<1>1. Inv => TypeOK
  BY DEF Inv
<1> QED
  BY Invariance, <1>1, PTL

\* Any number of sessions, transactions and records: what a callback wrote
\* through a transaction's handle, by the routing of ConnPool, is in the store
\* only if that transaction committed, whatever fails or is lost on the way.
THEOREM Isolation == Spec => []RoutedWritesAreTransactional
<1>1. Inv => RoutedWritesAreTransactional
  BY DEF Inv, IsolationInv
<1> QED
  BY Invariance, <1>1, PTL

\* nil from db.Transaction means committed, and an error means not committed
\* unless the commit's reply came too late, whatever the closure did with the
\* handle, as long as it left the ending to GORM.
THEOREM TrueReports == Spec => []ReportsAreTrue
<1>1. Inv => ReportsAreTrue
  BY DEF Inv, ReportInv
<1> QED
  BY Invariance, <1>1, PTL

\* A record that shows a Save has all the relations of that Save, whichever of
\* the Save's calls failed, whatever transaction it ran in and whatever the
\* other sessions did to the store and to their transactions.
THEOREM SavesComplete == Spec => []SavedRowHasItsEdges
<1>1. Inv => SavedRowHasItsEdges
  <2>1. Seen(db, buf, Shared) = db /\ Shared \in Conn
    BY DEF Seen, Conn
  <2>2. SaveInv => Shown(db)
    BY <2>1 DEF SaveInv, Good
  <2> QED
    BY <2>2 DEF Inv, Shown, Made, SavedRowHasItsEdges
<1> QED
  BY Invariance, <1>1, PTL

-----------------------------------------------------------------------------
(***************************************************************************)
(* The driver implements TxStore.                                          *)
(***************************************************************************)
StoredDb == [k \in Key |-> AsStored(db[k])]

LEMMA StoreInit == Init => Store!Init
<1> SUFFICES ASSUME Init PROVE Store!Init
  OBVIOUS
<1>1. ASSUME NEW k \in Key
      PROVE  AsStored(db[k]) \in {v \in Val : v.tx = Shared}
  <2>1. db[k] = Initial(k \in Seeded)
    BY <1>1 DEF Init
  <2>2. (k \in Seeded) \in BOOLEAN
    OBVIOUS
  <2>3. db[k] \in Val /\ db[k].tx = Shared /\ db[k].direct = FALSE
    BY <2>1, <2>2, InitialType, Zenon
  <2> QED
    BY <2>3 DEF AsStored
<1>2. [t \in Txn |-> Fate(srv[t])] = [t \in Txn |-> "none"]
  BY DEF Init, Fate
<1>3. buf = [t \in Txn |-> Store!NoWrites]
  BY DEF Init, NoWrites, Store!NoWrites
<1> QED
  BY <1>1, <1>2, <1>3 DEF Store!Init

\* What is sent outside a transaction is stored under the tag Shared.
LEMMA SendsStored ==
  ASSUME TypeOK, Sends
  PROVE  Store!Next
<1>1. PICK c \in Conn : \E W : Tagged(c, W) /\ Send(c, W)
  BY DEF Sends
<1>2. PICK W : Tagged(c, W) /\ Send(c, W)
  BY <1>1
<1>3. srv' = srv
  BY <1>2 DEF Send
<1>4. CASE c = Shared
  <2>1. db' = Onto(W, db) /\ buf' = buf
    BY <1>2, <1>4 DEF Send
  <2>2. ASSUME NEW k \in Key, db'[k] # db[k]
        PROVE  AsStored(db'[k]) \in Val /\ AsStored(db'[k]).tx = Shared
    <3>1. W[k] # Same /\ db'[k] = W[k]
      BY <2>1, <2>2 DEF Onto
    <3>2. /\ db'[k] \in Val
          /\ ~db'[k].direct => db'[k].tx = Shared
      BY <1>2, <1>4, <3>1 DEF Tagged
    <3>3. [db'[k] EXCEPT !.tx = Shared] \in Val
      BY <3>2 DEF Val, Conn
    <3>4. [db'[k] EXCEPT !.tx = Shared].tx = Shared
      BY <3>2 DEF Val
    <3> QED
      BY <3>2, <3>3, <3>4 DEF AsStored
  <2>3. Store!WroteOnly(Shared, StoredDb, StoredDb')
    BY <2>2 DEF Store!WroteOnly, StoredDb
  <2>4. Store!AutoWrite
    BY <1>3, <2>1, <2>3 DEF Store!AutoWrite, StoredDb
  <2> QED
    BY <2>4 DEF Store!Next
<1>5. CASE c # Shared
  <2>1. c \in Txn /\ db' = db /\ buf' = [buf EXCEPT ![c] = Onto(W, buf[c])] /\ srv[c] = "open"
    BY <1>1, <1>2, <1>5 DEF Send, Conn, Reachable
  <2>2. buf'[c] = Onto(W, buf[c])
    BY <2>1 DEF TypeOK
  <2>3. buf' = [buf EXCEPT ![c] = [k \in Key |-> buf'[c][k]]]
    BY <2>1, <2>2 DEF Onto, TypeOK
  <2>4. Store!WroteOnly(c, buf[c], buf'[c])
    BY <1>2, <1>5, <2>2 DEF Store!WroteOnly, Onto, Tagged
  <2>5. Fate(srv[c]) = "open"
    BY <2>1 DEF Fate
  <2>6. Store!Write(c)
    BY <1>3, <2>1, <2>3, <2>4, <2>5 DEF Store!Write
  <2> QED
    BY <2>1, <2>6 DEF Store!Next
<1> QED
  BY <1>4, <1>5

LEMMA EndsStored ==
  ASSUME TypeOK, BufferOwned, NEW t \in Txn, Ends(t)
  PROVE  Store!Next
<1>1. PICK how \in {"committed", "cancelled"} : ServerEnds(t, how)
  BY DEF Ends
<1>2. /\ srv[t] = "open" /\ Fate(srv[t]) = "open"
      /\ srv' = [srv EXCEPT ![t] = how] /\ buf' = [buf EXCEPT ![t] = NoWrites]
      /\ db' = IF how = "committed" THEN Onto(buf[t], db) ELSE db
  BY <1>1, GormTxAssumption DEF Ends, Reachable, ServerEnds, Fate
<1>3. buf' = [buf EXCEPT ![t] = Store!NoWrites]
  BY <1>2 DEF NoWrites, Store!NoWrites
<1>4. CASE how = "committed"
  <2>1. ASSUME NEW k \in Key
        PROVE  AsStored(db'[k]) = IF buf[t][k] = Same THEN AsStored(db[k]) ELSE buf[t][k]
    <3>1. db'[k] = IF buf[t][k] = Same THEN db[k] ELSE buf[t][k]
      BY <1>2, <1>4 DEF Onto
    <3>2. buf[t][k] # Same => ~buf[t][k].direct
      BY DEF BufferOwned
    <3> QED
      BY <3>1, <3>2 DEF AsStored
  <2>2. StoredDb' = Store!Onto(buf[t], StoredDb)
    BY <2>1 DEF StoredDb, Store!Onto
  <2>3. [u \in Txn |-> Fate(srv[u])]' = [[u \in Txn |-> Fate(srv[u])] EXCEPT ![t] = "committed"]
    BY <1>2, <1>4 DEF Fate, TypeOK
  <2>4. Store!Commit(t)
    BY <1>2, <1>3, <2>2, <2>3 DEF Store!Commit, StoredDb
  <2> QED
    BY <2>4 DEF Store!Next
<1>5. CASE how = "cancelled"
  <2>1. [u \in Txn |-> Fate(srv[u])]' =
        [u \in Txn |-> IF u \in {t} THEN "aborted" ELSE Fate(srv[u])]
    BY <1>2, <1>5 DEF Fate, TypeOK
  <2>2. buf' = [u \in Txn |-> IF u \in {t} THEN Store!NoWrites ELSE buf[u]]
    BY <1>3 DEF TypeOK
  <2>3. db' = db
    BY <1>2, <1>5
  <2>4. Store!Abort({t})
    BY <1>2, <2>1, <2>2, <2>3 DEF Store!Abort
  <2> QED
    BY <2>4 DEF Store!Next
<1> QED
  BY <1>4, <1>5

LEMMA SameServerStored ==
  ASSUME UNCHANGED server
  PROVE  UNCHANGED Store!vars
  BY DEF server, Store!vars

LEMMA StoreStep == Inv /\ [Next]_vars => [Store!Next]_(Store!vars)
<1> SUFFICES ASSUME Inv, [Next]_vars PROVE Store!Next \/ UNCHANGED Store!vars
  OBVIOUS
<1>i. TypeOK /\ BufferOwned /\ HandleHeld
  BY DEF Inv, IsolationInv, ReportInv
<1>1. CASE DataStep
  BY <1>1, <1>i, SendsStored DEF DataStep
<1>2. ASSUME NEW s \in Session, LocalStep(s) PROVE UNCHANGED Store!vars
  BY <1>2, <1>i, LocalStepType, SameServerStored
<1>3. ASSUME NEW s \in Session, NEW t \in Txn, Begin(s, t) PROVE Store!Next
  <2>1. srv[t] = "none" /\ srv' = [srv EXCEPT ![t] = "open"] /\ UNCHANGED <<db, buf>>
    BY <1>3 DEF Begin
  <2>2. Fate(srv[t]) = "none"
        /\ [u \in Txn |-> Fate(srv[u])]' = [[u \in Txn |-> Fate(srv[u])] EXCEPT ![t] = "open"]
    BY <1>i, <2>1 DEF Fate, TypeOK
  <2>3. Store!Begin(t)
    BY <2>1, <2>2 DEF Store!Begin
  <2> QED
    BY <2>3 DEF Store!Next
<1>4. ASSUME NEW s \in Session, Finishing(s) PROVE Store!Next \/ UNCHANGED Store!vars
  BY <1>4, <1>i, EndsStored, SameServerStored DEF Finishing
<1>5. ASSUME NEW t \in Txn, Expire(t) PROVE UNCHANGED Store!vars
  BY <1>5, SameServerStored DEF Expire
<1>6. CASE Drop
  <2> DEFINE T == {t \in Txn : srv[t] = "open"}
  <2>1. /\ srv' = [t \in Txn |-> IF srv[t] = "open" THEN "lost" ELSE srv[t]]
        /\ buf' = [t \in Txn |-> NoWrites] /\ db' = db
    BY <1>6 DEF Drop
  <2>2. [t \in Txn |-> Fate(srv[t])]' =
        [t \in Txn |-> IF t \in T THEN "aborted" ELSE Fate(srv[t])]
    BY <2>1 DEF Fate
  <2>3. buf' = [t \in Txn |-> IF t \in T THEN Store!NoWrites ELSE buf[t]]
    BY <1>i, <2>1 DEF BufferOwned, NoWrites, Store!NoWrites
  <2>4. \A t \in T : Fate(srv[t]) = "open"
    BY DEF Fate
  <2>5. Store!Abort(T)
    BY <2>1, <2>2, <2>3, <2>4 DEF Store!Abort
  <2>6. T \in SUBSET Txn
    OBVIOUS
  <2> QED
    BY <2>5, <2>6 DEF Store!Next
<1>7. CASE Reconnect
  BY <1>7, SameServerStored DEF Reconnect
<1>8. CASE UNCHANGED vars
  BY <1>8, SameServerStored DEF vars, server
<1> QED
  BY <1>1, <1>2, <1>3, <1>4, <1>5, <1>6, <1>7, <1>8, <1>i, StepKinds

\* Whatever sessions do, the server's contents behave as those of a
\* transactional store in which a helper that ignores ConnPool writes outside
\* every transaction.
THEOREM Refinement == Spec => ImplementsTxStore
<1> QED
  BY StoreInit, StoreStep, Invariance, PTL DEF Spec, Store!Spec, ImplementsTxStore
=============================================================================
