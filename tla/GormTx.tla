------------------------------- MODULE GormTx -------------------------------
(***************************************************************************)
(* GORM sessions on top of the SurrealDB driver: which connection each     *)
(* write of a callback goes to, and how interactive transactions begin and *)
(* end.                                                                    *)
(*                                                                         *)
(* A session is a goroutine with its own *gorm.DB handle.  pool[s] is the  *)
(* handle's Statement.ConnPool: Shared (the one WebSocket connection of    *)
(* the dialector) or the *SurrealTx of an open db.Transaction(...).  A     *)
(* callback that makes several server calls is a job, one step per call;   *)
(* a callback that makes one call is one action.  A call that is rejected  *)
(* or never sent changes nothing, so single-call actions have no failing   *)
(* case; a failing call ends a job midway (JobFails).                      *)
(*                                                                         *)
(* The server (external) runs each statement outside a transaction at      *)
(* once, keeps the writes of an open transaction apart until it commits,   *)
(* and drops the open transactions of a connection that is lost.           *)
(***************************************************************************)
EXTENDS Integers

CONSTANTS Session, Txn, Shared,
          Row,      \* vertex records
          Seeded,   \* those that exist at the start
          Owner, Target, \* those that edges go from, and to
          Edge,     \* identities the server gives to edges
          NoEnds, Same, NoJob,
          MaxOp     \* bound: how many callbacks run in all

ASSUME GormTxAssumption ==
  /\ Shared \notin Txn
  /\ Seeded \subseteq Row /\ Owner \subseteq Row /\ Target \subseteq Row
  /\ Row \cap Edge = {}
  /\ MaxOp \in Nat

VARIABLES db,       \* server: the committed contents
          srv,      \* server: the state of each interactive transaction
          buf,      \* server: the writes each of them holds
          up,       \* the WebSocket connection is usable
          pool,     \* Statement.ConnPool of each session
          job,      \* what remains of the callback a session is running
          finish,   \* GORM is ending the session's transaction
          closed,   \* sdkTx.IsClosed()
          expired,  \* the context given to BeginTx is done
          told,     \* what db.Transaction returned to the application, or
                    \* that the closure ended the transaction itself
          nop       \* callbacks run so far

server == <<db, srv, buf>>
client == <<pool, job, finish, told>>
vars == <<db, srv, buf, up, pool, job, finish, closed, expired, told, nop>>

-----------------------------------------------------------------------------
(***************************************************************************)
(* Values and writes.  A value remembers the callback that made it (for an *)
(* edge, the one that created it), the handle that callback was issued on, *)
(* and whether it was sent to the shared connection whatever the handle.   *)
(* want is the association a Save carried.                                 *)
(***************************************************************************)
Key == Row \cup Edge
Conn == Txn \cup {Shared}
OpId == 0..MaxOp

Val == [alive : BOOLEAN, op : OpId, tx : Conn, direct : BOOLEAN,
        want : SUBSET Row, ends : (Row \X Row) \cup {NoEnds}]

\* Same, the mark of no write, is no value.
ASSUME SameAssumption == Same \notin Val

Initial(alive) == [alive |-> alive, op |-> 0, tx |-> Shared, direct |-> FALSE,
                   want |-> {}, ends |-> NoEnds]

NoWrites == [k \in Key |-> Same]

Onto(W, f) == [k \in Key |-> IF W[k] = Same THEN f[k] ELSE W[k]]

View(c) == IF c = Shared THEN db ELSE Onto(buf[c], db)

\* The server never hands out an id twice.
Fresh(k) == /\ db[k].op = 0
            /\ ~db[k].alive
            /\ \A t \in Txn : buf[t][k] = Same

\* The edge it makes next; which of the fresh identities it takes makes no difference.
NextEdge(e) == Fresh(e) /\ e = CHOOSE x \in Edge : Fresh(x)

EdgesOf(f, o) == {e \in Edge : f[e].alive /\ f[e].ends[1] = o}
Touching(f, R) == {e \in Edge : f[e].alive /\ (f[e].ends[1] \in R \/ f[e].ends[2] \in R)}

Stamp(s, o, direct) == [alive |-> TRUE, op |-> o, tx |-> pool[s], direct |-> direct,
                        want |-> {}, ends |-> NoEnds]

Put(R, v) == [k \in Key |-> IF k \in R THEN v ELSE Same]

Relation(s, o, direct, e, from, to) ==
  Put({e}, [Stamp(s, o, direct) EXCEPT !.ends = <<from, to>>])

\* Deleting a record deletes the edges at either end of it.
Remove(s, o, direct, f, D) ==
  [k \in Key |-> CASE k \notin D -> Same
                   [] k \in D /\ k \in Row -> [Stamp(s, o, direct) EXCEPT !.alive = FALSE]
                   [] OTHER -> [f[k] EXCEPT !.alive = FALSE, !.tx = pool[s], !.direct = direct]]

-----------------------------------------------------------------------------
(***************************************************************************)
(* Routing.                                                                *)
(***************************************************************************)
\* mutant: the transaction of the statement is not looked at.
RoutedToShared(s) == Shared

\* txFromStatement / execTxQuery: the transaction of the statement, if any.
Routed(s) == pool[s]

\* dialector.Conn, whatever the statement's ConnPool.
Direct(s) == Shared

\* A statement reaches the server and is not refused by the SDK handle.
Reachable(c) == /\ up
                /\ c # Shared => srv[c] = "open" /\ ~closed[c] /\ ~expired[c]

Send(c, W) ==
  /\ Reachable(c)
  /\ IF c = Shared
       THEN db' = Onto(W, db) /\ UNCHANGED buf
       ELSE buf' = [buf EXCEPT ![c] = Onto(W, @)] /\ UNCHANGED db
  /\ UNCHANGED <<srv, up, closed, expired>>

Idle(s) == job[s] = NoJob /\ finish[s] = "no"

\* A callback that makes one server call and is done.
Callback(s, c, W) ==
  /\ Idle(s) /\ nop < MaxOp
  /\ nop' = nop + 1
  /\ Send(c, W)
  /\ UNCHANGED client

-----------------------------------------------------------------------------
(***************************************************************************)
(* Callbacks that make one call on the statement's own connection.         *)
(***************************************************************************)
\* db.Create of a record or a slice: the ids are the server's.
CreateRows(s, R) ==
  /\ \A r \in R : Fresh(r)
  /\ Callback(s, Routed(s), Put(R, Stamp(s, nop + 1, FALSE)))

\* CreateMany has a routing decision of its own.
CreateMany(s, R) ==
  /\ \A r \in R : Fresh(r)
  /\ Callback(s, Routed(s), Put(R, Stamp(s, nop + 1, FALSE)))

\* mutant: the relation is sent to the dialector's connection.
CreateEdgeEscapes(s, from, to) == \E e \in Edge :
  NextEdge(e) /\ Callback(s, Shared, Relation(s, nop + 1, FALSE, e, from, to))

\* db.Create of an edge model or of a join row of a registered edge table.
CreateEdge(s, from, to) == \E e \in Edge :
  /\ NextEdge(e)
  /\ Callback(s, Routed(s), Relation(s, nop + 1, FALSE, e, from, to))

\* mutant: the arguments are not checked to be two record ids.
ExecInsertEdgeUnchecked(s, from, to) == \E e \in Edge :
  /\ NextEdge(e)
  /\ Callback(s, Routed(s), Relation(s, nop + 1, FALSE, e, from, NoEnds))

\* INSERT INTO <edge table> given to ConnPool.ExecContext.
ExecInsertEdge(s, from, to) == \E e \in Edge :
  /\ NextEdge(e)
  /\ Callback(s, Routed(s), Relation(s, nop + 1, FALSE, e, from, to))

\* An UPDATE changes the records that exist and creates none.
UpdateRows(s, R) ==
  /\ \A r \in R : View(Routed(s))[r].alive
  /\ Callback(s, Routed(s), Put(R, Stamp(s, nop + 1, FALSE)))

\* DELETE, by id or by a condition.
DeleteRows(s, R) ==
  LET f == View(Routed(s)) IN
  /\ \A r \in R : f[r].alive
  /\ Callback(s, Routed(s), Remove(s, nop + 1, FALSE, f, R \cup Touching(f, R)))

\* A soft delete is an UPDATE that sets deleted_at.
SoftDelete(s, R) ==
  /\ \A r \in R : View(Routed(s))[r].alive
  /\ Callback(s, Routed(s), Put(R, Stamp(s, nop + 1, FALSE)))

\* db.Exec of an UPDATE or a DELETE: ConnPool.ExecContext, of the dialector or of the
\* transaction, sends it where the callbacks send theirs.
ExecRows(s, R) == UpdateRows(s, R) \/ DeleteRows(s, R)

(***************************************************************************)
(* Helpers that use the shared connection whatever handle they are given.  *)
(***************************************************************************)
\* surrealdb.Transaction: the whole BEGIN ... COMMIT block is one query.
RawTransaction(s, R) ==
  /\ \A r \in R : db[r].alive
  /\ Callback(s, Direct(s), Put(R, Stamp(s, nop + 1, TRUE)))

\* surrealdb.Relate is given the dialector, not a handle.
Relate(s, from, to) == \E e \in Edge :
  /\ NextEdge(e)
  /\ Callback(s, Direct(s),
              Put({e}, [Initial(TRUE) EXCEPT !.op = nop + 1, !.ends = <<from, to>>]))

-----------------------------------------------------------------------------
(***************************************************************************)
(* Callbacks that make several calls.  left is what is still to be sent.   *)
(***************************************************************************)
Start(s, kind, o, T) ==
  /\ Idle(s) /\ nop < MaxOp
  /\ nop' = nop + 1
  /\ job' = [job EXCEPT ![s] =
               [kind |-> kind, op |-> nop + 1, owner |-> o, want |-> T, left |-> T]]
  /\ UNCHANGED <<server, up, pool, finish, closed, expired, told>>

\* One call of the job goes out, and next is what remains of it.
Step(s, kind, c, W, next) ==
  /\ job[s].kind = kind
  /\ Send(c, W)
  /\ job' = [job EXCEPT ![s] = next]
  /\ UNCHANGED <<pool, finish, told, nop>>

Running(s) == job[s] # NoJob

\* UpdateCallback: one relation per element of a loaded many2many slice, then
\* the UPDATE of the record itself.
Save(s, o, T) == Start(s, "save", o, T)

SaveEdge(s) == /\ Running(s)
               /\ \E x \in job[s].left, e \in Edge :
                    /\ NextEdge(e)
                    /\ Step(s, "save", Routed(s),
                            Relation(s, job[s].op, FALSE, e, job[s].owner, x),
                            [job[s] EXCEPT !.left = @ \ {x}])

SendRow(s) == LET o == job[s].owner
                  v == [Stamp(s, job[s].op, FALSE) EXCEPT !.want = job[s].want]
              IN Step(s, "save", Routed(s),
                      Put(IF View(Routed(s))[o].alive THEN {o} ELSE {}, v), NoJob)

\* mutant: the UPDATE goes out although a relation failed.
SaveRowAnyway(s) == Running(s) /\ SendRow(s)

SaveRow(s) == /\ Running(s)
              /\ job[s].left = {}
              /\ SendRow(s)

\* edgeAssocDeleteCallback: one DELETE per target.
AssocDelete(s, o, T) == Start(s, "unlink", o, T)

Unlink(s) == /\ Running(s)
             /\ \E x \in job[s].left :
                  LET D == {e \in EdgesOf(db, job[s].owner) : db[e].ends[2] = x}
                      rest == job[s].left \ {x}
                  IN Step(s, "unlink", Direct(s), Remove(s, job[s].op, TRUE, db, D),
                          IF rest = {} THEN NoJob ELSE [job[s] EXCEPT !.left = rest])

\* edgeAssocReplaceCallback: one DELETE of every edge of the owner, then one
\* relation per new target.
AssocReplace(s, o, T) == Start(s, "wipe", o, T)

Wipe(s) == /\ Running(s)
           /\ Step(s, "wipe", Direct(s),
                   Remove(s, job[s].op, TRUE, db, EdgesOf(db, job[s].owner)),
                   IF job[s].left = {} THEN NoJob ELSE [job[s] EXCEPT !.kind = "relink"])

Relink(s) == /\ Running(s)
             /\ \E x \in job[s].left, e \in Edge :
                  LET rest == job[s].left \ {x} IN
                  /\ NextEdge(e)
                  /\ Step(s, "relink", Direct(s),
                          Relation(s, job[s].op, TRUE, e, job[s].owner, x),
                          IF rest = {} THEN NoJob ELSE [job[s] EXCEPT !.left = rest])

\* A call of the job fails, or its reply is lost after it took effect: the
\* callback records the error and returns.  An UPDATE with nothing to set also
\* ends here.
JobFails(s) == /\ Running(s)
               /\ job' = [job EXCEPT ![s] = NoJob]
               /\ UNCHANGED <<server, up, pool, finish, closed, expired, told, nop>>

-----------------------------------------------------------------------------
(***************************************************************************)
(* Interactive transactions.                                               *)
(***************************************************************************)
Begin(s, t) ==
  /\ Idle(s) /\ pool[s] = Shared
  /\ up
  /\ srv[t] = "none"
  /\ srv' = [srv EXCEPT ![t] = "open"]
  /\ pool' = [pool EXCEPT ![s] = t]
  /\ UNCHANGED <<db, buf, up, job, finish, closed, expired, told, nop>>

\* The server ends t, with its writes installed or discarded.
ServerEnds(t, how) ==
  /\ srv' = [srv EXCEPT ![t] = how]
  /\ buf' = [buf EXCEPT ![t] = NoWrites]
  /\ db' = IF how = "committed" THEN Onto(buf[t], db) ELSE db

\* mutant: an error of the SDK's commit is not returned.
CommitNilAnyway(t) ==
  \/ (closed[t] \/ ~Reachable(t)) /\ UNCHANGED <<server, closed, expired>>
  \/ /\ Reachable(t)
     /\ ServerEnds(t, "committed")
     /\ closed' = [closed EXCEPT ![t] = TRUE]
     /\ UNCHANGED expired

\* SurrealTx.Commit.  Whether the SDK closes the handle when its commit fails
\* is the SDK's affair: both are allowed.
CommitNil(t) ==
  \/ /\ closed[t]
     /\ UNCHANGED <<server, closed, expired>>
  \/ /\ Reachable(t)
     /\ ServerEnds(t, "committed")
     /\ closed' = [closed EXCEPT ![t] = TRUE]
     /\ UNCHANGED expired

CommitError(t) ==
  /\ ~closed[t]
  /\ \E c \in BOOLEAN : closed' = [closed EXCEPT ![t] = c]
  /\ \/ ~Reachable(t) /\ UNCHANGED <<server, expired>>              \* never sent
     \/ Reachable(t) /\ ServerEnds(t, "cancelled") /\ UNCHANGED expired  \* refused
     \/ /\ Reachable(t) /\ ServerEnds(t, "committed")                 \* reply too late
        /\ expired' = [expired EXCEPT ![t] = TRUE]

\* mutant: the handle is closed and the server is not told.
RollbackLocally(t) ==
  /\ closed' = [closed EXCEPT ![t] = TRUE]
  /\ UNCHANGED <<server, expired>>

\* SurrealTx.Rollback.
Rollback(t) ==
  \/ closed[t] /\ UNCHANGED <<server, closed, expired>>
  \/ /\ Reachable(t)
     /\ ServerEnds(t, "cancelled")
     /\ closed' = [closed EXCEPT ![t] = TRUE]
     /\ UNCHANGED expired
  \/ /\ ~closed[t] /\ ~Reachable(t)
     /\ \E c \in BOOLEAN : closed' = [closed EXCEPT ![t] = c]
     /\ UNCHANGED <<server, expired>>

(***************************************************************************)
(* GORM's db.Transaction (external): commit when the closure returned nil, *)
(* roll back when it returned an error or panicked, or the commit failed.  *)
(***************************************************************************)
InClosure(s) == Idle(s) /\ pool[s] # Shared

ClosureReturns(s, how) ==
  /\ InClosure(s)
  /\ finish' = [finish EXCEPT ![s] = how]
  /\ UNCHANGED <<server, up, pool, job, closed, expired, told, nop>>

\* db.Transaction returns result, and the session is back on the shared handle.
Return(s, result) ==
  /\ told' = [told EXCEPT ![pool[s]] = IF @ = "inner" THEN @ ELSE result]
  /\ pool' = [pool EXCEPT ![s] = Shared]
  /\ finish' = [finish EXCEPT ![s] = "no"]

EndCommit(s) ==
  /\ finish[s] = "commit"
  /\ \/ CommitNil(pool[s]) /\ Return(s, "nil")
     \/ /\ CommitError(pool[s])
        /\ finish' = [finish EXCEPT ![s] = "rollback"]
        /\ UNCHANGED <<pool, told>>
  /\ UNCHANGED <<up, job, nop>>

EndRollback(s) ==
  /\ finish[s] = "rollback"
  /\ Rollback(pool[s])
  /\ Return(s, "error")
  /\ UNCHANGED <<up, job, nop>>

\* The closure, or a caller of db.Begin, ends the transaction itself.
InnerFinish(s) ==
  /\ InClosure(s)
  /\ CommitNil(pool[s]) \/ CommitError(pool[s]) \/ Rollback(pool[s])
  /\ told' = [told EXCEPT ![pool[s]] = "inner"]
  /\ UNCHANGED <<up, pool, job, finish, nop>>

(***************************************************************************)
(* The environment.                                                        *)
(***************************************************************************)
Drop ==
  /\ up
  /\ up' = FALSE
  /\ srv' = [t \in Txn |-> IF srv[t] = "open" THEN "lost" ELSE srv[t]]
  /\ buf' = [t \in Txn |-> NoWrites]
  /\ UNCHANGED <<db, client, closed, expired, nop>>

\* rews dials again and restores the session, but no transaction.
Reconnect ==
  /\ ~up
  /\ up' = TRUE
  /\ UNCHANGED <<server, client, closed, expired, nop>>

Expire(t) ==
  /\ \E s \in Session : pool[s] = t
  /\ ~expired[t]
  /\ expired' = [expired EXCEPT ![t] = TRUE]
  /\ UNCHANGED <<server, up, client, closed, nop>>

-----------------------------------------------------------------------------
Init ==
  /\ db = [k \in Key |-> Initial(k \in Seeded)]
  /\ srv = [t \in Txn |-> "none"]
  /\ buf = [t \in Txn |-> NoWrites]
  /\ up = TRUE
  /\ pool = [s \in Session |-> Shared]
  /\ job = [s \in Session |-> NoJob]
  /\ finish = [s \in Session |-> "no"]
  /\ closed = [t \in Txn |-> FALSE]
  /\ expired = [t \in Txn |-> FALSE]
  /\ told = [t \in Txn |-> "none"]
  /\ nop = 0

RoutedCallback(s) ==
  \/ \E R \in SUBSET Row \ {{}} : \/ CreateRows(s, R) \/ CreateMany(s, R) \/ UpdateRows(s, R)
                     \/ DeleteRows(s, R) \/ SoftDelete(s, R) \/ ExecRows(s, R)
  \/ \E from \in Owner, to \in Target : CreateEdge(s, from, to) \/ ExecInsertEdge(s, from, to)

DirectCallback(s) ==
  \/ \E R \in SUBSET Row \ {{}} : RawTransaction(s, R)
  \/ \E from \in Owner, to \in Target : Relate(s, from, to)

StartJob(s) == \E o \in Owner, T \in SUBSET Target :
  \/ T # {} /\ (Save(s, o, T) \/ AssocDelete(s, o, T))
  \/ AssocReplace(s, o, T)

JobStep(s) == SaveEdge(s) \/ SaveRow(s) \/ Unlink(s) \/ Wipe(s) \/ Relink(s) \/ JobFails(s)

Closure(s) == \E how \in {"commit", "rollback"} : ClosureReturns(s, how)

Next ==
  \/ \E s \in Session :
       \/ \E t \in Txn : Begin(s, t)
       \/ RoutedCallback(s) \/ DirectCallback(s) \/ StartJob(s) \/ JobStep(s)
       \/ Closure(s) \/ InnerFinish(s) \/ EndCommit(s) \/ EndRollback(s)
  \/ \E t \in Txn : Expire(t)
  \/ Drop
  \/ Reconnect

Spec == Init /\ [][Next]_vars

(***************************************************************************)
(* A goroutine inside a callback, inside GORM's ending of a transaction,   *)
(* or whose closure has nothing left to run does not stop by itself.       *)
(***************************************************************************)
Fairness == \A s \in Session : /\ WF_vars(JobStep(s))
                               /\ WF_vars(Closure(s))
                               /\ WF_vars(EndCommit(s))
                               /\ WF_vars(EndRollback(s))

FairSpec == Spec /\ Fairness

-----------------------------------------------------------------------------
(***************************************************************************)
(* Properties.                                                             *)
(***************************************************************************)
Job == [kind : {"save", "unlink", "wipe", "relink"}, op : OpId, owner : Row,
        want : SUBSET Row, left : SUBSET Row]

\* The type invariant: the values each part of the driver's state can take.
TypeOK ==
  /\ db \in [Key -> Val]
  /\ srv \in [Txn -> {"none", "open", "committed", "cancelled", "lost"}]
  /\ buf \in [Txn -> [Key -> Val \cup {Same}]]
  /\ up \in BOOLEAN
  /\ pool \in [Session -> Conn]
  /\ job \in [Session -> Job \cup {NoJob}]
  /\ finish \in [Session -> {"no", "commit", "rollback"}]
  /\ closed \in [Txn -> BOOLEAN]
  /\ expired \in [Txn -> BOOLEAN]
  /\ told \in [Txn -> {"none", "nil", "error", "inner"}]
  /\ nop \in OpId

\* Whatever was written through a transaction's handle by a callback that
\* routes by ConnPool is in the store only if the transaction committed: not
\* while it is open, not after Rollback, not after a lost connection, not after
\* a statement that came too late (executor.go execTxQuery and the routing of
\* each callback).
RoutedWritesAreTransactional ==
  \A k \in Key : LET v == db[k] IN
    v.tx # Shared /\ ~v.direct => srv[v.tx] = "committed"

\* When db.Transaction returns nil the server has committed, unless the closure
\* had ended the transaction itself (SurrealTx.Commit returns nil for a closed
\* handle); and a transaction reported as failed is in the store only if it was
\* the commit's reply that came too late.
ReportsAreTrue ==
  \A t \in Txn :
    /\ told[t] = "nil" => srv[t] = "committed"
    /\ told[t] = "error" /\ srv[t] = "committed" => expired[t]

\* UpdateCallback sends the relations of a Save before the record, and stops at
\* the first that fails: a record that shows a Save shows all of its relations,
\* on the shared connection, inside a transaction and after a failure midway.
SavedRowHasItsEdges ==
  \A r \in Row : \A x \in db[r].want :
    \E e \in Edge : db[e].op = db[r].op /\ db[e].ends = <<r, x>>

\* Every transaction opened on the server ends there: it is committed, rolled
\* back or lost with the connection, whatever fails on the way, unless the
\* context it was opened with is done, which is also the context Rollback uses.
EveryTxEnds == \A t \in Txn : srv[t] = "open" ~> srv[t] # "open" \/ expired[t]

(***************************************************************************)
(* The driver implements TxStore, where the writes that ignore ConnPool    *)
(* are writes outside every transaction.                                   *)
(***************************************************************************)
AsStored(v) == IF v.direct THEN [v EXCEPT !.tx = Shared] ELSE v

Fate(how) == IF how \in {"cancelled", "lost"} THEN "aborted" ELSE how

Store == INSTANCE TxStore WITH
  Auto <- Shared,
  db   <- [k \in Key |-> AsStored(db[k])],
  fate <- [t \in Txn |-> Fate(srv[t])],
  pend <- buf

\* Every step of the driver is one step of a transactional store, or none.
ImplementsTxStore == Store!Spec
=============================================================================
