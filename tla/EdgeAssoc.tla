------------------------------ MODULE EdgeAssoc ------------------------------
(***************************************************************************)
(* Many-to-many associations over an edge table, as db.Save and GORM's     *)
(* Association API reach them through this driver.                         *)
(*                                                                         *)
(* Each client holds a struct: a record, the end of the relation it is on  *)
(* (side), and the slice of associated records.  Every update of the       *)
(* struct, that of Append and Replace included, makes UpdateCallback       *)
(* insert one edge per element of the slice, call by call; Replace and     *)
(* Delete then send one DELETE on the edge table.  The server keeps edges  *)
(* as a bag: edges[p] is how many lead from p[1] to p[2].                  *)
(***************************************************************************)
EXTENDS Integers, Sequences, FiniteSets

CONSTANTS Client, Record,
          Tables,      \* DEFINE TABLE ... TYPE RELATION: the pairs each accepts
          None,        \* no call is running
          MaxLen,      \* bound: the length of a slice
          MaxCopies,   \* bound: edges from one record to another
          MaxCalls     \* bound: calls in all

Pair == Record \X Record
Kind == {"save", "replace", "delete"}
Slices == UNION {[1..n -> Record] : n \in 0..MaxLen}
Job == [kind : Kind, at : 1..MaxLen + 1, values : Slices]

ASSUME EdgeAssocAssumption ==
  /\ Tables \subseteq SUBSET Pair
  /\ MaxLen \in Nat /\ MaxCopies \in Nat /\ MaxCalls \in Nat
  /\ None \notin Job

VARIABLES accepts,  \* server: the pairs the edge table accepts
          edges,    \* server: the edges
          model,    \* each client's struct
          call,     \* the call it is in: the next element to insert
          told,     \* how its last call ended
          lost,     \* history: elements whose edges others removed since it began
          quiet,    \* history: nobody else changed an edge since it began
          fresh,    \* history: no call ever carried an edge that was there
          calls     \* calls begun

vars == <<accepts, edges, model, call, told, lost, quiet, fresh, calls>>

Elems(s) == {s[i] : i \in 1..Len(s)}
Copies(s, t) == Cardinality({i \in 1..Len(s) : s[i] = t})
NoRepeat(s) == \A i, j \in 1..Len(s) : i # j => s[i] # s[j]

-----------------------------------------------------------------------------
(***************************************************************************)
(* The direction of an edge.                                               *)
(***************************************************************************)
\* UpdateCallback: In is the struct's record, whichever end it is on.
Stored(c, t) == <<model[c].rec, t>>

\* Preload, Count, Replace and Delete read the relation from the struct's side.
Seen(c, t) == IF model[c].side = "in" THEN <<model[c].rec, t>> ELSE <<t, model[c].rec>>

Linked(c) == {t \in Record : edges[Seen(c, t)] > 0}

\* What the Go types let the application put into a slice.
Fits(c, s) == \A t \in Elems(s) : Seen(c, t) \in accepts

\* What c's call has still to insert.
Pending(c) == IF call[c] = None THEN {}
              ELSE {Stored(c, model[c].list[i]) : i \in call[c].at..Len(model[c].list)}

-----------------------------------------------------------------------------
(***************************************************************************)
(* Calls begin.                                                            *)
(***************************************************************************)
Idle(c) == call[c] = None

Fresh(c, list) ==
  /\ NoRepeat(list)
  /\ \A t \in Elems(list) : /\ edges[Stored(c, t)] = 0
                            /\ \A d \in Client \ {c} : Stored(c, t) \notin Pending(d)

Begin(c, kind, at, list, values) ==
  /\ Idle(c) /\ calls < MaxCalls /\ list \in Slices /\ Fits(c, values)
  /\ calls' = calls + 1
  /\ model' = [model EXCEPT ![c].list = list]
  /\ call' = [call EXCEPT ![c] = [kind |-> kind, at |-> at, values |-> values]]
  /\ told' = [told EXCEPT ![c] = "running"]
  /\ lost' = [lost EXCEPT ![c] = {}]
  /\ quiet' = [quiet EXCEPT ![c] = TRUE]
  /\ fresh' = (fresh /\ (kind # "delete" => Fresh(c, list)))
  /\ UNCHANGED <<accepts, edges>>

\* db.Save and db.Updates of the struct: the whole slice goes out again.
Save(c) == model[c].list # <<>> /\ Begin(c, "save", 1, model[c].list, <<>>)

\* Association.Append: the slice grows, whether or not the calls that follow
\* succeed, and all of it is saved.
Add(c, t) == Begin(c, "save", 1, Append(model[c].list, t), <<t>>)

\* Association.Replace, and Clear with no values.
Replace(c, T) == Begin(c, "replace", 1, T, T)

\* Association.Delete.
Delete(c, T) == T # <<>> /\ Begin(c, "delete", Len(model[c].list) + 1, model[c].list, T)

\* First with Preload: a graph traversal, one element per edge.
Preload(c) ==
  /\ Idle(c) /\ calls < MaxCalls
  /\ calls' = calls + 1
  /\ \E s \in Slices :
       /\ \A t \in Record : Copies(s, t) = edges[Seen(c, t)]
       /\ model' = [model EXCEPT ![c].list = s]
  /\ told' = [told EXCEPT ![c] = "loaded"]
  /\ UNCHANGED <<accepts, edges, call, lost, quiet, fresh>>

-----------------------------------------------------------------------------
(***************************************************************************)
(* Their requests.                                                         *)
(***************************************************************************)
Ends(c, result) == /\ call' = [call EXCEPT ![c] = None]
                   /\ told' = [told EXCEPT ![c] = result]

NextElem(c) == model[c].list[call[c].at]
Inserting(c) == ~Idle(c) /\ call[c].at <= Len(model[c].list)
AllSent(c, kind) == ~Idle(c) /\ call[c].kind = kind /\ ~Inserting(c)

Noticed(c) == quiet' = [d \in Client |-> d = c /\ quiet[d]]

\* mutant: the loop runs one element past the end of the slice.
InsertsPastEnd(c) ==
  LET p == Stored(c, NextElem(c)) IN
  /\ ~Idle(c)
  /\ IF Inserting(c)
       THEN /\ p \in accepts /\ edges[p] < MaxCopies
            /\ edges' = [edges EXCEPT ![p] = @ + 1]
       ELSE UNCHANGED edges
  /\ call' = [call EXCEPT ![c].at = @ + 1]
  /\ Noticed(c)
  /\ UNCHANGED <<accepts, model, told, lost, fresh, calls>>

\* mutant: a relation whose reply was lost is sent once more.
InsertsAgain(c) ==
  LET p == Stored(c, NextElem(c)) IN
  /\ Inserting(c)
  /\ p \in accepts /\ edges[p] < MaxCopies
  /\ edges' = [edges EXCEPT ![p] = @ + 1]
  /\ Noticed(c)
  /\ UNCHANGED <<accepts, model, call, told, lost, fresh, calls>>

\* UpdateCallback: InsertRelation for the next element, which may be there already.
Inserts(c) ==
  LET p == Stored(c, NextElem(c)) IN
  /\ Inserting(c)
  /\ p \in accepts /\ edges[p] < MaxCopies
  /\ edges' = [edges EXCEPT ![p] = @ + 1]
  /\ call' = [call EXCEPT ![c].at = @ + 1]
  /\ Noticed(c)
  /\ UNCHANGED <<accepts, model, told, lost, fresh, calls>>

\* mutant: the error of a relation is not returned.
RefusedGoesOn(c) ==
  /\ Inserting(c) /\ Stored(c, NextElem(c)) \notin accepts
  /\ call' = [call EXCEPT ![c].at = @ + 1]
  /\ UNCHANGED <<accepts, edges, model, told, lost, quiet, fresh, calls>>

\* The table does not take the relation that way round.
Refused(c) ==
  /\ Inserting(c) /\ Stored(c, NextElem(c)) \notin accepts
  /\ Ends(c, "error")
  /\ UNCHANGED <<accepts, edges, model, lost, quiet, fresh, calls>>

\* The UPDATE of the record, which leaves the edges alone.
Saved(c) ==
  /\ AllSent(c, "save")
  /\ Ends(c, "saved")
  /\ UNCHANGED <<accepts, edges, model, lost, quiet, fresh, calls>>

\* DELETE FROM edge WHERE it has c's record at c's end and one of D at the other.
Unlink(c, D) ==
  LET gone == {Seen(c, t) : t \in D} IN
  /\ edges' = [p \in Pair |-> IF p \in gone THEN 0 ELSE edges[p]]
  /\ lost' = [d \in Client |->
                IF d = c THEN lost[d] ELSE lost[d] \cup {t \in Record : Stored(d, t) \in gone}]
  /\ Noticed(c)

\* mutant: the new elements are removed, not the others.
OthersInverted(c) == Elems(call[c].values)

\* The elements that out NOT IN values removes.  With several values the list in
\* parentheses is no set to the server, so that none of the owner's is in it.
Others(c) == IF Len(call[c].values) > 1 THEN Linked(c)
             ELSE Linked(c) \ Elems(call[c].values)

\* Replace's DELETE, after the inserts.  Its reply can be lost.
DeletesOthers(c) ==
  /\ AllSent(c, "replace")
  /\ Unlink(c, Others(c))
  /\ \E result \in {"replaced", "error"} : Ends(c, result)
  /\ UNCHANGED <<accepts, model, fresh, calls>>

\* Delete's DELETE: one value is compared by =, a list of several contains none.
\* GORM takes the values out of the slice when there was no error (the order of
\* the slice is left open, as in Preload).
Deletes(c) ==
  LET T == call[c].values IN
  /\ AllSent(c, "delete")
  /\ Unlink(c, IF Len(T) > 1 THEN {} ELSE Elems(T))
  /\ \/ /\ Ends(c, "deleted")
        /\ \E s \in Slices :
             /\ \A t \in Record :
                  Copies(s, t) = IF t \in Elems(T) THEN 0 ELSE Copies(model[c].list, t)
             /\ model' = [model EXCEPT ![c].list = s]
     \/ Ends(c, "error") /\ UNCHANGED model
  /\ UNCHANGED <<accepts, fresh, calls>>

\* A request fails, or the reply of an insert is lost: the callback returns.
Fails(c) ==
  /\ ~Idle(c)
  /\ Ends(c, "error")
  /\ UNCHANGED <<accepts, edges, model, lost, quiet, fresh, calls>>

-----------------------------------------------------------------------------
Structs(pairs) ==
  [rec : {p[1] : p \in pairs}, side : {"in"}, list : {<<>>}] \cup
  [rec : {p[2] : p \in pairs}, side : {"out"}, list : {<<>>}]

Init ==
  /\ accepts \in Tables
  /\ edges = [p \in Pair |-> 0]
  /\ model \in [Client -> Structs(accepts)]
  /\ call = [c \in Client |-> None]
  /\ told = [c \in Client |-> "none"]
  /\ lost = [c \in Client |-> {}]
  /\ quiet = [c \in Client |-> TRUE]
  /\ fresh = TRUE
  /\ calls = 0

Next == \E c \in Client :
  \/ Save(c) \/ Preload(c)
  \/ \E t \in Record : Add(c, t)
  \/ \E T \in Slices : Replace(c, T) \/ Delete(c, T)
  \/ Inserts(c) \/ Refused(c) \/ Saved(c) \/ DeletesOthers(c) \/ Deletes(c) \/ Fails(c)

Spec == Init /\ [][Next]_vars

-----------------------------------------------------------------------------
\* Edges are counted, structs and calls have their types.
TypeOK ==
  /\ accepts \in SUBSET Pair
  /\ edges \in [Pair -> 0..MaxCopies]
  /\ model \in [Client -> [rec : Record, side : {"in", "out"}, list : Slices]]
  /\ call \in [Client -> Job \cup {None}]
  /\ told \in [Client -> {"none", "running", "saved", "replaced", "deleted", "loaded", "error"}]
  /\ lost \in [Client -> SUBSET Record]
  /\ quiet \in [Client -> BOOLEAN]
  /\ fresh \in BOOLEAN
  /\ calls \in 0..MaxCalls

\* A save or an append that returned nil has an edge from its record to every
\* element of the slice, old and new, unless another client removed it meanwhile;
\* a relation that the table refused or that failed is never passed over in
\* silence (callback_update.go:83).
SavedIsLinked ==
  \A c \in Client : told[c] = "saved" =>
    \A t \in Elems(model[c].list) : edges[Stored(c, t)] > 0 \/ t \in lost[c]

\* Nothing in the driver or the table keeps a relation from being stored twice:
\* relations are single as long as nobody updates a struct whose slice has an
\* element that is linked, or about to be (callback_update.go:54).
FreshLinksAreSingle == fresh => \A p \in Pair : edges[p] <= 1

\* Replace by one value, and Clear, leave exactly that value linked to the owner,
\* unless another client changed edges meanwhile: the order, inserts before the
\* DELETE, does not matter to the caller (register.go:38).
QuietReplaceIsExact ==
  \A c \in Client :
    told[c] = "replaced" /\ quiet[c] /\ model[c].side = "in" /\ Len(model[c].list) <= 1
      => Linked(c) = Elems(model[c].list)
=============================================================================
