------------------------------ MODULE Records -------------------------------
(***************************************************************************)
(* The write callbacks as an application sees them: structs that hold a    *)
(* record, and what Create, Save, Update and Delete make of them and of    *)
(* the store, with and without an id, WHERE and Unscoped.  Several clients *)
(* work on the same records; every request to the server is atomic, and    *)
(* only Save makes two.                                                    *)
(*                                                                         *)
(* A struct has an id, one field, and DeletedAt.  A record stores a field  *)
(* only if something wrote it, and a field that is not there leaves the    *)
(* struct that the record is read into as it was.                          *)
(***************************************************************************)
EXTENDS Naturals, FiniteSets

CONSTANTS Client, Id, Text,
          NoId,
          Zero,      \* the zero value of the field
          Missing,   \* the field is not in the record
          Absent,    \* no such record
          None,      \* no call, no condition
          MaxCall    \* bound on the calls of all clients

Row == [name : Text \cup {Zero, Missing}, deleted : BOOLEAN]
Model == [id : Id \cup {NoId}, name : Text \cup {Zero}, deleted : BOOLEAN]
Op == {"create", "slice", "save", "update", "delete", "read", "error"}
Reply == [op : Op, who : Client, rows : Nat]

ASSUME RecordsAssumption ==
  /\ NoId \notin Id
  /\ {Zero, Missing, None} \cap Text = {} /\ Zero # Missing
  /\ Absent \notin Row /\ None \notin Reply
  /\ MaxCall \in Nat
  /\ IsFiniteSet(Id)

VARIABLES store,    \* the server's records
          model,    \* each client's struct
          pending,  \* clients whose Save updated no row and is about to create
          last,     \* the call that returned last, if no struct was edited since
          calls,
          used,     \* history: ids that some record had
          hidden    \* history: records a Delete has returned for, see Hides

history == <<used, hidden>>
vars == <<store, model, pending, last, calls, history>>

Scope == {"scoped", "unscoped"}

Exists(i) == store[i] # Absent

\* What a statement with the soft-delete condition sees, and one without.
Sees(scope, i) == Exists(i) /\ (scope = "scoped" => ~store[i].deleted)

Matches(i, w) == w = None \/ store[i].name = w

-----------------------------------------------------------------------------
\* The application calls the driver again, and is answered.
Calls(c) == /\ c \notin pending
            /\ calls < MaxCall
            /\ calls' = calls + 1

Returns(c, op, n) == last' = [op |-> op, who |-> c, rows |-> n]

Write(i, r) == /\ store' = [store EXCEPT ![i] = r]
               /\ used' = used \cup {i}

\* What a create sends: the fields that are not zero.
Content(m) == [name |-> IF m.name = Zero THEN Missing ELSE m.name, deleted |-> m.deleted]

\* mutant: what the record does not have is cleared.
MergeBlindly(m, i, r) == [id |-> i, name |-> r.name, deleted |-> m.deleted \/ r.deleted]

\* The record r, with id i, is decoded into the struct m.
Merge(m, i, r) == [id |-> i,
                   name |-> IF r.name = Missing THEN m.name ELSE r.name,
                   deleted |-> m.deleted \/ r.deleted]

\* History: from the return of a Delete, a record is hidden until a call that may
\* bring it back; one that is under way is no better than a later one.
Hides(D) == hidden' = (hidden \cup (D \cap used)) \ {model[c].id : c \in pending}
Shows(i) == hidden' = hidden \ {i}

\* The application builds a struct, also with an id it knows, or edits it.
NewModel(c, i, v) ==
  /\ c \notin pending
  /\ model' = [model EXCEPT ![c] = [id |-> i, name |-> v, deleted |-> FALSE]]
  /\ last' = None
  /\ UNCHANGED <<store, pending, calls, history>>

SetName(c, v) ==
  /\ c \notin pending
  /\ model' = [model EXCEPT ![c].name = v]
  /\ last' = None
  /\ UNCHANGED <<store, pending, calls, history>>

-----------------------------------------------------------------------------
\* CREATE, which gives the record a new id.
Create(c, i) ==
  /\ Calls(c) /\ model[c].id = NoId /\ i \notin used
  /\ LET r == Content(model[c])
     IN Write(i, r) /\ model' = [model EXCEPT ![c] = Merge(model[c], i, r)]
  /\ Returns(c, "create", 1)
  /\ UNCHANGED <<pending, hidden>>

\* mutant: UPSERT, which creates the record that is missing.
Upsert(c) ==
  LET i == model[c].id
      r == Content(model[c])
  IN /\ Write(i, r)
     /\ model' = [model EXCEPT ![c] = Merge(model[c], i, r)]

\* The SDK's Update, for a struct with an id: it replaces a record that is there,
\* and creates none.
Replace(c) ==
  LET i == model[c].id
      r == Content(model[c])
  IN IF Exists(i)
       THEN Write(i, r) /\ model' = [model EXCEPT ![c] = Merge(model[c], i, r)]
       ELSE UNCHANGED <<store, used, model>>

CreateWithID(c) ==
  /\ Calls(c) /\ model[c].id # NoId
  /\ Replace(c)
  /\ Shows(model[c].id)
  /\ Returns(c, "create", 1)
  /\ UNCHANGED pending

\* INSERT, for a slice of structs, here of one: it uses the id it is given, and
\* refuses one that is taken.
CreateSlice(c, i) ==
  /\ Calls(c)
  /\ IF model[c].id = NoId THEN i \notin used ELSE i = model[c].id
  /\ IF Exists(i)
       THEN Returns(c, "error", 0) /\ UNCHANGED <<store, used, model, hidden>>
       ELSE LET r == Content(model[c])
            IN /\ Write(i, r)
               /\ model' = [model EXCEPT ![c] = Merge(model[c], i, r)]
               /\ Shows(i)
               /\ Returns(c, "slice", 1)
  /\ UNCHANGED pending

\* mutant: Save ends with its UPDATE.
SaveUpdatesOnly(c, scope) ==
  LET i == model[c].id IN
  /\ Calls(c) /\ i # NoId
  /\ IF Sees(scope, i) THEN Write(i, [name |-> model[c].name, deleted |-> model[c].deleted])
                       ELSE UNCHANGED <<store, used>>
  /\ Returns(c, "save", 1)
  /\ Shows(i)
  /\ UNCHANGED <<model, pending>>

\* Save of a struct with an id: every field, zero or not, to the record if the
\* statement sees it; if it sees none, Save creates.
Save(c, scope) ==
  LET i == model[c].id IN
  /\ Calls(c) /\ i # NoId
  /\ IF Sees(scope, i)
       THEN /\ Write(i, [name |-> model[c].name, deleted |-> model[c].deleted])
            /\ Returns(c, "save", 1)
            /\ UNCHANGED pending
       ELSE /\ pending' = pending \cup {c}
            /\ last' = None
            /\ UNCHANGED <<store, used>>
  /\ Shows(i)
  /\ UNCHANGED model

SaveCreates(c) ==
  /\ c \in pending
  /\ Replace(c)
  /\ pending' = pending \ {c}
  /\ Returns(c, "save", 1)
  /\ UNCHANGED <<calls, hidden>>

-----------------------------------------------------------------------------
\* The records that a statement on the struct's id, or on the table, sees.
Targets(c, scope, w) ==
  {i \in Id : /\ model[c].id # NoId => i = model[c].id
              /\ Sees(scope, i) /\ Matches(i, w)}

\* mutant: the record is replaced by what is updated.
UpdateReplaces(c, scope, w, v) ==
  LET T == Targets(c, scope, w) IN
  /\ Calls(c)
  /\ store' = [i \in Id |-> IF i \in T THEN [name |-> v, deleted |-> FALSE] ELSE store[i]]
  /\ model' = [model EXCEPT ![c].name = v]
  /\ Returns(c, "update", Cardinality(T))
  /\ UNCHANGED <<pending, history>>

\* Model(&m).Where(w).Update: SET on what the statement sees; the struct gets the
\* value whether or not a record does.
Update(c, scope, w, v) ==
  LET T == Targets(c, scope, w) IN
  /\ Calls(c)
  /\ store' = [i \in Id |-> IF i \in T THEN [store[i] EXCEPT !.name = v] ELSE store[i]]
  /\ model' = [model EXCEPT ![c].name = v]
  /\ Returns(c, "update", Cardinality(T))
  /\ UNCHANGED <<pending, history>>

\* The same for deleted_at, to restore a record.
Restore(c) ==
  LET i == model[c].id IN
  /\ Calls(c) /\ i # NoId
  /\ store' = IF Exists(i) THEN [store EXCEPT ![i].deleted = FALSE] ELSE store
  /\ model' = [model EXCEPT ![c].deleted = FALSE]
  /\ Shows(i)
  /\ Returns(c, "update", IF Exists(i) THEN 1 ELSE 0)
  /\ UNCHANGED <<pending, used>>

\* Delete of a model with DeletedAt.  By id, WHERE is not looked at and one row is
\* reported; by WHERE, deleted records are deleted again.
SoftDelete(c, w) ==
  LET byID == model[c].id # NoId
      T == {i \in Id : IF byID THEN i = model[c].id ELSE Exists(i) /\ Matches(i, w)}
  IN /\ Calls(c)
     /\ store' = [i \in Id |-> IF i \in T /\ Exists(i) THEN [store[i] EXCEPT !.deleted = TRUE]
                                                     ELSE store[i]]
     /\ Hides(T)
     /\ Returns(c, "delete", IF byID THEN 1 ELSE Cardinality(T))
     /\ UNCHANGED <<model, pending, used>>

\* Unscoped, or without DeletedAt: DELETE, which returns no rows to count.
HardDelete(c, w) ==
  LET byID == model[c].id # NoId
      T == {i \in Id : IF byID THEN i = model[c].id ELSE Exists(i) /\ Matches(i, w)}
  IN /\ Calls(c)
     /\ store' = [i \in Id |-> IF i \in T THEN Absent ELSE store[i]]
     /\ Hides(T)
     /\ Returns(c, "delete", IF byID THEN 1 ELSE 0)
     /\ UNCHANGED <<model, pending, used>>

\* First(&m, "id = ?", i): a record that is not seen is an error.
Read(c, scope, i) ==
  /\ Calls(c)
  /\ IF Sees(scope, i)
       THEN model' = [model EXCEPT ![c] = Merge(model[c], i, store[i])] /\ Returns(c, "read", 1)
       ELSE Returns(c, "error", 0) /\ UNCHANGED model
  /\ UNCHANGED <<store, pending, history>>

Init ==
  /\ store = [i \in Id |-> Absent]
  /\ model = [c \in Client |-> [id |-> NoId, name |-> Zero, deleted |-> FALSE]]
  /\ pending = {} /\ last = None /\ calls = 0
  /\ used = {} /\ hidden = {}

Condition == Text \cup {None}

Step(c) ==
  \/ \E i \in Id \cup {NoId}, v \in Text \cup {Zero} : NewModel(c, i, v)
  \/ \E v \in Text \cup {Zero} : SetName(c, v)
  \/ \E i \in Id : Create(c, i) \/ CreateSlice(c, i)
  \/ CreateWithID(c) \/ SaveCreates(c) \/ Restore(c)
  \/ \E scope \in Scope : \/ Save(c, scope)
                          \/ \E i \in Id : Read(c, scope, i)
                          \/ \E w \in Condition, v \in Text : Update(c, scope, w, v)
  \/ \E w \in Condition : SoftDelete(c, w) \/ HardDelete(c, w)

Next == \E c \in Client : Step(c)

Spec == Init /\ [][Next]_vars

-----------------------------------------------------------------------------
(***************************************************************************)
(* Properties.                                                             *)
(***************************************************************************)
\* The type invariant.
TypeOK ==
  /\ store \in [Id -> Row \cup {Absent}]
  /\ model \in [Client -> Model]
  /\ pending \subseteq Client /\ \A c \in pending : model[c].id \in Id
  /\ last \in Reply \cup {None}
  /\ calls \in 0..MaxCall
  /\ used \subseteq Id /\ hidden \subseteq Id
  /\ \A i \in Id : Exists(i) => i \in used

\* Once a Delete has returned, the record stays deleted, whatever updates, deletes
\* and reads of other clients meet it: no statement that was not meant to restore
\* or write the whole record makes it visible again (callback_delete.go:140-170).
DeletedStaysHidden == \A i \in hidden : Exists(i) => store[i].deleted

\* A Save that returned without an error left its fields in the record, by its
\* UPDATE or by its create, also when others deleted, restored or changed the record
\* between the two; but it does not notice that the record is gone.
SaveStores ==
  last # None /\ last.op = "save" =>
    LET m == model[last.who]
    IN Exists(m.id) => store[m.id] \in {Content(m), [name |-> m.name, deleted |-> m.deleted]}

\* A record that was deleted for good never comes back by a stale struct, only by
\* an INSERT with its id (callback_create.go:414-424).
GoneStaysGone ==
  [][\A i \in used : ~Exists(i) /\ store'[i] # Absent =>
       last' # None /\ last'.op = "slice"]_vars

\* "Upsert-by-id already works (create-with-id routes through UPDATE)"
\* (CHANGELOG.md:32).
UpsertStores ==
  last # None /\ last.op = "create" => Exists(model[last.who].id)
=============================================================================
