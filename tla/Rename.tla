------------------------------- MODULE Rename -------------------------------
(***************************************************************************)
(* Migrator.RenameField: up to five calls, none of them in a transaction,  *)
(* that give a field of a SCHEMALESS table a new name, on any number of    *)
(* processes, while clients may write to the table under either name.      *)
(***************************************************************************)
EXTENDS Naturals

CONSTANTS Caller,    \* processes that call RenameField, each with one call at a time
          Row, Value, NoValue,
          MaxCall,   \* bound on calls of RenameField
          MaxWrite,  \* bound on writes of clients
          MaxFail    \* bound on failed calls to the server and stopped processes

ASSUME RenameAssumption == /\ NoValue \notin Value
                           /\ MaxCall \in Nat /\ MaxWrite \in Nat /\ MaxFail \in Nat

VARIABLES rows,    \* what each record has under the old and the new name
          defined, \* the names with a field definition
          pc,
          result,  \* what the caller's last RenameField returned
          calls, writes, fails,
          latest,  \* history: the value clients wrote last to each record
          past     \* history: what happened to the field, see Past

table == <<rows, defined>>
vars == <<table, pc, result, calls, writes, fails, latest, past>>

Content == [old : Value \cup {NoValue}, new : Value \cup {NoValue}]

\* had: the field had a definition at first; blind: an INFO FOR TABLE failed; copies:
\* how often it was copied; raced: a client wrote the old name after a copy, or the
\* new one before any.
Past == [had : BOOLEAN, blind : BOOLEAN, copies : Nat, raced : BOOLEAN]

Goto(p, step) == pc' = [pc EXCEPT ![p] = step]

Ends(p, r) == Goto(p, "idle") /\ result' = [result EXCEPT ![p] = r]

-----------------------------------------------------------------------------
Call(p) ==
  /\ pc[p] = "idle" /\ calls < MaxCall
  /\ calls' = calls + 1
  /\ Goto(p, "info")
  /\ result' = [result EXCEPT ![p] = "none"]
  /\ UNCHANGED <<table, writes, fails, latest, past>>

\* INFO FOR TABLE; without a definition there is none to recreate.
TableInfo(p) ==
  /\ pc[p] = "info"
  /\ Goto(p, IF "old" \in defined THEN "define" ELSE "copy")
  /\ UNCHANGED <<table, result, calls, writes, fails, latest, past>>

\* mutant: the definition is made with IF NOT EXISTS.
DefineIfNotExists(p) ==
  /\ pc[p] = "define"
  /\ defined' = defined \cup {"new"} /\ Goto(p, "copy")
  /\ UNCHANGED <<rows, result, calls, writes, fails, latest, past>>

\* mutant: the name is not found in the definition, and the step left out.
DefineSkipped(p) ==
  /\ pc[p] = "define"
  /\ Goto(p, "copy")
  /\ UNCHANGED <<table, result, calls, writes, fails, latest, past>>

\* The definition under the new name, which must not be there yet.
Define(p) ==
  /\ pc[p] = "define"
  /\ IF "new" \in defined
       THEN Ends(p, "error") /\ UNCHANGED defined
       ELSE defined' = defined \cup {"new"} /\ Goto(p, "copy") /\ UNCHANGED result
  /\ UNCHANGED <<rows, calls, writes, fails, latest, past>>

\* mutant: the name is copied, not the value.
CopyName(p) ==
  /\ pc[p] = "copy"
  /\ rows' = [r \in Row |-> [rows[r] EXCEPT !.new = "old"]]
  /\ Goto(p, "unset")
  /\ past' = [past EXCEPT !.copies = @ + 1]
  /\ UNCHANGED <<defined, result, calls, writes, fails, latest>>

\* mutant: the old field is unset before it is copied.
CopyTooLate(p) ==
  /\ pc[p] = "copy"
  /\ rows' = [r \in Row |-> [rows[r] EXCEPT !.old = NoValue]]
  /\ Goto(p, "unset")
  /\ past' = [past EXCEPT !.copies = @ + 1]
  /\ UNCHANGED <<defined, result, calls, writes, fails, latest>>

\* UPDATE t SET new = old, on every record.
Copy(p) ==
  /\ pc[p] = "copy"
  /\ rows' = [r \in Row |-> [rows[r] EXCEPT !.new = rows[r].old]]
  /\ Goto(p, "unset")
  /\ past' = [past EXCEPT !.copies = @ + 1]
  /\ UNCHANGED <<defined, result, calls, writes, fails, latest>>

\* UPDATE t UNSET old, on every record.
Unset(p) ==
  /\ pc[p] = "unset"
  /\ rows' = [r \in Row |-> [rows[r] EXCEPT !.old = NoValue]]
  /\ Goto(p, "remove")
  /\ UNCHANGED <<defined, result, calls, writes, fails, latest, past>>

\* REMOVE FIELD IF EXISTS old.
Remove(p) ==
  /\ pc[p] = "remove"
  /\ defined' = defined \ {"old"}
  /\ Ends(p, "ok")
  /\ UNCHANGED <<rows, calls, writes, fails, latest, past>>

\* A failed INFO FOR TABLE is taken for a field without a definition.
InfoFails(p) ==
  /\ pc[p] = "info" /\ fails < MaxFail
  /\ fails' = fails + 1
  /\ Goto(p, "copy")
  /\ past' = [past EXCEPT !.blind = TRUE]
  /\ UNCHANGED <<table, result, calls, writes, latest>>

\* Any other failed call ends RenameField with an error.
CallFails(p) ==
  /\ pc[p] \in {"define", "copy", "unset", "remove"} /\ fails < MaxFail
  /\ fails' = fails + 1
  /\ Ends(p, "error")
  /\ UNCHANGED <<table, calls, writes, latest, past>>

\* The process stops between two calls.
Stops(p) ==
  /\ pc[p] # "idle" /\ fails < MaxFail
  /\ fails' = fails + 1
  /\ Ends(p, "none")
  /\ UNCHANGED <<table, calls, writes, latest, past>>

\* A client built before the renaming writes a record, or one built after it.
WriteOld(r, v) ==
  /\ writes < MaxWrite
  /\ writes' = writes + 1
  /\ rows' = [rows EXCEPT ![r].old = v]
  /\ latest' = [latest EXCEPT ![r] = v]
  /\ past' = [past EXCEPT !.raced = @ \/ past.copies > 0]
  /\ UNCHANGED <<defined, pc, result, calls, fails>>

WriteNew(r, v) ==
  /\ writes < MaxWrite
  /\ writes' = writes + 1
  /\ rows' = [rows EXCEPT ![r].new = v]
  /\ latest' = [latest EXCEPT ![r] = v]
  /\ past' = [past EXCEPT !.raced = @ \/ past.copies = 0]
  /\ UNCHANGED <<defined, pc, result, calls, fails>>

Init ==
  /\ latest \in [Row -> Value \cup {NoValue}]
  /\ rows = [r \in Row |-> [old |-> latest[r], new |-> NoValue]]
  /\ defined \in {{}, {"old"}}
  /\ past = [had |-> "old" \in defined, blind |-> FALSE, copies |-> 0, raced |-> FALSE]
  /\ pc = [p \in Caller |-> "idle"]
  /\ result = [p \in Caller |-> "none"]
  /\ calls = 0 /\ writes = 0 /\ fails = 0

Next ==
  \/ \E p \in Caller : \/ Call(p) \/ TableInfo(p) \/ Define(p) \/ Copy(p)
                       \/ Unset(p) \/ Remove(p)
                       \/ InfoFails(p) \/ CallFails(p) \/ Stops(p)
  \/ \E r \in Row, v \in Value : WriteOld(r, v) \/ WriteNew(r, v)

Spec == Init /\ [][Next]_vars

-----------------------------------------------------------------------------
(***************************************************************************)
(* Properties.                                                             *)
(***************************************************************************)
\* The type invariant.
TypeOK ==
  /\ rows \in [Row -> Content]
  /\ defined \subseteq {"old", "new"}
  /\ pc \in [Caller -> {"idle", "info", "define", "copy", "unset", "remove"}]
  /\ result \in [Caller -> {"none", "ok", "error"}]
  /\ calls \in 0..MaxCall /\ writes \in 0..MaxWrite /\ fails \in 0..MaxFail
  /\ latest \in [Row -> Value \cup {NoValue}]
  /\ past \in Past

\* What RenameField promises: "copies the value on every record, unsets the old
\* value" (alter.go:285), so the last value written is under one of the names.
ValuesSurvive == \A r \in Row : latest[r] \in {rows[r].old, rows[r].new}

\* It keeps the promise, wherever it fails or stops, as long as the field is copied
\* once and clients change from the old name to the new one at that moment.
OneCopyKeepsValues == past.copies <= 1 /\ ~past.raced => ValuesSurvive

\* The definition of the field keeps a second call, concurrent or after a failure,
\* from copying again while the first has not finished: recreating it fails.
DefinitionGuardsCopy == past.had /\ ~past.blind /\ "old" \in defined => past.copies <= 1

\* RenameField does not succeed, and does not remove the old definition, without
\* the new one (alter.go:288), if no INFO FOR TABLE failed.
DefinitionMoves ==
  past.had /\ ~past.blind /\ ("old" \notin defined \/ \E p \in Caller : result[p] = "ok") =>
    "new" \in defined
=============================================================================
