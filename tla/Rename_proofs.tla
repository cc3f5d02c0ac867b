--------------------------- MODULE Rename_proofs ---------------------------
(***************************************************************************)
(* Theorems about Rename for every set of callers, records and values and  *)
(* every bound: what one renaming keeps, and what keeps a second one from  *)
(* copying while the first has not finished.                               *)
(***************************************************************************)
EXTENDS Rename, TLAPS

\* Before the copy the values are under the old name, after it under the new one,
\* and nothing is unset or removed before it.
CopyInv ==
  /\ ~past.raced /\ past.copies = 0 => \A r \in Row : rows[r].old = latest[r]
  /\ ~past.raced /\ past.copies = 1 => \A r \in Row : rows[r].new = latest[r]
  /\ \A p \in Caller : pc[p] \in {"unset", "remove"} => past.copies > 0

\* While the old definition is there, whoever makes the new one is the only one to
\* get as far as the copy.
GuardInv == past.had /\ ~past.blind /\ "old" \in defined =>
  /\ past.copies <= 1
  /\ "new" \notin defined =>
       past.copies = 0 /\ \A p \in Caller : pc[p] \notin {"copy", "unset", "remove"}
  /\ \A p \in Caller : pc[p] = "copy" => past.copies = 0
  /\ \A p, q \in Caller : pc[p] = "copy" /\ pc[q] = "copy" => p = q

\* Nobody gets past the definition without the new one being there.
MoveInv == past.had /\ ~past.blind =>
  /\ "old" \notin defined => "new" \in defined
  /\ \A p \in Caller : pc[p] \in {"copy", "unset", "remove"} \/ result[p] = "ok" =>
       "new" \in defined

Inv == TypeOK /\ CopyInv /\ GuardInv /\ MoveInv

-----------------------------------------------------------------------------
LEMMA InitInv == Init => Inv
<1> SUFFICES ASSUME Init PROVE Inv
  OBVIOUS
<1>1. past = [had |-> "old" \in defined, blind |-> FALSE, copies |-> 0, raced |-> FALSE]
  BY DEF Init
<1>2. past.had = ("old" \in defined) /\ past.copies = 0 /\ past.raced = FALSE
  BY <1>1
<1>3. \A r \in Row : rows[r].old = latest[r]
  BY DEF Init
<1>4. \A p \in Caller : pc[p] = "idle"
  BY DEF Init
<1>5. TypeOK
  <2>1. past \in Past
    BY <1>1 DEF Past
  <2>2. rows \in [Row -> Content]
    BY DEF Init, Content
  <2>3. pc \in [Caller -> {"idle"}] /\ result \in [Caller -> {"none"}]
    BY DEF Init
  <2> QED
    BY <2>1, <2>2, <2>3, RenameAssumption DEF Init, TypeOK
<1>6. CopyInv
  BY <1>2, <1>3, <1>4 DEF CopyInv
<1>7. GuardInv
  BY <1>2, <1>4 DEF GuardInv, Init
<1>8. MoveInv
  BY <1>2, <1>4 DEF MoveInv, Init
<1> QED
  BY <1>5, <1>6, <1>7, <1>8 DEF Inv

-----------------------------------------------------------------------------
LEMMA CallInv ==
  ASSUME Inv, NEW p \in Caller, Call(p) \/ TableInfo(p) \/ CallFails(p) \/ Stops(p)
  PROVE  Inv'
<1> USE DEF Inv
<1>1. UNCHANGED <<rows, defined, latest, past>>
  BY DEF Call, TableInfo, CallFails, Stops, table
<1>2. \E step \in {"idle", "info", "define", "copy"} : pc' = [pc EXCEPT ![p] = step]
  BY DEF Call, TableInfo, CallFails, Stops, Goto, Ends
<1>3. "old" \in defined => pc'[p] # "copy"
  BY DEF Call, TableInfo, CallFails, Stops, Goto, Ends, TypeOK
<1>4. TypeOK'
  <2>1. pc' \in [Caller -> {"idle", "info", "define", "copy", "unset", "remove"}]
    BY <1>2 DEF TypeOK
  <2>2. result' \in [Caller -> {"none", "ok", "error"}]
    BY DEF TypeOK, Call, TableInfo, CallFails, Stops, Ends
  <2>3. calls' \in 0..MaxCall /\ writes' \in 0..MaxWrite /\ fails' \in 0..MaxFail
    BY RenameAssumption DEF TypeOK, Call, TableInfo, CallFails, Stops
  <2> QED
    BY <1>1, <2>1, <2>2, <2>3 DEF TypeOK
<1>5. \A q \in Caller : pc'[q] = pc[q] \/ pc'[q] \in {"idle", "info", "define", "copy"}
  BY <1>2 DEF TypeOK
<1>6. CopyInv'
  BY <1>1, <1>5 DEF CopyInv
<1>7. "old" \in defined => \A q \in Caller : pc'[q] = pc[q] \/ pc'[q] \in {"idle", "info", "define"}
  BY <1>2, <1>3 DEF TypeOK
<1>8. GuardInv'
  BY <1>1, <1>7 DEF GuardInv
<1>9. \A q \in Caller : result'[q] = "ok" => result[q] = "ok"
  BY DEF Call, TableInfo, CallFails, Stops, Ends, TypeOK
<1>10. "old" \notin defined \/ \A q \in Caller :
         pc'[q] \in {"copy", "unset", "remove"} => pc[q] \in {"copy", "unset", "remove"}
  BY <1>7
<1>11. MoveInv'
  BY <1>1, <1>9, <1>10 DEF MoveInv
<1> QED
  BY <1>4, <1>6, <1>8, <1>11

LEMMA DefineInv ==
  ASSUME Inv, NEW p \in Caller, Define(p)
  PROVE  Inv'
<1> USE DEF Inv
<1>1. UNCHANGED <<rows, latest, past, calls, writes, fails>>
  BY DEF Define
<1>2. CASE "new" \in defined
  <2>1. pc' = [pc EXCEPT ![p] = "idle"] /\ result' = [result EXCEPT ![p] = "error"]
        /\ defined' = defined
    BY <1>2 DEF Define, Ends, Goto
  <2>2. TypeOK'
    BY <1>1, <2>1 DEF TypeOK
  <2>3. \A q \in Caller : pc'[q] = pc[q] \/ pc'[q] = "idle"
    BY <2>1 DEF TypeOK
  <2>4. MoveInv'
    BY <1>2, <2>1 DEF MoveInv
  <2> QED
    BY <1>1, <2>1, <2>2, <2>3, <2>4 DEF CopyInv, GuardInv
<1>3. CASE "new" \notin defined
  <2>1. pc' = [pc EXCEPT ![p] = "copy"] /\ result' = result
        /\ defined' = defined \cup {"new"}
    BY <1>3 DEF Define, Goto
  <2>2. TypeOK'
    BY <1>1, <2>1 DEF TypeOK
  <2>3. \A q \in Caller : pc'[q] = pc[q] \/ (q = p /\ pc'[q] = "copy")
    BY <2>1 DEF TypeOK
  <2>4. CopyInv'
    BY <1>1, <2>3 DEF CopyInv
  <2>5. GuardInv'
    BY <1>1, <1>3, <2>1, <2>3 DEF GuardInv
  <2>6. MoveInv'
    BY <2>1 DEF MoveInv
  <2> QED
    BY <2>2, <2>4, <2>5, <2>6
<1> QED
  BY <1>2, <1>3

LEMMA CopyKeepsInv ==
  ASSUME Inv, NEW p \in Caller, Copy(p)
  PROVE  Inv'
<1> USE DEF Inv
<1>1. past \in Past /\ past.copies \in Nat
  BY DEF TypeOK, Past
<1>2. /\ past' = [past EXCEPT !.copies = @ + 1]
      /\ rows' = [r \in Row |-> [rows[r] EXCEPT !.new = rows[r].old]]
      /\ pc' = [pc EXCEPT ![p] = "unset"] /\ pc[p] = "copy"
      /\ UNCHANGED <<defined, result, calls, writes, fails, latest>>
  BY DEF Copy, Goto
<1>3. /\ past' \in Past /\ past'.copies = past.copies + 1
      /\ past'.raced = past.raced /\ past'.had = past.had /\ past'.blind = past.blind
  BY <1>1, <1>2 DEF Past
<1>4. \A r \in Row : rows'[r] \in Content /\ rows'[r].new = rows[r].old
  BY <1>2 DEF TypeOK, Content
<1>5. TypeOK'
  BY <1>2, <1>3, <1>4 DEF TypeOK
<1>6. \A q \in Caller : pc'[q] = IF q = p THEN "unset" ELSE pc[q]
  BY <1>2 DEF TypeOK
<1>7. CopyInv'
  <2>1. ~past'.raced /\ past'.copies = 1 => \A r \in Row : rows'[r].new = latest'[r]
    <3>1. ~past'.raced /\ past'.copies = 1 => \A r \in Row : rows[r].old = latest[r]
      BY <1>1, <1>3 DEF CopyInv
    <3> QED
      BY <1>2, <1>4, <3>1
  <2>2. past'.copies > 0
    BY <1>1, <1>3
  <2> QED
    BY <2>1, <2>2 DEF CopyInv
<1>8. GuardInv'
  BY <1>1, <1>2, <1>3, <1>6 DEF GuardInv
<1>9. MoveInv'
  BY <1>2, <1>3, <1>6 DEF MoveInv
<1> QED
  BY <1>5, <1>7, <1>8, <1>9

LEMMA UnsetInv ==
  ASSUME Inv, NEW p \in Caller, Unset(p)
  PROVE  Inv'
<1> USE DEF Inv
<1>1. /\ rows' = [r \in Row |-> [rows[r] EXCEPT !.old = NoValue]]
      /\ pc' = [pc EXCEPT ![p] = "remove"] /\ pc[p] = "unset"
      /\ UNCHANGED <<defined, result, calls, writes, fails, latest, past>>
  BY DEF Unset, Goto
<1>2. \A r \in Row : rows'[r] \in Content /\ rows'[r].new = rows[r].new
  BY <1>1 DEF TypeOK, Content
<1>3. TypeOK'
  BY <1>1, <1>2 DEF TypeOK
<1>4. \A q \in Caller : pc'[q] = IF q = p THEN "remove" ELSE pc[q]
  BY <1>1 DEF TypeOK
<1>5. past.copies \in Nat
  BY DEF TypeOK, Past
<1>6. CopyInv'
  BY <1>1, <1>2, <1>4, <1>5 DEF CopyInv
<1>7. GuardInv'
  BY <1>1, <1>4 DEF GuardInv
<1>8. MoveInv'
  BY <1>1, <1>4 DEF MoveInv
<1> QED
  BY <1>3, <1>6, <1>7, <1>8

LEMMA RemoveInv ==
  ASSUME Inv, NEW p \in Caller, Remove(p)
  PROVE  Inv'
<1> USE DEF Inv
<1>1. /\ defined' = defined \ {"old"}
      /\ pc' = [pc EXCEPT ![p] = "idle"] /\ result' = [result EXCEPT ![p] = "ok"]
      /\ UNCHANGED <<rows, calls, writes, fails, latest, past>>
  BY DEF Remove, Goto, Ends
<1>2. TypeOK'
  BY <1>1 DEF TypeOK
<1>3. \A q \in Caller : pc'[q] = IF q = p THEN "idle" ELSE pc[q]
  BY <1>1 DEF TypeOK
<1>4. pc[p] = "remove"
  BY DEF Remove
<1>5. MoveInv'
  BY <1>1, <1>3, <1>4 DEF MoveInv, TypeOK
<1> QED
  BY <1>1, <1>2, <1>3, <1>5 DEF CopyInv, GuardInv

LEMMA InfoFailsInv ==
  ASSUME Inv, NEW p \in Caller, InfoFails(p)
  PROVE  Inv'
<1> USE DEF Inv
<1>1. /\ past' = [past EXCEPT !.blind = TRUE] /\ fails < MaxFail /\ fails' = fails + 1
      /\ pc' = [pc EXCEPT ![p] = "copy"]
      /\ UNCHANGED <<rows, defined, result, calls, writes, latest>>
  BY DEF InfoFails, Goto, table
<1>2. past' \in Past /\ past'.blind /\ past'.copies = past.copies /\ past'.raced = past.raced
  BY <1>1 DEF TypeOK, Past
<1>3. TypeOK'
  BY <1>1, <1>2, RenameAssumption DEF TypeOK
<1>4. \A q \in Caller : pc'[q] = IF q = p THEN "copy" ELSE pc[q]
  BY <1>1 DEF TypeOK
<1> QED
  BY <1>1, <1>2, <1>3, <1>4 DEF CopyInv, GuardInv, MoveInv

LEMMA WriteInv ==
  ASSUME Inv, NEW r \in Row, NEW v \in Value, WriteOld(r, v) \/ WriteNew(r, v)
  PROVE  Inv'
<1> USE DEF Inv
<1>1. /\ writes < MaxWrite /\ writes' = writes + 1
      /\ latest' = [latest EXCEPT ![r] = v]
      /\ UNCHANGED <<defined, pc, result, calls, fails>>
  BY DEF WriteOld, WriteNew
<1>2. past \in Past /\ past.copies \in Nat
  BY DEF TypeOK, Past
<1>3. /\ past' \in Past /\ past'.copies = past.copies
      /\ past'.had = past.had /\ past'.blind = past.blind
  BY <1>2 DEF WriteOld, WriteNew, Past
<1>4. rows' \in [Row -> Content]
  BY DEF WriteOld, WriteNew, TypeOK, Content
<1>5. TypeOK'
  <2>1. writes' \in 0..MaxWrite
    BY <1>1, RenameAssumption DEF TypeOK
  <2>2. latest' \in [Row -> Value \cup {NoValue}]
    BY <1>1 DEF TypeOK
  <2> QED
    BY <1>1, <1>3, <1>4, <2>1, <2>2 DEF TypeOK
<1>6. CopyInv'
  <2>1. CASE WriteOld(r, v)
    <3>1. rows' = [rows EXCEPT ![r].old = v] /\ past'.raced = (past.raced \/ past.copies > 0)
      BY <1>2, <2>1 DEF WriteOld, Past
    <3>2. ~past'.raced => ~past.raced /\ ~(past.copies > 0)
      BY <3>1, Zenon
    <3>3. ~past'.raced => ~past.raced /\ past.copies = 0
      BY <1>2, <3>2
    <3>4. \A s \in Row : \/ rows'[s].old = latest'[s]
                         \/ (rows'[s].old = rows[s].old /\ latest'[s] = latest[s])
      BY <1>1, <3>1 DEF TypeOK, Content
    <3> QED
      BY <1>1, <1>2, <1>3, <3>3, <3>4 DEF CopyInv
  <2>2. CASE WriteNew(r, v)
    <3>1. rows' = [rows EXCEPT ![r].new = v] /\ (~past'.raced => ~past.raced /\ past.copies # 0)
      BY <1>2, <2>2 DEF WriteNew, Past
    <3>2. \A s \in Row : \/ rows'[s].new = latest'[s]
                         \/ (rows'[s].new = rows[s].new /\ latest'[s] = latest[s])
      BY <1>1, <3>1 DEF TypeOK, Content
    <3> QED
      BY <1>1, <1>2, <1>3, <3>1, <3>2 DEF CopyInv
  <2> QED
    BY <2>1, <2>2
<1>7. GuardInv' /\ MoveInv'
  BY <1>1, <1>3 DEF GuardInv, MoveInv
<1> QED
  BY <1>5, <1>6, <1>7

-----------------------------------------------------------------------------
LEMMA NextInv == Inv /\ [Next]_vars => Inv'
<1> SUFFICES ASSUME Inv, [Next]_vars PROVE Inv'
  OBVIOUS
<1>1. ASSUME NEW p \in Caller, Call(p) \/ TableInfo(p) \/ CallFails(p) \/ Stops(p) PROVE Inv'
  BY <1>1, CallInv
<1>2. ASSUME NEW p \in Caller, Define(p) PROVE Inv'
  BY <1>2, DefineInv
<1>3. ASSUME NEW p \in Caller, Copy(p) PROVE Inv'
  BY <1>3, CopyKeepsInv
<1>4. ASSUME NEW p \in Caller, Unset(p) PROVE Inv'
  BY <1>4, UnsetInv
<1>5. ASSUME NEW p \in Caller, Remove(p) PROVE Inv'
  BY <1>5, RemoveInv
<1>6. ASSUME NEW p \in Caller, InfoFails(p) PROVE Inv'
  BY <1>6, InfoFailsInv
<1>7. ASSUME NEW r \in Row, NEW v \in Value, WriteOld(r, v) \/ WriteNew(r, v) PROVE Inv'
  BY <1>7, WriteInv
<1>8. CASE UNCHANGED vars
  BY <1>8 DEF vars, table, Inv, TypeOK, CopyInv, GuardInv, MoveInv
<1> QED
  BY <1>1, <1>2, <1>3, <1>4, <1>5, <1>6, <1>7, <1>8 DEF Next

LEMMA Invariance == Spec => []Inv
<1>1. Init => Inv
  BY InitInv
<1>2. Inv /\ [Next]_vars => Inv'
  BY NextInv
<1> QED
  BY <1>1, <1>2, PTL DEF Spec

\* The state of the renaming keeps its types, for any callers, records and values.
THEOREM TypeCorrect == Spec => []TypeOK
<1>1. Inv => TypeOK
  BY DEF Inv
<1> QED
  BY <1>1, Invariance, PTL

\* Wherever RenameField fails or stops (alter.go:287-317), a field that was copied
\* once has all of its latest values under one of its names, if clients changed
\* names at the copy.
THEOREM ValuesKept == Spec => []OneCopyKeepsValues
<1>1. Inv => OneCopyKeepsValues
  BY DEF Inv, TypeOK, Past, CopyInv, OneCopyKeepsValues, ValuesSurvive
<1> QED
  BY <1>1, Invariance, PTL

\* Of any number of calls, concurrent or repeated after a failure, one gets past
\* recreating the definition (alter.go:300) before the old one is removed.
THEOREM CopyGuarded == Spec => []DefinitionGuardsCopy
<1>1. Inv => DefinitionGuardsCopy
  BY DEF Inv, GuardInv, DefinitionGuardsCopy
<1> QED
  BY <1>1, Invariance, PTL

\* RenameField never removes the old definition, or reports success, without having
\* made the new one (alter.go:290-308), if every INFO FOR TABLE was answered.
THEOREM DefinitionMoved == Spec => []DefinitionMoves
<1>1. Inv => DefinitionMoves
  BY DEF Inv, MoveInv, DefinitionMoves
<1> QED
  BY <1>1, Invariance, PTL
=============================================================================
