-------------------------- MODULE EdgeAssoc_proofs --------------------------
(***************************************************************************)
(* Theorems about EdgeAssoc for every value of its constants: its type     *)
(* invariant, that a save which returned nil is linked, that links of      *)
(* fresh slices are single, and what a Replace leaves when nobody else     *)
(* changes edges.                                                          *)
(***************************************************************************)
EXTENDS EdgeAssoc, TLAPS

-----------------------------------------------------------------------------
(***************************************************************************)
(* The inductive invariants.                                               *)
(***************************************************************************)
\* t needs no further insert by c's call: it is linked, or others removed it.
Covered(c, t) == edges[Stored(c, t)] > 0 \/ t \in lost[c]

\* The loop of UpdateCallback has covered what it has passed.
LoopInv(c) ==
  call[c] # None =>
    /\ told[c] = "running"
    /\ call[c].kind # "delete" =>
         \A i \in 1..Len(model[c].list) : i < call[c].at => Covered(c, model[c].list[i])
    /\ call[c].kind = "replace" => call[c].values = model[c].list
    /\ call[c].kind = "delete" => call[c].at = Len(model[c].list) + 1

CoverInv(c) == told[c] = "saved" => \A t \in Elems(model[c].list) : Covered(c, t)

QuietInv(c) == quiet[c] => lost[c] = {}

ExactInv(c) ==
  told[c] = "replaced" /\ quiet[c] /\ model[c].side = "in" /\ Len(model[c].list) <= 1
    => Linked(c) = Elems(model[c].list)

ClientInv(c) == LoopInv(c) /\ CoverInv(c) /\ QuietInv(c) /\ ExactInv(c)

\* What is still to be inserted is in no one else's call, comes once, and is not
\* there yet.
SingleInv ==
  fresh =>
    /\ \A p \in Pair : edges[p] <= 1
    /\ \A c \in Client : call[c] # None =>
         /\ \A i, j \in call[c].at..Len(model[c].list) :
              i # j => model[c].list[i] # model[c].list[j]
         /\ \A p \in Pending(c) : edges[p] = 0
         /\ \A d \in Client \ {c} : Pending(c) \cap Pending(d) = {}

Inv == TypeOK /\ (\A c \in Client : ClientInv(c)) /\ SingleInv

-----------------------------------------------------------------------------
LEMMA SliceType ==
  ASSUME NEW s
  PROVE  s \in Slices <=> s \in Seq(Record) /\ Len(s) <= MaxLen
<1>1. ASSUME s \in Slices PROVE s \in Seq(Record) /\ Len(s) <= MaxLen
  <2>1. PICK n \in 0..MaxLen : s \in [1..n -> Record]
    BY <1>1 DEF Slices
  <2> QED
    BY <2>1, EdgeAssocAssumption
<1>2. ASSUME s \in Seq(Record), Len(s) <= MaxLen PROVE s \in Slices
  <2>1. Len(s) \in 0..MaxLen /\ s \in [1..Len(s) -> Record]
    BY <1>2, EdgeAssocAssumption
  <2> QED
    BY <2>1 DEF Slices
<1> QED
  BY <1>1, <1>2

LEMMA EmptySlice == <<>> \in Slices
<1>1. <<>> \in Seq(Record) /\ Len(<<>>) = 0
  OBVIOUS
<1>2. 0 <= MaxLen
  BY EdgeAssocAssumption
<1> QED
  BY <1>1, <1>2, SliceType

LEMMA JobType ==
  ASSUME NEW j \in Job \cup {None}, j # None
  PROVE  /\ j.kind \in Kind /\ j.at \in 1..MaxLen + 1 /\ j.values \in Slices
         /\ j = [kind |-> j.kind, at |-> j.at, values |-> j.values]
  BY DEF Job

LEMMA StoredPair ==
  ASSUME TypeOK, NEW c \in Client, NEW t \in Record
  PROVE  Stored(c, t) \in Pair /\ Seen(c, t) \in Pair
  BY DEF TypeOK, Stored, Seen, Pair

LEMMA ListElems ==
  ASSUME TypeOK, NEW c \in Client
  PROVE  /\ model[c].list \in Seq(Record)
         /\ Len(model[c].list) \in 0..MaxLen
         /\ Elems(model[c].list) \subseteq Record
         /\ \A i \in 1..Len(model[c].list) : model[c].list[i] \in Record
<1>1. model[c].list \in Slices
  BY DEF TypeOK
<1>2. model[c].list \in Seq(Record) /\ Len(model[c].list) <= MaxLen
  BY <1>1, SliceType
<1> QED
  BY <1>2, EdgeAssocAssumption DEF Elems

LEMMA PendingPair ==
  ASSUME TypeOK, NEW c \in Client
  PROVE  Pending(c) \subseteq Pair
<1>1. CASE call[c] = None
  BY <1>1 DEF Pending
<1>2. CASE call[c] # None
  <2>1. call[c].at \in 1..MaxLen + 1
    BY <1>2, JobType DEF TypeOK
  <2>2. ASSUME NEW i \in call[c].at..Len(model[c].list)
        PROVE  Stored(c, model[c].list[i]) \in Pair
    BY <2>1, ListElems, StoredPair, EdgeAssocAssumption
  <2> QED
    BY <1>2, <2>2 DEF Pending
<1> QED
  BY <1>1, <1>2

-----------------------------------------------------------------------------
(***************************************************************************)
(* A client that a step leaves alone.                                      *)
(***************************************************************************)
LEMMA LeftAlone ==
  ASSUME NEW d \in Client, ClientInv(d), TypeOK,
         model'[d] = model[d], call'[d] = call[d], told'[d] = told[d],
         \A t \in Record : Covered(d, t) => Covered(d, t)',
         quiet'[d] => quiet[d] /\ edges' = edges /\ lost'[d] = lost[d]
  PROVE  ClientInv(d)'
<1>1. \A i \in 1..Len(model[d].list) : model[d].list[i] \in Record
  BY ListElems
<1>2. LoopInv(d)'
  BY <1>1 DEF ClientInv, LoopInv
<1>3. CoverInv(d)'
  BY <1>1 DEF ClientInv, CoverInv, Elems
<1>4. QuietInv(d)'
  BY DEF ClientInv, QuietInv
<1>5. ExactInv(d)'
  BY DEF ClientInv, ExactInv, Linked, Seen
<1> QED
  BY <1>2, <1>3, <1>4, <1>5 DEF ClientInv

-----------------------------------------------------------------------------
(***************************************************************************)
(* Calls begin.                                                            *)
(***************************************************************************)
LEMMA BeginType ==
  ASSUME TypeOK, NEW c \in Client, NEW kind \in Kind, NEW at \in 1..MaxLen + 1,
         NEW list, NEW values \in Slices, Begin(c, kind, at, list, values)
  PROVE  TypeOK'
<1>1. model' \in [Client -> [rec : Record, side : {"in", "out"}, list : Slices]]
  BY DEF TypeOK, Begin
<1>2. call' \in [Client -> Job \cup {None}]
  <2>1. [kind |-> kind, at |-> at, values |-> values] \in Job
    BY DEF Job
  <2> QED
    BY <2>1 DEF TypeOK, Begin
<1>3. calls' \in 0..MaxCalls
  BY EdgeAssocAssumption DEF TypeOK, Begin
<1>4. fresh' \in BOOLEAN /\ told' \in [Client -> {"none", "running", "saved", "replaced", "deleted", "loaded", "error"}]
  BY DEF TypeOK, Begin
<1>5. lost' \in [Client -> SUBSET Record] /\ quiet' \in [Client -> BOOLEAN]
  BY DEF TypeOK, Begin
<1> QED
  BY <1>1, <1>2, <1>3, <1>4, <1>5 DEF TypeOK, Begin

LEMMA BeginClient ==
  ASSUME TypeOK, \A d \in Client : ClientInv(d), NEW c \in Client,
         NEW kind \in Kind, NEW at \in 1..MaxLen + 1,
         NEW list, NEW values \in Slices, Begin(c, kind, at, list, values),
         kind # "delete" => at = 1,
         kind = "replace" => values = list,
         kind = "delete" => at = Len(list) + 1
  PROVE  \A d \in Client : ClientInv(d)'
<1>1. ASSUME NEW d \in Client, d # c PROVE ClientInv(d)'
  <2>1. model'[d] = model[d] /\ call'[d] = call[d] /\ told'[d] = told[d]
        /\ lost'[d] = lost[d] /\ quiet'[d] = quiet[d] /\ edges' = edges
    BY <1>1 DEF TypeOK, Begin
  <2>2. \A t \in Record : Covered(d, t) => Covered(d, t)'
    BY <2>1 DEF Covered, Stored
  <2> QED
    BY <2>1, <2>2, LeftAlone
<1>2. ClientInv(c)'
  <2>1. /\ call'[c] = [kind |-> kind, at |-> at, values |-> values]
        /\ model'[c].list = list /\ told'[c] = "running" /\ lost'[c] = {}
    BY DEF TypeOK, Begin
  <2>2. list \in Slices
    BY DEF Begin
  <2>3. LoopInv(c)'
    BY <2>1, <2>2, SliceType, EdgeAssocAssumption DEF LoopInv, Kind
  <2>4. CoverInv(c)' /\ QuietInv(c)' /\ ExactInv(c)'
    BY <2>1 DEF CoverInv, QuietInv, ExactInv
  <2> QED
    BY <2>3, <2>4 DEF ClientInv
<1> QED
  BY <1>1, <1>2

LEMMA BeginSingle ==
  ASSUME TypeOK, SingleInv, NEW c \in Client,
         NEW kind \in Kind, NEW at \in 1..MaxLen + 1,
         NEW list, NEW values \in Slices, Begin(c, kind, at, list, values),
         kind # "delete" => at = 1,
         kind = "delete" => at = Len(list) + 1
  PROVE  SingleInv'
<1> SUFFICES ASSUME fresh' PROVE SingleInv'
  BY DEF SingleInv
<1>1. fresh /\ (kind # "delete" => Fresh(c, list)) /\ list \in Slices /\ edges' = edges
  BY DEF Begin, TypeOK
<1>2. list \in Seq(Record) /\ Len(list) \in Nat /\ \A i \in 1..Len(list) : list[i] \in Record
  BY <1>1, SliceType
<1>3. \A d \in Client \ {c} : model'[d] = model[d] /\ call'[d] = call[d]
  BY DEF TypeOK, Begin
<1>4. \A d \in Client \ {c} : Pending(d)' = Pending(d)
  BY <1>3 DEF Pending, Stored
<1>5. /\ call'[c] = [kind |-> kind, at |-> at, values |-> values] /\ call'[c] # None
      /\ model'[c].list = list /\ model'[c].rec = model[c].rec
  <2>1. [kind |-> kind, at |-> at, values |-> values] \in Job
    BY DEF Job
  <2> QED
    BY <2>1, EdgeAssocAssumption DEF TypeOK, Begin
<1>6. \A t : Stored(c, t)' = Stored(c, t)
  BY <1>5 DEF Stored
<1>7. Pending(c)' = {Stored(c, list[i]) : i \in at..Len(list)}
  BY <1>5, <1>6 DEF Pending
<1>8. \A p \in Pending(c)' : edges[p] = 0 /\ \A d \in Client \ {c} : p \notin Pending(d)
  <2>1. CASE kind = "delete"
    <3>1. at..Len(list) = {}
      BY <1>2, <2>1
    <3> QED
      BY <1>7, <3>1
  <2>2. CASE kind # "delete"
    <3>1. at = 1 /\ Fresh(c, list)
      BY <1>1, <2>2
    <3> QED
      BY <1>7, <3>1 DEF Fresh, Elems
  <2> QED
    BY <2>1, <2>2
<1>9. \A i, j \in at..Len(list) : i # j => list[i] # list[j]
  <2>1. CASE kind = "delete"
    BY <1>2, <2>1
  <2>2. CASE kind # "delete"
    BY <1>1, <2>2 DEF Fresh, NoRepeat
  <2> QED
    BY <2>1, <2>2
<1>10. ASSUME NEW d \in Client, call'[d] # None
       PROVE  /\ \A i, j \in call'[d].at..Len(model'[d].list) :
                   i # j => model'[d].list[i] # model'[d].list[j]
              /\ \A p \in Pending(d)' : edges'[p] = 0
              /\ \A e \in Client \ {d} : Pending(d)' \cap Pending(e)' = {}
  <2>1. CASE d = c
    BY <1>1, <1>4, <1>5, <1>8, <1>9, <2>1
  <2>2. CASE d # c
    <3>1. \A e \in Client \ {d} : Pending(d)' \cap Pending(e)' = {}
      <4>1. ASSUME NEW e \in Client \ {d}, e # c PROVE Pending(d)' \cap Pending(e)' = {}
        BY <1>1, <1>3, <1>4, <1>10, <2>2, <4>1 DEF SingleInv
      <4>2. Pending(d)' \cap Pending(c)' = {}
        BY <1>4, <1>8, <2>2
      <4> QED
        BY <4>1, <4>2
    <3>2. call[d] # None
      BY <1>3, <1>10, <2>2
    <3> QED
      BY <1>1, <1>3, <1>4, <2>2, <3>1, <3>2 DEF SingleInv
  <2> QED
    BY <2>1, <2>2
<1> QED
  BY <1>1, <1>10 DEF SingleInv

LEMMA BeginInv ==
  ASSUME Inv, NEW c \in Client,
         \/ Save(c)
         \/ \E t \in Record : Add(c, t)
         \/ \E T \in Slices : Replace(c, T) \/ Delete(c, T)
  PROVE  Inv'
<1> USE DEF Inv
<1>1. <<>> \in Slices /\ 1 \in 1..MaxLen + 1
  BY EmptySlice, EdgeAssocAssumption
<1>2. CASE Save(c)
  BY <1>1, <1>2, BeginType, BeginClient, BeginSingle DEF Save, Kind
<1>3. CASE \E t \in Record : Add(c, t)
  <2>1. PICK t \in Record : Begin(c, "save", 1, Append(model[c].list, t), <<t>>)
    BY <1>3 DEF Add
  <2>2. <<t>> \in Slices
    <3>1. Append(model[c].list, t) \in Slices
      BY <2>1 DEF Begin
    <3>2. Len(Append(model[c].list, t)) <= MaxLen
      BY <3>1, SliceType
    <3>3. 1 <= MaxLen
      BY <3>2, ListElems, EdgeAssocAssumption
    <3>4. <<t>> \in Seq(Record) /\ Len(<<t>>) = 1
      OBVIOUS
    <3> QED
      BY <3>3, <3>4, SliceType
  <2> QED
    BY <1>1, <2>1, <2>2, BeginType, BeginClient, BeginSingle DEF Kind
<1>4. CASE \E T \in Slices : Replace(c, T)
  BY <1>1, <1>4, BeginType, BeginClient, BeginSingle DEF Replace, Kind
<1>5. CASE \E T \in Slices : Delete(c, T)
  <2>1. PICK T \in Slices : Begin(c, "delete", Len(model[c].list) + 1, model[c].list, T)
    BY <1>5 DEF Delete
  <2>2. Len(model[c].list) + 1 \in 1..MaxLen + 1
    BY ListElems, EdgeAssocAssumption
  <2> QED
    BY <2>1, <2>2, BeginType, BeginClient, BeginSingle DEF Kind
<1> QED
  BY <1>2, <1>3, <1>4, <1>5

LEMMA PreloadInv ==
  ASSUME Inv, NEW c \in Client, Preload(c)
  PROVE  Inv'
<1> USE DEF Inv
<1>1. PICK s \in Slices : model' = [model EXCEPT ![c].list = s]
  BY DEF Preload
<1>2. /\ call[c] = None /\ calls < MaxCalls /\ calls' = calls + 1
      /\ told' = [told EXCEPT ![c] = "loaded"]
      /\ accepts' = accepts /\ edges' = edges /\ call' = call /\ lost' = lost
      /\ quiet' = quiet /\ fresh' = fresh
  BY DEF Preload, Idle
<1>3. TypeOK'
  <2>1. calls' \in 0..MaxCalls
    BY <1>2, EdgeAssocAssumption DEF TypeOK
  <2>2. model' \in [Client -> [rec : Record, side : {"in", "out"}, list : Slices]]
    BY <1>1 DEF TypeOK
  <2> QED
    BY <1>2, <2>1, <2>2 DEF TypeOK
<1>4. ASSUME NEW d \in Client PROVE ClientInv(d)'
  <2>1. CASE d = c
    <3>1. call'[d] = None /\ told'[d] = "loaded" /\ quiet'[d] = quiet[d] /\ lost'[d] = lost[d]
      BY <1>2, <2>1 DEF TypeOK
    <3> QED
      BY <3>1 DEF ClientInv, LoopInv, CoverInv, QuietInv, ExactInv
  <2>2. CASE d # c
    <3>1. model'[d] = model[d] /\ call'[d] = call[d] /\ told'[d] = told[d]
      BY <1>1, <1>2, <2>2 DEF TypeOK
    <3>2. \A t \in Record : Covered(d, t) => Covered(d, t)'
      BY <1>2, <3>1 DEF Covered, Stored
    <3> QED
      BY <1>2, <3>1, <3>2, LeftAlone
  <2> QED
    BY <2>1, <2>2
<1>5. SingleInv'
  <2>1. \A d \in Client : call[d] # None => model'[d] = model[d]
    BY <1>1, <1>2 DEF TypeOK
  <2>2. \A d \in Client : Pending(d)' = Pending(d)
    BY <1>2, <2>1 DEF Pending, Stored
  <2> QED
    BY <1>2, <2>1, <2>2 DEF SingleInv
<1> QED
  BY <1>3, <1>4, <1>5

-----------------------------------------------------------------------------
(***************************************************************************)
(* The loop of UpdateCallback.                                             *)
(***************************************************************************)
LEMMA InsertsInv ==
  ASSUME Inv, NEW c \in Client, Inserts(c)
  PROVE  Inv'
<1> USE DEF Inv
<1> DEFINE p == Stored(c, NextElem(c))
           at == call[c].at
<1>1. /\ call[c] # None /\ at \in 1..Len(model[c].list) /\ call[c] \in Job
      /\ Len(model[c].list) \in 0..MaxLen
  <2>1. call[c] # None /\ call[c] \in Job
    BY DEF Inserts, Inserting, Idle, TypeOK
  <2>2. call[c].at \in 1..MaxLen + 1
    BY <2>1, JobType
  <2> QED
    BY <2>1, <2>2, ListElems DEF Inserts, Inserting
<1>2. NextElem(c) \in Record /\ p \in Pair
  BY <1>1, ListElems, StoredPair DEF NextElem
<1>3. /\ edges[p] < MaxCopies
      /\ edges' = [edges EXCEPT ![p] = @ + 1]
      /\ call' = [call EXCEPT ![c].at = @ + 1]
      /\ quiet' = [d \in Client |-> d = c /\ quiet[d]]
      /\ accepts' = accepts /\ model' = model /\ told' = told /\ lost' = lost
      /\ fresh' = fresh /\ calls' = calls
  BY DEF Inserts, Noticed
<1>4. /\ edges' \in [Pair -> 0..MaxCopies]
      /\ edges'[p] = edges[p] + 1 /\ edges[p] \in Nat
      /\ \A q \in Pair : q # p => edges'[q] = edges[q]
      /\ \A q \in Pair : edges[q] > 0 => edges'[q] > 0
  BY <1>2, <1>3, EdgeAssocAssumption DEF TypeOK
<1>5. /\ call'[c] \in Job /\ call'[c].at = at + 1
      /\ call'[c].kind = call[c].kind /\ call'[c].values = call[c].values
      /\ \A d \in Client : d # c => call'[d] = call[d]
  <2>1. at + 1 \in 1..MaxLen + 1
    BY <1>1, EdgeAssocAssumption
  <2>2. call'[c] = [kind |-> call[c].kind, at |-> at + 1, values |-> call[c].values]
    BY <1>1, <1>3, JobType DEF TypeOK
  <2> QED
    BY <1>1, <1>3, <2>1, <2>2, JobType DEF TypeOK, Job
<1>6. TypeOK'
  <2>1. call' \in [Client -> Job \cup {None}]
    BY <1>3, <1>5 DEF TypeOK
  <2>2. quiet' \in [Client -> BOOLEAN]
    BY <1>3 DEF TypeOK
  <2> QED
    BY <1>3, <1>4, <2>1, <2>2 DEF TypeOK
<1>7. \A d \in Client, t \in Record : Covered(d, t) => Covered(d, t)'
  BY <1>3, <1>4, StoredPair DEF Covered, Stored
<1>8. ASSUME NEW d \in Client PROVE ClientInv(d)'
  <2>1. CASE d = c
    <3>1. LoopInv(c) /\ QuietInv(c)
      BY DEF ClientInv
    <3>2. edges'[Stored(c, NextElem(c))] > 0
      BY <1>2, <1>4
    <3>3. ASSUME NEW i \in 1..Len(model[c].list), i < at + 1,
                 call[c].kind # "delete"
          PROVE  \/ edges'[Stored(c, model[c].list[i])] > 0
                 \/ model[c].list[i] \in lost[c]
      <4>1. CASE i < at
        <5>1. Covered(c, model[c].list[i])
          BY <1>1, <3>1, <3>3, <4>1 DEF LoopInv
        <5>2. Stored(c, model[c].list[i]) \in Pair
          BY ListElems, StoredPair
        <5> QED
          BY <1>4, <5>1, <5>2 DEF Covered
      <4>2. CASE i = at
        BY <3>2, <4>2 DEF NextElem
      <4> QED
        BY <1>1, <3>3, <4>1, <4>2
    <3>4. told'[c] = "running" /\ call[c].kind # "delete"
          /\ (call[c].kind = "replace" => call[c].values = model[c].list)
      BY <1>1, <1>3, <3>1 DEF LoopInv
    <3>5. LoopInv(c)'
      BY <1>3, <1>5, <3>3, <3>4 DEF LoopInv, Covered, Stored
    <3>6. QuietInv(c)'
      BY <1>3, <3>1 DEF QuietInv
    <3> QED
      BY <2>1, <3>4, <3>5, <3>6 DEF ClientInv, CoverInv, ExactInv
  <2>2. CASE d # c
    <3>1. ~quiet'[d]
      BY <1>3, <2>2
    <3> QED
      BY <1>3, <1>5, <1>7, <2>2, <3>1, LeftAlone
  <2> QED
    BY <2>1, <2>2
<1>9. SingleInv'
  <2> SUFFICES ASSUME fresh' PROVE SingleInv'
    BY DEF SingleInv
  <2>1. fresh
    BY <1>3
  <2>2. p \in Pending(c) /\ edges[p] = 0
    <3>1. p \in Pending(c)
      BY <1>1 DEF Pending, NextElem
    <3> QED
      BY <1>1, <2>1, <3>1 DEF SingleInv
  <2>3. \A q \in Pair : edges'[q] <= 1
    BY <1>4, <2>1, <2>2 DEF SingleInv
  <2>4. Pending(c)' \subseteq Pending(c) /\ p \notin Pending(c)'
    <3>0. call'[c] # None
      BY <1>5, EdgeAssocAssumption
    <3>1. ASSUME NEW q \in Pending(c)' PROVE q \in Pending(c) /\ q # p
      <4>1. PICK i \in at + 1..Len(model[c].list) : q = <<model[c].rec, model[c].list[i]>>
        BY <1>3, <1>5, <3>0 DEF Pending, Stored
      <4>2. i \in at..Len(model[c].list) /\ i # at
        BY <1>1
      <4>3. model[c].list[i] # model[c].list[at]
        BY <1>1, <2>1, <4>2 DEF SingleInv
      <4> QED
        BY <1>1, <4>1, <4>2, <4>3 DEF Pending, Stored, NextElem
    <3> QED
      BY <3>1
  <2>5. \A d \in Client : d # c => Pending(d)' = Pending(d)
    BY <1>3, <1>5 DEF Pending, Stored
  <2>6. \A d \in Client : call'[d] # None => call[d] # None
    BY <1>1, <1>5
  <2>7. \A d \in Client : Pending(d)' \subseteq Pending(d)
    BY <2>4, <2>5
  <2>8. ASSUME NEW d \in Client, call'[d] # None
        PROVE  /\ \A i, j \in call'[d].at..Len(model'[d].list) :
                    i # j => model'[d].list[i] # model'[d].list[j]
               /\ \A q \in Pending(d)' : edges'[q] = 0
               /\ \A e \in Client \ {d} : Pending(d)' \cap Pending(e)' = {}
    <3>1. call[d] # None
      BY <2>6, <2>8
    <3>2. \A e \in Client \ {d} : Pending(d)' \cap Pending(e)' = {}
      BY <2>1, <2>7, <3>1 DEF SingleInv
    <3>3. \A q \in Pending(d)' : q # p
      BY <1>1, <2>1, <2>2, <2>4, <2>5 DEF SingleInv
    <3>4. \A q \in Pending(d)' : edges'[q] = 0
      BY <1>4, <2>1, <2>7, <3>1, <3>3, PendingPair DEF SingleInv
    <3>5. \A i, j \in call'[d].at..Len(model'[d].list) :
            i # j => model'[d].list[i] # model'[d].list[j]
      <4>1. CASE d = c
        <5>1. \A i \in at + 1..Len(model[c].list) : i \in at..Len(model[c].list)
          BY <1>1
        <5> QED
          BY <1>1, <1>3, <1>5, <2>1, <4>1, <5>1 DEF SingleInv
      <4>2. CASE d # c
        BY <1>3, <1>5, <2>1, <3>1, <4>2 DEF SingleInv
      <4> QED
        BY <4>1, <4>2
    <3> QED
      BY <3>2, <3>4, <3>5
  <2> QED
    BY <2>3, <2>8 DEF SingleInv
<1> QED
  BY <1>6, <1>8, <1>9

\* A call ends and nothing else changes: refused, saved, or failed.
LEMMA EndsInv ==
  ASSUME Inv, NEW c \in Client, call[c] # None,
         NEW result \in {"saved", "error"}, Ends(c, result),
         result = "saved" => AllSent(c, "save"),
         UNCHANGED <<accepts, edges, model, lost, quiet, fresh, calls>>
  PROVE  Inv'
<1> USE DEF Inv
<1>1. /\ call'[c] = None /\ told'[c] = result
      /\ \A d \in Client : d # c => call'[d] = call[d] /\ told'[d] = told[d]
  BY DEF Ends, TypeOK
<1>2. TypeOK'
  BY DEF Ends, TypeOK
<1>3. \A d \in Client, t \in Record : Covered(d, t) => Covered(d, t)'
  BY DEF Covered, Stored
<1>4. ASSUME NEW d \in Client PROVE ClientInv(d)'
  <2>1. CASE d = c
    <3>1. LoopInv(c) /\ QuietInv(c)
      BY DEF ClientInv
    <3>2. ASSUME result = "saved", NEW i \in 1..Len(model[c].list)
          PROVE  Covered(c, model[c].list[i])
      <4>1. call[c].kind = "save" /\ ~(call[c].at <= Len(model[c].list))
        BY <3>2 DEF AllSent, Inserting, Idle
      <4>2. call[c].at \in 1..MaxLen + 1 /\ Len(model[c].list) \in 0..MaxLen
        BY JobType, ListElems DEF TypeOK
      <4>3. i < call[c].at
        BY <3>2, <4>1, <4>2, EdgeAssocAssumption
      <4> QED
        BY <3>1, <4>1, <4>3 DEF LoopInv
    <3>3. CoverInv(c)'
      BY <1>1, <1>3, <3>2 DEF CoverInv, Elems, Covered, Stored
    <3> QED
      BY <1>1, <2>1, <3>1, <3>3 DEF ClientInv, LoopInv, QuietInv, ExactInv
  <2>2. CASE d # c
    BY <1>1, <1>3, <2>2, LeftAlone
  <2> QED
    BY <2>1, <2>2
<1>5. SingleInv'
  <2>1. \A d \in Client : call'[d] # None => call'[d] = call[d] /\ call[d] # None
    BY <1>1
  <2>2. \A d \in Client : Pending(d)' \subseteq Pending(d)
    BY <2>1 DEF Pending, Stored
  <2> QED
    BY <2>1, <2>2 DEF SingleInv
<1> QED
  BY <1>2, <1>4, <1>5

-----------------------------------------------------------------------------
(***************************************************************************)
(* The DELETE of Replace and of Delete.                                    *)
(***************************************************************************)
\* Removing edges keeps the types, and the others know what they lost.
LEMMA UnlinkEffect ==
  ASSUME TypeOK, NEW c \in Client, NEW D \in SUBSET Record, Unlink(c, D)
  PROVE  /\ edges' \in [Pair -> 0..MaxCopies]
         /\ \A q \in Pair : edges'[q] = (IF q \in {Seen(c, t) : t \in D} THEN 0 ELSE edges[q])
         /\ lost' \in [Client -> SUBSET Record] /\ lost'[c] = lost[c]
         /\ \A d \in Client : d # c =>
              lost'[d] = lost[d] \cup {t \in Record : Stored(d, t) \in {Seen(c, u) : u \in D}}
         /\ quiet' \in [Client -> BOOLEAN]
         /\ \A d \in Client : d # c => ~quiet'[d]
         /\ quiet'[c] = quiet[c]
<1>1. quiet' \in [Client -> BOOLEAN] /\ quiet'[c] = quiet[c]
      /\ \A d \in Client : d # c => ~quiet'[d]
  BY DEF Unlink, Noticed, TypeOK
<1>2. edges' \in [Pair -> 0..MaxCopies]
  BY EdgeAssocAssumption DEF Unlink, TypeOK
<1>3. \A q \in Pair : edges'[q] = (IF q \in {Seen(c, t) : t \in D} THEN 0 ELSE edges[q])
  BY DEF Unlink
<1>4. lost' \in [Client -> SUBSET Record] /\ lost'[c] = lost[c]
  BY DEF Unlink, TypeOK
<1>5. \A d \in Client : d # c =>
        lost'[d] = lost[d] \cup {t \in Record : Stored(d, t) \in {Seen(c, u) : u \in D}}
  BY DEF Unlink
<1> QED
  BY <1>1, <1>2, <1>3, <1>4, <1>5

LEMMA UnlinkOthers ==
  ASSUME Inv, NEW c \in Client, NEW D \in SUBSET Record, Unlink(c, D),
         NEW d \in Client, d # c,
         model'[d] = model[d], call'[d] = call[d], told'[d] = told[d]
  PROVE  ClientInv(d)'
<1>1. TypeOK /\ ClientInv(d)
  BY DEF Inv
<1>2. ASSUME NEW t \in Record, Covered(d, t) PROVE Covered(d, t)'
  <2>1. Stored(d, t)' = Stored(d, t) /\ Stored(d, t) \in Pair
    BY <1>1, StoredPair DEF Stored
  <2>2. CASE Stored(d, t) \in {Seen(c, u) : u \in D}
    BY <1>1, <2>2, UnlinkEffect DEF Covered
  <2>3. CASE Stored(d, t) \notin {Seen(c, u) : u \in D}
    BY <1>1, <1>2, <2>1, <2>3, UnlinkEffect DEF Covered
  <2> QED
    BY <2>2, <2>3
<1>3. ~quiet'[d]
  BY <1>1, UnlinkEffect
<1> QED
  BY <1>1, <1>2, <1>3, LeftAlone

LEMMA UnlinkSingle ==
  ASSUME Inv, NEW c \in Client, NEW D \in SUBSET Record, Unlink(c, D),
         call'[c] = None, fresh' = fresh,
         \A d \in Client : d # c => model'[d] = model[d] /\ call'[d] = call[d]
  PROVE  SingleInv'
<1>1. TypeOK /\ SingleInv
  BY DEF Inv
<1>2. \A d \in Client : call'[d] # None =>
        call'[d] = call[d] /\ model'[d] = model[d] /\ call[d] # None
  OBVIOUS
<1>3. \A d \in Client : Pending(d)' \subseteq Pending(d)
  BY <1>2 DEF Pending, Stored
<1>4. \A q \in Pair : /\ edges[q] <= 1 => edges'[q] <= 1
                      /\ edges[q] = 0 => edges'[q] = 0
  BY <1>1, UnlinkEffect
<1>5. \A d \in Client : Pending(d) \subseteq Pair
  BY <1>1, PendingPair
<1> QED
  BY <1>1, <1>2, <1>3, <1>4, <1>5 DEF SingleInv

LEMMA OthersAreRecords ==
  ASSUME NEW c \in Client
  PROVE  Others(c) \in SUBSET Record
  BY DEF Others, Linked

LEMMA DeletesOthersInv ==
  ASSUME Inv, NEW c \in Client, DeletesOthers(c)
  PROVE  Inv'
<1> USE DEF Inv
<1>1. PICK result \in {"replaced", "error"} : Ends(c, result)
  BY DEF DeletesOthers
<1>2. /\ Unlink(c, Others(c)) /\ AllSent(c, "replace")
      /\ accepts' = accepts /\ model' = model /\ fresh' = fresh /\ calls' = calls
  BY DEF DeletesOthers
<1>3. /\ call' \in [Client -> Job \cup {None}] /\ call'[c] = None /\ told'[c] = result
      /\ told' \in [Client -> {"none", "running", "saved", "replaced", "deleted", "loaded", "error"}]
      /\ \A d \in Client : d # c => call'[d] = call[d] /\ told'[d] = told[d]
  BY <1>1 DEF Ends, TypeOK
<1>4. Others(c) \in SUBSET Record
  BY OthersAreRecords
<1>5. TypeOK'
  BY <1>2, <1>3, <1>4, UnlinkEffect DEF TypeOK
<1>6. SingleInv'
  BY <1>2, <1>3, <1>4, UnlinkSingle
<1>7. ASSUME NEW d \in Client, d # c PROVE ClientInv(d)'
  BY <1>2, <1>3, <1>4, <1>7, UnlinkOthers
<1>8. ClientInv(c)'
  <2>1. LoopInv(c) /\ QuietInv(c)
    BY DEF ClientInv
  <2>2. lost'[c] = lost[c] /\ quiet'[c] = quiet[c]
    BY <1>2, <1>4, UnlinkEffect
  <2>3. ASSUME quiet[c], model[c].side = "in", Len(model[c].list) <= 1
        PROVE  Linked(c)' = Elems(model[c].list)
    <3>1. /\ call[c] # None /\ call[c].kind = "replace"
          /\ ~(call[c].at <= Len(model[c].list))
      BY <1>2 DEF AllSent, Inserting, Idle
    <3>2. call[c].at \in 1..MaxLen + 1 /\ Len(model[c].list) \in 0..MaxLen
      BY <3>1, JobType, ListElems DEF TypeOK
    <3>3. call[c].values = model[c].list
      BY <2>1, <3>1 DEF LoopInv
    <3>4. Others(c) = Linked(c) \ Elems(model[c].list)
      BY <2>3, <3>2, <3>3 DEF Others
    <3>5. \A t \in Record : Stored(c, t) = Seen(c, t)
      BY <2>3 DEF Stored, Seen
    <3>6. ASSUME NEW t \in Elems(model[c].list) PROVE t \in Linked(c)
      <4>1. PICK i \in 1..Len(model[c].list) : t = model[c].list[i]
        BY DEF Elems
      <4>2. i < call[c].at
        BY <3>1, <3>2, EdgeAssocAssumption
      <4>3. Covered(c, t)
        BY <2>1, <3>1, <4>1, <4>2 DEF LoopInv
      <4>4. t \in Record /\ lost[c] = {}
        BY <2>1, <2>3, ListElems DEF QuietInv
      <4> QED
        BY <3>5, <4>3, <4>4 DEF Covered, Linked
    <3>7. ASSUME NEW t \in Record
          PROVE  (edges'[Seen(c, t)] > 0) <=> t \in Elems(model[c].list)
      <4>1. Seen(c, t) \in Pair
        BY StoredPair
      <4>2. Seen(c, t) \in {Seen(c, u) : u \in Others(c)} <=> t \in Others(c)
        BY <2>3 DEF Seen
      <4>3. edges'[Seen(c, t)] = (IF t \in Others(c) THEN 0 ELSE edges[Seen(c, t)])
        BY <1>2, <1>4, <4>1, <4>2, UnlinkEffect
      <4>4. t \in Others(c) <=> t \in Linked(c) /\ t \notin Elems(model[c].list)
        BY <3>4
      <4>5. t \in Linked(c) <=> edges[Seen(c, t)] > 0
        BY DEF Linked
      <4> QED
        BY <3>6, <4>3, <4>4, <4>5
    <3>8. Linked(c)' = {t \in Record : edges'[Seen(c, t)] > 0}
      BY <1>2 DEF Linked, Seen
    <3>9. Elems(model[c].list) \subseteq Record
      BY ListElems
    <3> QED
      BY <3>7, <3>8, <3>9
  <2>4. ExactInv(c)'
    BY <1>2, <2>2, <2>3 DEF ExactInv
  <2> QED
    BY <1>3, <2>1, <2>2, <2>4 DEF ClientInv, LoopInv, CoverInv, QuietInv
<1> QED
  BY <1>5, <1>6, <1>7, <1>8

LEMMA DeletesInv ==
  ASSUME Inv, NEW c \in Client, Deletes(c)
  PROVE  Inv'
<1> USE DEF Inv
<1> DEFINE D == IF Len(call[c].values) > 1 THEN {} ELSE Elems(call[c].values)
<1>1. PICK result \in {"deleted", "error"}, s \in Slices :
        Ends(c, result) /\ model' \in {model, [model EXCEPT ![c].list = s]}
  BY EmptySlice DEF Deletes
<1>2. /\ Unlink(c, D) /\ call[c] # None
      /\ accepts' = accepts /\ fresh' = fresh /\ calls' = calls
  BY DEF Deletes, AllSent, Idle
<1>3. /\ call' \in [Client -> Job \cup {None}] /\ call'[c] = None /\ told'[c] = result
      /\ told' \in [Client -> {"none", "running", "saved", "replaced", "deleted", "loaded", "error"}]
      /\ \A d \in Client : d # c => call'[d] = call[d] /\ told'[d] = told[d]
  BY <1>1 DEF Ends, TypeOK
<1>4. D \in SUBSET Record
  <2>1. call[c].values \in Slices
    BY <1>2, JobType DEF TypeOK
  <2> QED
    BY <2>1, SliceType DEF Elems
<1>5. /\ model' \in [Client -> [rec : Record, side : {"in", "out"}, list : Slices]]
      /\ \A d \in Client : d # c => model'[d] = model[d]
  BY <1>1 DEF TypeOK
<1>6. TypeOK'
  BY <1>2, <1>3, <1>4, <1>5, UnlinkEffect DEF TypeOK
<1>7. SingleInv'
  BY <1>2, <1>3, <1>4, <1>5, UnlinkSingle
<1>8. ASSUME NEW d \in Client PROVE ClientInv(d)'
  <2>1. CASE d = c
    <3>1. QuietInv(c) /\ lost'[c] = lost[c] /\ quiet'[c] = quiet[c]
      BY <1>2, <1>4, UnlinkEffect DEF ClientInv
    <3> QED
      BY <1>3, <2>1, <3>1 DEF ClientInv, LoopInv, CoverInv, QuietInv, ExactInv
  <2>2. CASE d # c
    BY <1>2, <1>3, <1>4, <1>5, <2>2, UnlinkOthers
  <2> QED
    BY <2>1, <2>2
<1> QED
  BY <1>6, <1>7, <1>8

-----------------------------------------------------------------------------
LEMMA InitInv == Init => Inv
<1> SUFFICES ASSUME Init PROVE Inv
  OBVIOUS
<1>1. accepts \in SUBSET Pair
  BY EdgeAssocAssumption DEF Init
<1>2. Structs(accepts) \subseteq [rec : Record, side : {"in", "out"}, list : Slices]
  BY <1>1, EmptySlice DEF Structs, Pair
<1>3. edges \in [Pair -> 0..MaxCopies] /\ calls \in 0..MaxCalls
  BY EdgeAssocAssumption DEF Init
<1>4. TypeOK
  BY <1>1, <1>2, <1>3 DEF Init, TypeOK
<1>5. \A c \in Client : ClientInv(c)
  BY DEF Init, ClientInv, LoopInv, CoverInv, QuietInv, ExactInv
<1>6. SingleInv
  BY DEF Init, SingleInv
<1> QED
  BY <1>4, <1>5, <1>6 DEF Inv

LEMMA StepInv == Inv /\ [Next]_vars => Inv'
<1> SUFFICES ASSUME Inv, [Next]_vars PROVE Inv'
  OBVIOUS
<1>1. CASE UNCHANGED vars
  <2>1. TypeOK'
    BY <1>1 DEF vars, Inv, TypeOK
  <2>2. ASSUME NEW c \in Client
        PROVE  /\ \A t : Covered(c, t)' <=> Covered(c, t)
               /\ Pending(c)' = Pending(c) /\ Linked(c)' = Linked(c)
    BY <1>1 DEF vars, Covered, Stored, Seen, Linked, Pending
  <2>3. ASSUME NEW c \in Client PROVE ClientInv(c)'
    <3>1. ClientInv(c)
      BY DEF Inv
    <3>2. LoopInv(c)'
      BY <1>1, <2>2, <3>1 DEF vars, ClientInv, LoopInv
    <3>3. CoverInv(c)'
      BY <1>1, <2>2, <3>1 DEF vars, ClientInv, CoverInv
    <3>4. QuietInv(c)' /\ ExactInv(c)'
      BY <1>1, <2>2, <3>1 DEF vars, ClientInv, QuietInv, ExactInv
    <3> QED
      BY <3>2, <3>3, <3>4 DEF ClientInv
  <2>4. SingleInv'
    BY <1>1, <2>2 DEF vars, Inv, SingleInv
  <2> QED
    BY <2>1, <2>3, <2>4 DEF Inv
<1>2. ASSUME NEW c \in Client,
             \/ Save(c)
             \/ \E t \in Record : Add(c, t)
             \/ \E T \in Slices : Replace(c, T) \/ Delete(c, T)
      PROVE  Inv'
  BY <1>2, BeginInv
<1>3. ASSUME NEW c \in Client, Preload(c) PROVE Inv'
  BY <1>3, PreloadInv
<1>4. ASSUME NEW c \in Client, Inserts(c) PROVE Inv'
  BY <1>4, InsertsInv
<1>5. ASSUME NEW c \in Client, Refused(c) \/ Fails(c) PROVE Inv'
  BY <1>5, EndsInv DEF Refused, Fails, Inserting, Idle
<1>6. ASSUME NEW c \in Client, Saved(c) PROVE Inv'
  BY <1>6, EndsInv DEF Saved, AllSent, Idle
<1>7. ASSUME NEW c \in Client, DeletesOthers(c) PROVE Inv'
  BY <1>7, DeletesOthersInv
<1>8. ASSUME NEW c \in Client, Deletes(c) PROVE Inv'
  BY <1>8, DeletesInv
<1> QED
  BY <1>1, <1>2, <1>3, <1>4, <1>5, <1>6, <1>7, <1>8 DEF Next

-----------------------------------------------------------------------------
THEOREM Invariant == Spec => []Inv
<1>1. Init => Inv
  BY InitInv
<1>2. Inv /\ [Next]_vars => Inv'
  BY StepInv
<1> QED
  BY <1>1, <1>2, PTL DEF Spec

\* Edges are counted within the bound, and structs and calls keep their types.
THEOREM TypeCorrect == Spec => []TypeOK
<1>1. Inv => TypeOK
  BY DEF Inv
<1> QED
  BY <1>1, Invariant, PTL

\* Whatever the clients do concurrently, a save that returned nil has its record
\* linked to the whole slice, except for what others removed meanwhile: the loop
\* of UpdateCallback (callback_update.go:54-87) passes over no element.
THEOREM SavedLinked == Spec => []SavedIsLinked
<1>1. Inv => SavedIsLinked
  BY DEF Inv, ClientInv, CoverInv, SavedIsLinked, Covered
<1> QED
  BY <1>1, Invariant, PTL

\* For any number of clients, records and calls, relations are single as long as
\* no call carries an element that is linked or on its way (callback_update.go:54).
THEOREM FreshSingle == Spec => []FreshLinksAreSingle
<1>1. Inv => FreshLinksAreSingle
  BY DEF Inv, SingleInv, FreshLinksAreSingle
<1> QED
  BY <1>1, Invariant, PTL

\* A Replace by one value, or by none, that returned nil and met no other change
\* of edges leaves its owner linked to exactly that value, although its inserts
\* come before its DELETE (register.go:38).
THEOREM ReplaceExact == Spec => []QuietReplaceIsExact
<1>1. Inv => QuietReplaceIsExact
  BY DEF Inv, ClientInv, ExactInv, QuietReplaceIsExact
<1> QED
  BY <1>1, Invariant, PTL
=============================================================================
