---------------------------- MODULE Links_proofs ----------------------------
(***************************************************************************)
(* Proofs about Links: types, and that a Save writes the link that was     *)
(* read.  The invariant is inductive as it stands, once a new RecordID is  *)
(* known to be one that nobody points to; that there is one follows from   *)
(* the number of cells.                                                    *)
(***************************************************************************)
EXTENDS Links, FiniteSetTheorems, TLAPS

(***************************************************************************)
(* A new RecordID.                                                         *)
(***************************************************************************)
LEMMA ImageSize ==
  ASSUME NEW S, IsFiniteSet(S), NEW f, DOMAIN f = S
  PROVE  /\ IsFiniteSet({f[x] : x \in S})
         /\ Cardinality({f[x] : x \in S}) <= Cardinality(S)
<1> DEFINE T == {f[x] : x \in S}
           g == [x \in S |-> f[x]]
<1>1. g \in Surjection(S, T)
  BY DEF Surjection
<1>2. QED
  BY <1>1, FS_Surjection

\* RecordIDs are allocated anew: what New yields is a cell no variable and no
\* Book points to.
LEMMA NewIsFree ==
  ASSUME TypeOK
  PROVE  New \in Cell /\ New \notin Pointed
<1>1. DOMAIN var = Var /\ DOMAIN book = Book
  BY DEF TypeOK
<1>2. /\ IsFiniteSet({var[v] : v \in Var})
      /\ Cardinality({var[v] : v \in Var}) <= Cardinality(Var)
  BY <1>1, LinksAssumption, ImageSize
<1>3. /\ IsFiniteSet({book[b] : b \in Book})
      /\ Cardinality({book[b] : b \in Book}) <= Cardinality(Book)
  BY <1>1, LinksAssumption, ImageSize
<1>4. /\ IsFiniteSet(Pointed)
      /\ Cardinality(Pointed) = Cardinality({var[v] : v \in Var})
           + Cardinality({book[b] : b \in Book})
           - Cardinality({var[v] : v \in Var} \cap {book[b] : b \in Book})
  BY <1>2, <1>3, FS_Union DEF Pointed
<1>5. Cardinality({var[v] : v \in Var} \cap {book[b] : b \in Book}) \in Nat
  BY <1>2, FS_Subset, FS_CardinalityType
<1>6. Cardinality(Pointed) < Cardinality(Cell)
  <2>1. /\ Cardinality({var[v] : v \in Var}) \in Nat
        /\ Cardinality({book[b] : b \in Book}) \in Nat
        /\ Cardinality(Var) \in Nat /\ Cardinality(Book) \in Nat
        /\ Cardinality(Cell) \in Nat
    BY <1>2, <1>3, LinksAssumption, FS_CardinalityType
  <2>2. QED
    BY <2>1, <1>2, <1>3, <1>4, <1>5, LinksAssumption
<1>7. ~(Cell \subseteq Pointed)
  <2>1. SUFFICES ASSUME Cell \subseteq Pointed PROVE FALSE
    OBVIOUS
  <2>2. Cardinality(Cell) <= Cardinality(Pointed)
    BY <2>1, <1>4, FS_Subset
  <2>3. Cardinality(Cell) \in Nat /\ Cardinality(Pointed) \in Nat
    BY <1>4, LinksAssumption, FS_CardinalityType
  <2>4. QED
    BY <2>2, <2>3, <1>6
<1>8. QED
  BY <1>7 DEF New

-----------------------------------------------------------------------------
IInv == TypeOK /\ SavesWhatWasRead


\* A null reply leaves the link as it was, from a start that is the variable or,
\* for the element of a SliceLink, empty.
LEMMA KeptPreserves ==
  ASSUME IInv, NEW v \in Var, NEW old, old = var[v] \/ old = None,
         v \in Slice => old = None,
         Kept(v, old), UNCHANGED <<link, book>>
  PROVE  IInv'
<1>1. /\ cell' = cell /\ link' = link /\ book' = book
      /\ var' = [var EXCEPT ![v] = old]
      /\ want' = [want EXCEPT ![v] = None]
      /\ excuse' = [excuse EXCEPT ![v] = IF v \in Slice \/ old = None THEN {} ELSE {"stale"}]
  BY DEF Kept, Puts
<1>2. TypeOK'
  BY <1>1 DEF IInv, TypeOK
<1>3. ASSUME NEW w \in Var, ~Excused(w)'
      PROVE  MarshalCBOR(w)' = want'[w]
  <2>1. CASE w = v
    BY <1>1, <1>3, <2>1 DEF IInv, TypeOK, Excused, MarshalCBOR
  <2>2. CASE w # v
    BY <1>1, <1>3, <2>2 DEF IInv, TypeOK, SavesWhatWasRead, Excused, MarshalCBOR
  <2>3. QED
    BY <2>1, <2>2
<1>4. QED
  BY <1>2, <1>3 DEF IInv, SavesWhatWasRead

\* A RecordID of its own for one variable disturbs no other.
LEMMA OwnIdPreserves ==
  ASSUME IInv, NEW v \in Var, NEW t \in Target,
         var' = [var EXCEPT ![v] = New], cell' = [cell EXCEPT ![New] = t],
         Puts(v, t, {}), UNCHANGED <<link, book>>
  PROVE  IInv'
<1>1. New \in Cell /\ New \notin Pointed
  BY NewIsFree DEF IInv
<1>2. PICK x \in Cell : x = New /\ x \notin Pointed
  BY <1>1
<1>3. /\ var' = [var EXCEPT ![v] = x] /\ cell' = [cell EXCEPT ![x] = t]
      /\ want' = [want EXCEPT ![v] = t] /\ excuse' = [excuse EXCEPT ![v] = {}]
      /\ link' = link /\ book' = book
  BY <1>2 DEF Puts
<1>4. TypeOK'
  BY <1>3 DEF IInv, TypeOK
<1>5. ASSUME NEW w \in Var, ~Excused(w)'
      PROVE  MarshalCBOR(w)' = want'[w]
  <2>1. CASE w = v
    <3>1. var'[w] = x /\ cell'[x] = t /\ want'[w] = t
      BY <1>3, <2>1 DEF IInv, TypeOK
    <3>2. x # None
      BY LinksAssumption
    <3>3. QED
      BY <3>1, <3>2 DEF MarshalCBOR
  <2>2. CASE w # v
    <3>1. var'[w] = var[w] /\ want'[w] = want[w] /\ excuse'[w] = excuse[w]
      BY <1>3, <2>2 DEF IInv, TypeOK
    <3>2. var[w] # x
      BY <1>2 DEF Pointed
    <3>3. var[w] # None => cell'[var[w]] = cell[var[w]]
      BY <1>3, <3>2 DEF IInv, TypeOK
    <3>4. MarshalCBOR(w) = want[w]
      BY <1>5, <3>1 DEF IInv, SavesWhatWasRead, Excused
    <3>5. QED
      BY <3>1, <3>3, <3>4 DEF MarshalCBOR
  <2>3. QED
    BY <2>1, <2>2
<1>6. QED
  BY <1>4, <1>5 DEF IInv, SavesWhatWasRead

\* A fetched record: its own id becomes the link's.
LEMMA FetchedPreserves ==
  ASSUME IInv, NEW v \in Var, NEW t \in Target, NEW old \in Cell \cup {None},
         Fetched(v, old, t), UNCHANGED <<link, book>>
  PROVE  IInv'
<1>1. CASE v \in Plain
  <2>1. /\ cell' = cell /\ link' = link /\ book' = book
        /\ var' = [var EXCEPT ![v] = old]
        /\ want' = [want EXCEPT ![v] = t] /\ excuse' = [excuse EXCEPT ![v] = {"bare"}]
    BY <1>1 DEF Fetched, Puts
  <2>2. TypeOK'
    BY <2>1 DEF IInv, TypeOK
  <2>3. ASSUME NEW w \in Var, ~Excused(w)'
        PROVE  MarshalCBOR(w)' = want'[w]
    <3>1. w # v
      BY <2>1, <2>3 DEF IInv, TypeOK, Excused
    <3>2. QED
      BY <2>1, <2>3, <3>1 DEF IInv, TypeOK, SavesWhatWasRead, Excused, MarshalCBOR
  <2>4. QED
    BY <2>2, <2>3 DEF IInv, SavesWhatWasRead
<1>2. CASE v \notin Plain
  <2>1. /\ var' = [var EXCEPT ![v] = New] /\ cell' = [cell EXCEPT ![New] = t]
        /\ Puts(v, t, {})
    BY <1>2 DEF Fetched
  <2>2. QED
    BY <2>1, OwnIdPreserves
<1>3. QED
  BY <1>1, <1>2

\* Writing through a RecordID: whoever shares it is excused from then on.
LEMMA OverwritesPreserves ==
  ASSUME IInv, NEW x \in Cell, NEW t \in Target, NEW owner,
         owner \in Var \/ owner = None, Overwrites(x, t, owner),
         var' \in [Var -> Cell \cup {None}], book' \in [Book -> Cell \cup {None}],
         link' = link,
         \A w \in Var : var'[w] = IF w = owner THEN x ELSE var[w]
  PROVE  IInv'
<1>1. /\ cell' = [cell EXCEPT ![x] = t]
      /\ want' = [v \in Var |-> IF v = owner THEN t ELSE want[v]]
      /\ excuse' = [v \in Var |-> IF v = owner THEN {}
                                  ELSE IF var[v] = x THEN excuse[v] \cup {"shared"}
                                  ELSE excuse[v]]
  BY DEF Overwrites
<1>2. TypeOK'
  <2>1. cell' \in [Cell -> Target] /\ link' \in [Row -> Target \cup {None}]
    BY <1>1 DEF IInv, TypeOK
  <2>2. want' \in [Var -> Target \cup {None}]
    BY <1>1 DEF IInv, TypeOK
  <2>3. excuse' \in [Var -> SUBSET {"stale", "bare", "shared"}]
    BY <1>1 DEF IInv, TypeOK
  <2>4. QED
    BY <2>1, <2>2, <2>3 DEF TypeOK
<1>3. ASSUME NEW w \in Var, ~Excused(w)'
      PROVE  MarshalCBOR(w)' = want'[w]
  <2>1. CASE w = owner
    <3>1. var'[w] = x /\ cell'[x] = t /\ want'[w] = t
      BY <1>1, <2>1 DEF IInv, TypeOK
    <3>2. x # None
      BY LinksAssumption
    <3>3. QED
      BY <3>1, <3>2 DEF MarshalCBOR
  <2>2. CASE w # owner
    <3>1. var'[w] = var[w] /\ want'[w] = want[w]
      BY <1>1, <2>2
    <3>2. var[w] # x /\ excuse'[w] = excuse[w]
      BY <1>1, <1>3, <2>2 DEF Excused
    <3>3. var[w] # None => cell'[var[w]] = cell[var[w]]
      BY <1>1, <3>2 DEF IInv, TypeOK
    <3>4. MarshalCBOR(w) = want[w]
      BY <1>3, <3>2 DEF IInv, SavesWhatWasRead, Excused
    <3>5. QED
      BY <3>1, <3>3, <3>4 DEF MarshalCBOR
  <2>3. QED
    BY <2>1, <2>2
<1>4. QED
  BY <1>2, <1>3 DEF IInv, SavesWhatWasRead

-----------------------------------------------------------------------------
LEMMA InitInv == Init => IInv
<1>1. SUFFICES ASSUME Init PROVE IInv
  OBVIOUS
<1>2. link \in [Row -> Target \cup {None}]
  BY <1>1 DEF Init
<1>3. Target # {}
  BY LinksAssumption
<1>4. cell \in [Cell -> Target]
  BY <1>1, <1>3 DEF Init
<1>5. TypeOK
  BY <1>1, <1>2, <1>4 DEF Init, TypeOK
<1>6. SavesWhatWasRead
  BY <1>1 DEF Init, SavesWhatWasRead, MarshalCBOR
<1>7. QED
  BY <1>5, <1>6 DEF IInv

LEMMA FindPreserves ==
  ASSUME IInv, NEW v \in Var, NEW r \in Row, NEW fetch \in BOOLEAN, Find(v, r, fetch)
  PROVE  IInv'
<1> DEFINE old == IF v \in Slice THEN None ELSE var[v]
<1>1. old \in Cell \cup {None} /\ Start(v) = old
  BY DEF IInv, TypeOK, Start
<1>2. link[r] \in Target \cup {None}
  BY DEF IInv, TypeOK
<1>3. UNCHANGED <<link, book>>
  BY DEF Find
<1>4. CASE link[r] = None
  <2>1. Kept(v, old)
    BY <1>1, <1>4 DEF Find
  <2>2. QED
    BY <2>1, <1>3, KeptPreserves
<1>5. CASE link[r] # None /\ fetch
  <2>1. Fetched(v, old, link[r])
    BY <1>1, <1>5 DEF Find
  <2>2. QED
    BY <2>1, <1>1, <1>2, <1>3, <1>5, FetchedPreserves
<1>6. CASE link[r] # None /\ ~fetch
  <2>1. UnmarshalsID(v, old, link[r])
    BY <1>1, <1>6 DEF Find
  <2>2. /\ var' = [var EXCEPT ![v] = New] /\ cell' = [cell EXCEPT ![New] = link[r]]
        /\ Puts(v, link[r], {})
    BY <2>1 DEF UnmarshalsID
  <2>3. QED
    BY <2>2, <1>2, <1>3, <1>6, OwnIdPreserves
<1>7. QED
  BY <1>4, <1>5, <1>6

LEMMA ScanPreserves ==
  ASSUME IInv, NEW v \in Var, NEW r \in Row, NEW fetch \in BOOLEAN, Scan(v, r, fetch)
  PROVE  IInv'
<1>1. var[v] \in Cell \cup {None} /\ v \notin Slice
  BY DEF IInv, TypeOK, Scan
<1>2. link[r] \in Target \cup {None}
  BY DEF IInv, TypeOK
<1>3. UNCHANGED <<link, book>>
  BY DEF Scan
<1>4. CASE link[r] = None
  <2>1. Kept(v, var[v])
    BY <1>4 DEF Scan
  <2>2. QED
    BY <2>1, <1>1, <1>3, KeptPreserves
<1>5. CASE link[r] # None /\ fetch
  <2>1. Fetched(v, var[v], link[r])
    BY <1>5 DEF Scan
  <2>2. QED
    BY <2>1, <1>1, <1>2, <1>3, <1>5, FetchedPreserves
<1>6. CASE link[r] # None /\ ~fetch
  <2>1. New \in Cell
    BY NewIsFree DEF IInv
  <2>2. PICK x \in Cell : x = IF var[v] = None THEN New ELSE var[v]
    BY <2>1, <1>1
  <2>3. var' = [var EXCEPT ![v] = x] /\ Overwrites(x, link[r], v)
    BY <1>6, <2>2 DEF Scan
  <2>4. /\ var' \in [Var -> Cell \cup {None}] /\ book' \in [Book -> Cell \cup {None}]
        /\ \A w \in Var : var'[w] = IF w = v THEN x ELSE var[w]
    BY <2>3, <1>3 DEF IInv, TypeOK
  <2>5. QED
    BY <2>3, <2>4, <1>2, <1>3, <1>6, OverwritesPreserves
<1>7. QED
  BY <1>4, <1>5, <1>6

LEMMA FindBookPreserves ==
  ASSUME IInv, NEW b \in Book, NEW t \in Target, FindBook(b, t)
  PROVE  IInv'
<1>1. New \in Cell /\ book[b] \in Cell \cup {None}
  BY NewIsFree DEF IInv, TypeOK
<1>2. PICK x \in Cell : x = IF book[b] = None THEN New ELSE book[b]
  BY <1>1
<1>3. /\ book' = [book EXCEPT ![b] = x] /\ Overwrites(x, t, None)
      /\ link' = link /\ var' = var
  BY <1>2 DEF FindBook
<1>4. /\ var' \in [Var -> Cell \cup {None}] /\ book' \in [Book -> Cell \cup {None}]
      /\ \A w \in Var : var'[w] = IF w = None THEN x ELSE var[w]
  BY <1>3, LinksAssumption DEF IInv, TypeOK
<1>5. QED
  BY <1>3, <1>4, OverwritesPreserves

\* What the application does to one variable.
LEMMA AssignPreserves ==
  ASSUME IInv, NEW v \in Var,
         \/ Declares(v)
         \/ \E b \in Book : Assigns(v, b)
         \/ \E w \in Var \ {v} : Copies(v, w)
  PROVE  IInv'
<1> DEFINE Sets(id, t, why) ==
             /\ var' = [var EXCEPT ![v] = id] /\ Puts(v, t, why)
             /\ UNCHANGED <<link, cell, book>>
             /\ why = {} => t = IF id = None THEN None ELSE cell[id]
           Some == \E id \in Cell \cup {None}, t \in Target \cup {None},
                     why \in SUBSET {"stale", "bare", "shared"} : Sets(id, t, why)
<1>0. Some
  <2>1. CASE Declares(v)
    BY <2>1 DEF Declares
  <2>2. ASSUME NEW b \in Book, Assigns(v, b)
        PROVE  Some
    <3>1. book[b] \in Cell /\ cell[book[b]] \in Target /\ book[b] # None
      BY <2>2 DEF Assigns, IInv, TypeOK
    <3>2. QED
      BY <2>2, <3>1 DEF Assigns
  <2>3. ASSUME NEW w \in Var, Copies(v, w)
        PROVE  Some
    <3>1. /\ var[w] \in Cell \cup {None} /\ want[w] \in Target \cup {None}
          /\ excuse[w] \in SUBSET {"stale", "bare", "shared"}
      BY DEF IInv, TypeOK
    <3>2. excuse[w] = {} => want[w] = IF var[w] = None THEN None ELSE cell[var[w]]
      BY DEF IInv, SavesWhatWasRead, Excused, MarshalCBOR
    <3>3. QED
      BY <2>3, <3>1, <3>2 DEF Copies
  <2>4. QED
    BY <2>1, <2>2, <2>3
<1>1. PICK id \in Cell \cup {None}, t \in Target \cup {None},
           why \in SUBSET {"stale", "bare", "shared"} : Sets(id, t, why)
  BY <1>0
<1>2. /\ want' = [want EXCEPT ![v] = t] /\ excuse' = [excuse EXCEPT ![v] = why]
      /\ cell' = cell /\ link' = link /\ book' = book
  BY <1>1 DEF Puts
<1>3. TypeOK'
  BY <1>1, <1>2 DEF IInv, TypeOK
<1>4. ASSUME NEW w \in Var, ~Excused(w)'
      PROVE  MarshalCBOR(w)' = want'[w]
  <2>1. CASE w = v
    BY <1>1, <1>2, <1>4, <2>1 DEF IInv, TypeOK, Excused, MarshalCBOR
  <2>2. CASE w # v
    BY <1>1, <1>2, <1>4, <2>2 DEF IInv, TypeOK, SavesWhatWasRead, Excused, MarshalCBOR
  <2>3. QED
    BY <2>1, <2>2
<1>5. QED
  BY <1>3, <1>4 DEF IInv, SavesWhatWasRead

LEMMA NextInv == IInv /\ [Next]_vars => IInv'
<1> SUFFICES ASSUME IInv, [Next]_vars PROVE IInv'
  OBVIOUS
<1>1. ASSUME NEW v \in Var,
             \/ Declares(v)
             \/ \E b \in Book : Assigns(v, b)
             \/ \E w \in Var \ {v} : Copies(v, w)
      PROVE  IInv'
  BY <1>1, AssignPreserves
<1>2. ASSUME NEW v \in Var, NEW r \in Row, NEW fetch \in BOOLEAN,
             Find(v, r, fetch) \/ Scan(v, r, fetch)
      PROVE  IInv'
  BY <1>2, FindPreserves, ScanPreserves
<1>3. ASSUME NEW v \in Var, NEW r \in Row, Save(v, r)
      PROVE  IInv'
  <2>1. MarshalCBOR(v) \in Target \cup {None}
    BY DEF IInv, TypeOK, MarshalCBOR
  <2>2. TypeOK'
    BY <1>3, <2>1 DEF Save, IInv, TypeOK
  <2>3. SavesWhatWasRead'
    BY <1>3 DEF Save, IInv, SavesWhatWasRead, Excused, MarshalCBOR
  <2>4. QED
    BY <2>2, <2>3 DEF IInv
<1>4. ASSUME NEW b \in Book, DeclaresBook(b)
      PROVE  IInv'
  BY <1>4 DEF DeclaresBook, IInv, TypeOK, SavesWhatWasRead, Excused, MarshalCBOR
<1>5. ASSUME NEW b \in Book, NEW t \in Target, FindBook(b, t)
      PROVE  IInv'
  BY <1>5, FindBookPreserves
<1>6. ASSUME NEW r \in Row, NEW t \in Target \cup {None}, OtherWrites(r, t)
      PROVE  IInv'
  BY <1>6 DEF OtherWrites, IInv, TypeOK, SavesWhatWasRead, Excused, MarshalCBOR
<1>7. CASE UNCHANGED vars
  BY <1>7 DEF vars, IInv, TypeOK, SavesWhatWasRead, Excused, MarshalCBOR
<1>8. QED
  BY <1>1, <1>2, <1>3, <1>4, <1>5, <1>6, <1>7 DEF Next

\* The inductive invariant holds in every state.
THEOREM Invariant == Spec => []IInv
BY InitInv, NextInv, PTL DEF Spec

\* Links, RecordIDs and Books keep their types (types/link.go:18-21): no load
\* leaves a link without a record in its RecordID.
THEOREM TypeCorrect == Spec => []TypeOK
<1>1. IInv => TypeOK
  BY DEF IInv
<1>2. QED
  BY <1>1, Invariant, PTL

\* For any number of structs, copies and loads: a Save writes the link that was
\* loaded or assigned, unless the variable is excused (types/link.go:24-48).
THEOREM SavesRead == Spec => []SavesWhatWasRead
<1>1. IInv => SavesWhatWasRead
  BY DEF IInv
<1>2. QED
  BY <1>1, Invariant, PTL
=============================================================================
