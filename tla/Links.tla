------------------------------- MODULE Links --------------------------------
(***************************************************************************)
(* types.Link and types.SliceLink: a field that holds the id of another    *)
(* record, and the record itself when the query fetched it.  The id is a   *)
(* pointer to a RecordID, so what a load does depends on whether it writes *)
(* to a new one or through the one that is there: a struct that was copied *)
(* from, or assigned from, shares it.                                      *)
(*                                                                         *)
(* A reply holds the link of a row as null, as the id, or, fetched, as an  *)
(* object.  Data only shows what was fetched, a Save never writes it: it   *)
(* is left out.  A new RecordID takes a cell that nobody points to: the    *)
(* others are garbage.                                                     *)
(***************************************************************************)
EXTENDS Naturals, FiniteSets

CONSTANTS Row,     \* rows with a link field
          Target,  \* records they link to
          Var,     \* Link values of the application's structs
          Slice,   \* those that are elements of a SliceLink
          Plain,   \* those whose T has no GetID
          Book,    \* struct variables of the application that hold a Target
          Cell,    \* RecordIDs in memory
          None     \* nil, null

ASSUME LinksAssumption ==
  /\ Slice \subseteq Var /\ Plain \subseteq Var
  /\ None \notin Target \cup Cell \cup Var
  /\ Target # {}
  /\ IsFiniteSet(Cell) /\ IsFiniteSet(Var) /\ IsFiniteSet(Book)
  /\ Cardinality(Cell) > Cardinality(Var) + Cardinality(Book)

VARIABLES link,   \* server: the link field of each row
          cell,   \* what each RecordID in memory names
          var,    \* each Link's ID, a pointer
          book,   \* each Book's ID, a pointer
          want,   \* history: the link the application last put into a variable
          excuse  \* history: why a variable may hold another

vars == <<link, cell, var, book, want, excuse>>

Pointed == {var[v] : v \in Var} \cup {book[b] : b \in Book}
New == CHOOSE x \in Cell : x \notin Pointed

\* What a Save stores: the ID or NONE, whatever Data says.
MarshalCBOR(v) == IF var[v] = None THEN None ELSE cell[var[v]]

Puts(v, t, why) ==
  /\ want' = [want EXCEPT ![v] = t]
  /\ excuse' = [excuse EXCEPT ![v] = why]

-----------------------------------------------------------------------------
(***************************************************************************)
(* Loading.  The application may declare a variable anew before it.        *)
(***************************************************************************)
Declares(v) ==
  /\ var' = [var EXCEPT ![v] = None]
  /\ Puts(v, None, {})
  /\ UNCHANGED <<link, cell, book>>

\* mutant: null is decoded as an id.
KeptAsId(v, old) == /\ cell' = [cell EXCEPT ![New] = None]
                    /\ var' = [var EXCEPT ![v] = New]
                    /\ Puts(v, None, {})

\* A null reply leaves a Link as it was.
Kept(v, old) == /\ UNCHANGED cell
                /\ var' = [var EXCEPT ![v] = old]
                /\ Puts(v, None, IF v \in Slice \/ old = None THEN {} ELSE {"stale"})

\* A fetched record becomes Data, and its ID the link's, if T has GetID.
Fetched(v, old, t) ==
  IF v \in Plain
    THEN /\ var' = [var EXCEPT ![v] = old]
         /\ UNCHANGED cell
         /\ Puts(v, t, {"bare"})
    ELSE /\ var' = [var EXCEPT ![v] = New]
         /\ cell' = [cell EXCEPT ![New] = t]
         /\ Puts(v, t, {})

\* mutant: the id is decoded into the RecordID that is there.
UnmarshalsInPlace(v, old, t) ==
  LET x == IF old = None THEN New ELSE old IN
  /\ var' = [var EXCEPT ![v] = x]
  /\ cell' = [cell EXCEPT ![x] = t]
  /\ Puts(v, t, {})

\* json.Unmarshal(data, &id) of an id: a RecordID of its own.
UnmarshalsID(v, old, t) ==
  /\ var' = [var EXCEPT ![v] = New]
  /\ cell' = [cell EXCEPT ![New] = t]
  /\ Puts(v, t, {})

\* mutant: a SliceLink reuses its elements.
StartReused(v) == var[v]

\* The elements of a SliceLink are new for each load.
Start(v) == IF v \in Slice THEN None ELSE var[v]

\* Find and First decode through UnmarshalJSON.
Find(v, r, fetch) ==
  /\ CASE link[r] = None -> Kept(v, Start(v))
       [] link[r] # None /\ fetch -> Fetched(v, Start(v), link[r])
       [] link[r] # None /\ ~fetch -> UnmarshalsID(v, Start(v), link[r])
  /\ UNCHANGED <<link, book>>

\* Whoever shares the RecordID that a load writes through gets the new id too.
Overwrites(x, t, owner) ==
  /\ cell' = [cell EXCEPT ![x] = t]
  /\ want' = [v \in Var |-> IF v = owner THEN t ELSE want[v]]
  /\ excuse' = [v \in Var |-> IF v = owner THEN {}
                              ELSE IF var[v] = x THEN excuse[v] \cup {"shared"}
                              ELSE excuse[v]]

\* rows.Scan(&link): an id is written through the pointer the link has.
Scan(v, r, fetch) ==
  /\ v \notin Slice
  /\ CASE link[r] = None -> Kept(v, var[v])
       [] link[r] # None /\ fetch -> Fetched(v, var[v], link[r])
       [] link[r] # None /\ ~fetch ->
            LET x == IF var[v] = None THEN New ELSE var[v] IN
            /\ var' = [var EXCEPT ![v] = x]
            /\ Overwrites(x, link[r], v)
  /\ UNCHANGED <<link, book>>

\* First(&book) decodes the id of the record through book.ID, if it is set.
FindBook(b, t) ==
  LET x == IF book[b] = None THEN New ELSE book[b] IN
  /\ book' = [book EXCEPT ![b] = x]
  /\ Overwrites(x, t, None)
  /\ UNCHANGED <<link, var>>

DeclaresBook(b) ==
  /\ book' = [book EXCEPT ![b] = None]
  /\ UNCHANGED <<link, cell, var, want, excuse>>

-----------------------------------------------------------------------------
(***************************************************************************)
(* The application assigns and copies links, and saves them.               *)
(***************************************************************************)
\* person.Book.ID = book.ID
Assigns(v, b) ==
  /\ book[b] # None
  /\ var' = [var EXCEPT ![v] = book[b]]
  /\ Puts(v, cell[book[b]], {})
  /\ UNCHANGED <<link, cell, book>>

Copies(v, w) ==
  /\ var' = [var EXCEPT ![v] = var[w]]
  /\ Puts(v, want[w], excuse[w])
  /\ UNCHANGED <<link, cell, book>>

\* Save writes every field; Updates with a struct does, unless the Link is zero.
Save(v, r) ==
  /\ link' = [link EXCEPT ![r] = MarshalCBOR(v)]
  /\ UNCHANGED <<cell, var, book, want, excuse>>

\* Another client.
OtherWrites(r, t) ==
  /\ link' = [link EXCEPT ![r] = t]
  /\ UNCHANGED <<cell, var, book, want, excuse>>

-----------------------------------------------------------------------------
Init ==
  /\ link \in [Row -> Target \cup {None}]
  /\ cell \in [Cell -> {CHOOSE t \in Target : TRUE}]
  /\ var = [v \in Var |-> None]
  /\ book = [b \in Book |-> None]
  /\ want = [v \in Var |-> None]
  /\ excuse = [v \in Var |-> {}]

Next ==
  \/ \E v \in Var : \/ Declares(v)
                    \/ \E r \in Row, fetch \in BOOLEAN : Find(v, r, fetch) \/ Scan(v, r, fetch)
                    \/ \E b \in Book : Assigns(v, b)
                    \/ \E w \in Var \ {v} : Copies(v, w)
                    \/ \E r \in Row : Save(v, r)
  \/ \E b \in Book : DeclaresBook(b) \/ \E t \in Target : FindBook(b, t)
  \/ \E r \in Row, t \in Target \cup {None} : OtherWrites(r, t)

Spec == Init /\ [][Next]_vars

-----------------------------------------------------------------------------
\* Links and RecordIDs have their types.
TypeOK ==
  /\ link \in [Row -> Target \cup {None}]
  /\ cell \in [Cell -> Target]
  /\ var \in [Var -> Cell \cup {None}]
  /\ book \in [Book -> Cell \cup {None}]
  /\ want \in [Var -> Target \cup {None}]
  /\ excuse \in [Var -> SUBSET {"stale", "bare", "shared"}]

\* Why a variable may hold another link than the one put into it: it was set
\* before and the row it was loaded from has none ("stale"; never an element of
\* a SliceLink); its T has no GetID and the record was fetched ("bare"); someone
\* wrote through the RecordID it shares ("shared").
Excused(v) == excuse[v] # {}

\* What saving a struct writes for its link is what was loaded into it or
\* assigned to it, fetched or not, copied or not, and whatever was loaded since
\* into the structs it was copied from: a load by Find takes a RecordID of its
\* own (types/link.go:41-43), and an element of a SliceLink starts empty.
SavesWhatWasRead == \A v \in Var : ~Excused(v) => MarshalCBOR(v) = want[v]
=============================================================================
