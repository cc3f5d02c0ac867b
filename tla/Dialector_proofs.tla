------------------------- MODULE Dialector_proofs --------------------------
(***************************************************************************)
(* Theorems about the two halves of the Dialector.  EdgeRegistry, for      *)
(* every set of goroutines and of table names: what FindEdgeTable answers  *)
(* while registrations are under way, and what the registry resolves to    *)
(* when they have returned.  Connect, for every number of attempts, drops  *)
(* and restarts: what an open Dialector can rely on.                       *)
(***************************************************************************)
EXTENDS EdgeRegistry, Connect, TLAPS

LEMMA PluralOfTrim ==
  ASSUME NEW n \in Name, HasSuffix(n)
  PROVE  TrimSuffix(n) \in Name /\ Plural(TrimSuffix(n)) = n
  BY EdgeRegistryAssumption DEF Name, HasSuffix, TrimSuffix, Plural

LEMMA TrimOfPlural ==
  ASSUME NEW n \in Name
  PROVE  /\ HasSuffix(Plural(n)) /\ TrimSuffix(Plural(n)) = n
         /\ Plural(n) # n /\ Plural(Plural(n)) # n /\ Plural(Plural(n)) # Plural(n)
         /\ n # None
  BY EdgeRegistryAssumption DEF Name, HasSuffix, TrimSuffix, Plural

\* A name stands for itself or its plural, and for one that was given; what was
\* given is there, and what is done is there under its alias as well.
MapInv == \A n \in Name :
  /\ edgeTables[n] # None => edgeTables[n] \in given \cap {n, Plural(n)}
  /\ n \in given => edgeTables[n] # None
  /\ n \in done /\ HasSuffix(n) => edgeTables[TrimSuffix(n)] # None

\* A lookup that has missed the name began before the name or its plural was
\* registered.
TaskInv == \A g \in Goroutine : task[g] # Idle =>
  /\ task[g].kind = "alias" => task[g].name \in given /\ HasSuffix(task[g].name)
  /\ task[g].kind = "plural" => /\ task[g].name \notin task[g].seen
                                /\ Plural(task[g].name) \notin task[g].seen

AnswerInv == RegisteredIsFound /\ AnswersAreRegistered

Inv == TypeOK /\ MapInv /\ TaskInv /\ AnswerInv

-----------------------------------------------------------------------------
LEMMA TaskType ==
  ASSUME TypeOK, NEW g \in Goroutine, task[g] # Idle
  PROVE  /\ task[g] \in Task
         /\ task[g].kind \in {"alias", "plural"}
         /\ task[g].name \in Name /\ task[g].seen \subseteq Name
<1>1. task[g] \in Task
  BY DEF TypeOK
<1> QED
  BY <1>1 DEF Task

LEMMA RegisterInv ==
  ASSUME Inv, NEW g \in Goroutine, NEW n \in Name, Register(g, n)
  PROVE  Inv'
<1> USE DEF Inv
<1>1. edgeTables' = [edgeTables EXCEPT ![n] = n] /\ given' = given \cup {n} /\ answer' = answer
  BY DEF Register, Store
<1>2. \/ HasSuffix(n) /\ done' = done
         /\ task' = [task EXCEPT ![g] = [kind |-> "alias", name |-> n, seen |-> {}]]
      \/ ~HasSuffix(n) /\ done' = done \cup {n} /\ task' = task
  BY DEF Register
<1>3. [kind |-> "alias", name |-> n, seen |-> {}] \in Task
  BY DEF Task
<1>4. n # None
  BY TrimOfPlural
<1>5. TypeOK'
  BY <1>1, <1>2, <1>3 DEF TypeOK
<1>6. MapInv'
  BY <1>1, <1>2, <1>4, PluralOfTrim DEF MapInv, TypeOK
<1>7. TaskInv'
  BY <1>1, <1>2 DEF TaskInv, TypeOK
<1>8. AnswerInv'
  BY <1>1 DEF AnswerInv, RegisteredIsFound, AnswersAreRegistered
<1> QED
  BY <1>5, <1>6, <1>7, <1>8

LEMMA StoreAliasInv ==
  ASSUME Inv, NEW g \in Goroutine, StoreAlias(g)
  PROVE  Inv'
<1> USE DEF Inv
<1>1. PICK n \in Name : n = task[g].name /\ n \in given /\ HasSuffix(n)
  BY TaskType DEF StoreAlias, TaskInv
<1>2. /\ edgeTables' = [edgeTables EXCEPT ![TrimSuffix(n)] = n]
      /\ done' = done \cup {n} /\ task' = [task EXCEPT ![g] = Idle]
      /\ answer' = answer /\ given' = given
  BY <1>1 DEF StoreAlias, Store
<1>3. TrimSuffix(n) \in Name /\ Plural(TrimSuffix(n)) = n /\ n # None
  BY <1>1, PluralOfTrim, TrimOfPlural
<1>4. TypeOK'
  BY <1>1, <1>2 DEF TypeOK
<1>5. MapInv'
  BY <1>1, <1>2, <1>3 DEF MapInv, TypeOK
<1>6. TaskInv'
  BY <1>2 DEF TaskInv, TypeOK
<1>7. AnswerInv'
  BY <1>2 DEF AnswerInv, RegisteredIsFound, AnswersAreRegistered
<1> QED
  BY <1>4, <1>5, <1>6, <1>7

\* What one look at the map can return.
LEMMA LoadAnswers ==
  ASSUME TypeOK, MapInv, NEW n \in Name
  PROVE  /\ Load(n) # None => Load(n) \in Name \cap given \cap {n, Plural(n)}
         /\ Load(n) = None => n \notin given /\ Plural(n) \notin done
         /\ Load(Plural(n)) # None =>
              Load(Plural(n)) \in Name \cap given \cap {Plural(n), Plural(Plural(n))}
<1>1. Load(n) = edgeTables[n]
  BY DEF Load
<1>2. Load(n) # None => Load(n) \in Name \cap given \cap {n, Plural(n)}
  BY <1>1 DEF MapInv, TypeOK
<1>3. Plural(n) \in Name /\ Plural(n) \in done => Load(n) # None
  BY <1>1, TrimOfPlural DEF MapInv
<1>4. Load(n) = None => n \notin given /\ Plural(n) \notin done
  BY <1>1, <1>3 DEF MapInv, TypeOK
<1>5. Load(Plural(n)) # None =>
        Load(Plural(n)) \in Name \cap given \cap {Plural(n), Plural(Plural(n))}
  BY DEF Load, MapInv, TypeOK
<1> QED
  BY <1>2, <1>4, <1>5

LEMMA FindInv ==
  ASSUME Inv, NEW g \in Goroutine, NEW n \in Name, Find(g, n)
  PROVE  Inv'
<1> USE DEF Inv
<1>1. UNCHANGED <<edgeTables, given, done>>
  BY DEF Find
<1>2. MapInv'
  BY <1>1 DEF MapInv
<1>3. CASE Load(n) # None
  <2>1. answer' = [name |-> n, table |-> Load(n), seen |-> done] /\ task' = task
    BY <1>3 DEF Find, Answers
  <2>2. Load(n) \in Name \cap given \cap {n, Plural(n)}
    BY <1>3, LoadAnswers
  <2>3. answer' \in Answer
    BY <2>1, <2>2 DEF Answer, TypeOK
  <2>4. TypeOK'
    BY <1>1, <2>1, <2>3 DEF TypeOK
  <2>5. TaskInv'
    BY <1>1, <2>1 DEF TaskInv
  <2>6. answer'.table = Load(n) /\ answer'.name = n
    BY <2>1
  <2>7. RegisteredIsFound'
    BY <1>3, <2>6 DEF RegisteredIsFound
  <2>8. Load(n) \in given /\ Load(n) \in {n, Plural(n)} /\ Load(n) # Plural(Plural(n))
    BY <2>2, TrimOfPlural
  <2>9. AnswersAreRegistered'
    BY <1>1, <2>6, <2>8 DEF AnswersAreRegistered
  <2> QED
    BY <1>2, <2>4, <2>5, <2>7, <2>9 DEF AnswerInv
<1>4. CASE Load(n) = None
  <2> DEFINE t == [kind |-> "plural", name |-> n, seen |-> done]
  <2>1. task' = [task EXCEPT ![g] = t] /\ answer' = answer
    BY <1>4 DEF Find
  <2>2. t \in Task
    BY DEF Task, TypeOK
  <2>3. TypeOK'
    BY <1>1, <2>1, <2>2 DEF TypeOK
  <2>4. n \notin done /\ Plural(n) \notin done
    BY <1>4, LoadAnswers DEF TypeOK
  <2>5. TaskInv'
    BY <1>1, <2>1, <2>4 DEF TaskInv, TypeOK
  <2>6. AnswerInv'
    BY <1>1, <2>1 DEF AnswerInv, RegisteredIsFound, AnswersAreRegistered
  <2> QED
    BY <1>2, <2>3, <2>5, <2>6
<1> QED
  BY <1>3, <1>4

LEMMA FindPluralInv ==
  ASSUME Inv, NEW g \in Goroutine, FindPlural(g)
  PROVE  Inv'
<1> USE DEF Inv
<1> DEFINE n == task[g].name
           c == Load(Plural(n))
<1>1. task[g] # Idle /\ task[g].kind = "plural" /\ UNCHANGED <<edgeTables, given, done>>
      /\ task' = [task EXCEPT ![g] = Idle]
      /\ answer' = [name |-> n, table |-> c, seen |-> task[g].seen]
  BY DEF FindPlural, Answers
<1>2. n \in Name /\ task[g].seen \subseteq Name
  BY <1>1, TaskType
<1>3. n \notin task[g].seen /\ Plural(n) \notin task[g].seen
  BY <1>1 DEF TaskInv
<1>4. c # None => c \in Name \cap given \cap {Plural(n), Plural(Plural(n))}
  BY <1>2, LoadAnswers
<1> HIDE DEF n, c
<1>5. MapInv'
  BY <1>1 DEF MapInv
<1>6. answer' \in Answer
  BY <1>1, <1>2, <1>4 DEF Answer
<1>7. TypeOK'
  BY <1>1, <1>6 DEF TypeOK
<1>8. TaskInv'
  BY <1>1 DEF TaskInv, TypeOK
<1>9. AnswerInv'
  BY <1>1, <1>3, <1>4 DEF AnswerInv, RegisteredIsFound, AnswersAreRegistered
<1> QED
  BY <1>5, <1>7, <1>8, <1>9

LEMMA InitInv == Init => Inv
  BY DEF Init, Inv, TypeOK, MapInv, TaskInv, AnswerInv, RegisteredIsFound, AnswersAreRegistered

LEMMA NextInv == Inv /\ [Next]_vars => Inv'
<1> SUFFICES ASSUME Inv, [Next]_vars PROVE Inv'
  OBVIOUS
<1>1. CASE Next
  BY <1>1, RegisterInv, StoreAliasInv, FindInv, FindPluralInv DEF Next
<1>2. CASE UNCHANGED vars
  BY <1>2 DEF vars, Inv, TypeOK, MapInv, TaskInv, AnswerInv, RegisteredIsFound, AnswersAreRegistered
<1> QED
  BY <1>1, <1>2

THEOREM Invariance == Spec => []Inv
  BY InitInv, NextInv, PTL DEF Spec

-----------------------------------------------------------------------------
\* The map, the calls under way and the answers keep their types.
THEOREM TypeCorrect == Spec => []TypeOK
<1>1. Inv => TypeOK
  BY DEF Inv
<1> QED
  BY Invariance, <1>1, PTL

\* On any number of goroutines, a lookup that begins after RegisterEdgeTable has
\* returned for the table or its plural finds an edge table.
THEOREM RegisteredFound == Spec => []RegisteredIsFound
<1>1. Inv => RegisteredIsFound
  BY DEF Inv, AnswerInv
<1> QED
  BY Invariance, <1>1, PTL

\* Every answer is a table somebody registered, two letters "s" away at most, and
\* one at most when the name itself was registered.
THEOREM AnswersRegistered == Spec => []AnswersAreRegistered
<1>1. Inv => AnswersAreRegistered
  BY DEF Inv, AnswerInv
<1> QED
  BY Invariance, <1>1, PTL

\* When every registration has returned, only the set of registered tables says
\* what a name resolves to, up to a table whose plural is registered as well.
THEOREM ResolvedByName == Spec => []ResolvesByName
<1>1. ASSUME TypeOK, MapInv, Settled, NEW n \in Name
      PROVE  Resolve(n) \in
               CASE n \in done /\ Plural(n) \notin done -> {n}
                 [] n \notin done /\ Plural(n) \in done -> {Plural(n)}
                 [] n \in done /\ Plural(n) \in done    -> {n, Plural(n)}
                 [] OTHER -> IF Plural(Plural(n)) \in done THEN {Plural(Plural(n))} ELSE {None}
  <2>1. given = done
    BY <1>1 DEF Settled
  <2>2. Load(n) # None => Load(n) \in done \cap {n, Plural(n)}
    BY <1>1, <2>1, LoadAnswers
  <2>3. n \in done \/ Plural(n) \in done => Load(n) # None
    BY <1>1, <2>1, LoadAnswers
  <2>4. Load(Plural(n)) # None => Load(Plural(n)) \in done \cap {Plural(n), Plural(Plural(n))}
    BY <1>1, <2>1, LoadAnswers
  <2>5. Plural(Plural(n)) \in done => Load(Plural(n)) # None
    <3>1. CASE Plural(n) \in Name
      BY <1>1, <3>1, LoadAnswers
    <3>2. CASE Plural(n) \notin Name
      <4>1. Plural(Plural(n)) \notin Name
        BY <3>2, EdgeRegistryAssumption DEF Name, Plural
      <4> QED
        BY <1>1, <4>1 DEF TypeOK
    <3> QED
      BY <3>1, <3>2
  <2> QED
    BY <2>2, <2>3, <2>4, <2>5 DEF Resolve
<1>2. Inv => ResolvesByName
  BY <1>1 DEF Inv, ResolvesByName
<1> QED
  BY Invariance, <1>2, PTL

-----------------------------------------------------------------------------
(***************************************************************************)
(* Connect.                                                                *)
(***************************************************************************)
LinkState == [kind : {"none", "plain", "rews"}, up : BOOLEAN, signed : BOOLEAN,
              used : BOOLEAN, token : (0..MaxWipes) \cup {Nil}, use : BOOLEAN]

\* A link carries the sign-in, or the USE, and will carry it again when it has
\* been lost and dialled again.
CarriesSignIn(l) == links[l].token = server.keys /\ (links[l].up => links[l].signed)
CarriesUse(l) == links[l].use /\ (links[l].up => links[l].used)

\* Initialize sets up a connection only while the Dialector has none, ...
KeptLast == step \in Steps => Conn = Nil

\* ... and what its steps achieved before is still there at each of them, unless
\* the server was wiped since; a connection is kept when all of it is.
Achieved == ~wiped =>
  /\ step \in {"namespace", "use", "database"} => CarriesSignIn(conn)
  /\ step \in {"use", "database"} => server.ns
  /\ step = "database" => CarriesUse(conn)
  /\ Conn # Nil => CarriesSignIn(Conn) /\ CarriesUse(Conn) /\ server.ns /\ server.db

ConnectInv == ConnectTypeOK /\ KeptLast /\ Achieved

\* No action gives a link, the server or Initialize a value of another type.
LEMMA LinkTypes ==
  ASSUME ConnectTypeOK
  PROVE  /\ links \in [Link -> LinkState]
         /\ Undialled \in LinkState
         /\ server.keys \in 0..MaxWipes
         /\ \A s \in LinkState : Lost(s) \in LinkState
<1>1. links \in [Link -> LinkState]
  BY DEF ConnectTypeOK, LinkState
<1>2. Undialled \in LinkState
  BY DEF Undialled, LinkState
<1>3. server.keys \in 0..MaxWipes
  BY DEF ConnectTypeOK
<1>4. \A s \in LinkState : Lost(s) \in LinkState
  BY DEF Lost, LinkState
<1> QED
  BY <1>1, <1>2, <1>3, <1>4

LEMMA ConnectTypeStep ==
  ASSUME ConnectTypeOK, KeptLast, [ConnectNext]_connectVars
  PROVE  ConnectTypeOK'
<1> USE DEF ConnectTypeOK
<1> USE LinkTypes
<1>1. CASE Reopen
  BY <1>1 DEF Reopen, Steps
<1>2. CASE Skip
  BY <1>2 DEF Skip, Returns, Steps
<1>3. CASE Check
  BY <1>3 DEF Check, Returns, Steps
<1>4. CASE SignIn
  <2>0. conn \in Link
    BY <1>4 DEF SignIn, Calls, Steps
  <2>1. [links[conn] EXCEPT !.signed = TRUE, !.token = server.keys] \in LinkState
    <3>1. links[conn] \in LinkState /\ server.keys \in (0..MaxWipes) \cup {Nil}
      BY <2>0
    <3> QED
      BY <3>1 DEF LinkState
  <2>2. links' \in [Link -> LinkState]
    BY <1>4, <2>1 DEF SignIn
  <2> QED
    BY <1>4, <2>2 DEF SignIn, Calls, Steps, LinkState
<1>5. CASE DefineNamespace
  BY <1>5 DEF DefineNamespace, Calls, Steps
<1>6. CASE Use
  <2>1. conn \in Link /\ links[conn] \in LinkState
    BY <1>6 DEF Use, Calls, Steps
  <2>2. [links[conn] EXCEPT !.used = TRUE, !.use = TRUE] \in LinkState
    BY <2>1 DEF LinkState
  <2>3. links' \in [Link -> LinkState]
    BY <1>6, <2>2 DEF Use
  <2> QED
    BY <1>6, <2>3 DEF Use, Calls, Steps, LinkState
<1>7. CASE DefineDatabase
  BY <1>7 DEF DefineDatabase, Calls, Steps
<1>8. CASE Fail
  BY <1>8 DEF Fail, Returns, Steps
<1>9. ASSUME NEW l \in Link, Dial(l)
      PROVE  ConnectTypeOK'
  BY <1>9 DEF Dial, Dialled, Undialled, Steps
<1>10. ASSUME NEW l \in Link, Drop(l)
       PROVE  ConnectTypeOK'
  BY <1>10 DEF Drop, LinkState
<1>11. ASSUME NEW l \in Link, Reconnect(l)
       PROVE  ConnectTypeOK'
  <2>1. \A c \in LinkState, b, d \in BOOLEAN :
          [c EXCEPT !.up = TRUE, !.signed = b, !.used = d] \in LinkState
    BY DEF LinkState
  <2>2. links[l] \in LinkState /\ links[l].use \in BOOLEAN
    BY DEF LinkState
  <2>3. (links[l].token = server.keys) \in BOOLEAN
    OBVIOUS
  <2>4. [links[l] EXCEPT !.up = TRUE, !.signed = links[l].token = server.keys,
                         !.used = links[l].use] \in LinkState
    BY <2>1, <2>2, <2>3, Zenon
  <2>5. links' \in [Link -> LinkState]
    BY <1>11, <2>4 DEF Reconnect
  <2> QED
    BY <1>11, <2>5 DEF Reconnect, LinkState
<1>12. CASE Wipe
  <2>1. links' \in [Link -> LinkState]
    BY <1>12 DEF Wipe
  <2>2. server' \in [ns : BOOLEAN, db : BOOLEAN, keys : 0..MaxWipes]
    BY <1>12, ConnectAssumption DEF Wipe
  <2> QED
    BY <1>12, <2>1, <2>2 DEF Wipe, LinkState
<1>13. CASE UNCHANGED connectVars
  BY <1>13 DEF connectVars
<1> QED
  BY <1>1, <1>2, <1>3, <1>4, <1>5, <1>6, <1>7, <1>8, <1>9, <1>10, <1>11, <1>12, <1>13
     DEF ConnectNext

\* A connection is kept at the last step of Initialize, and no step comes after it.
LEMMA KeptLastStep ==
  ASSUME ConnectTypeOK, KeptLast, [ConnectNext]_connectVars
  PROVE  KeptLast'
<1>1. CASE \E l \in Link : Dial(l) \/ Drop(l) \/ Reconnect(l)
  BY <1>1 DEF Dial, Dialled, Drop, Reconnect, KeptLast, Steps
<1>2. CASE Reopen \/ Skip \/ Check
  BY <1>2 DEF Reopen, Skip, Check, Returns, KeptLast, Steps
<1>3. CASE SignIn \/ DefineNamespace \/ Use
  BY <1>3 DEF SignIn, DefineNamespace, Use, Calls, KeptLast, Steps
<1>4. CASE DefineDatabase \/ Fail \/ Wipe
  BY <1>4 DEF DefineDatabase, Fail, Wipe, Calls, Returns, KeptLast, Steps
<1>5. CASE UNCHANGED connectVars
  BY <1>5 DEF connectVars, KeptLast
<1> QED
  BY <1>1, <1>2, <1>3, <1>4, <1>5 DEF ConnectNext

\* A link that is lost and dialled again still carries what it carried.
LEMMA SurvivesTheSocket ==
  ASSUME ConnectTypeOK, NEW l \in Link, NEW m \in Link, Drop(m) \/ Reconnect(m)
  PROVE  /\ CarriesSignIn(l) => links'[l].token = server'.keys /\ (links'[l].up => links'[l].signed)
         /\ CarriesUse(l) => links'[l].use /\ (links'[l].up => links'[l].used)
<1>1. links \in [Link -> LinkState]
  BY LinkTypes
<1>2. CASE Drop(m)
  <2>1. dsn.scheme # "http" /\ server' = server
    BY <1>2 DEF Drop
  <2>2. links' = [links EXCEPT ![m] = Lost(links[m])]
    BY <1>2 DEF Drop
  <2>3. links'[l] = IF l = m THEN Lost(links[l]) ELSE links[l]
    BY <1>1, <2>2
  <2>4. /\ Lost(links[l]).token = links[l].token /\ Lost(links[l]).use = links[l].use
        /\ ~Lost(links[l]).up
    BY <1>1, <2>1 DEF Lost, LinkState
  <2> QED
    BY <2>1, <2>3, <2>4 DEF CarriesSignIn, CarriesUse
<1>3. CASE Reconnect(m)
  <2>1. server' = server
    BY <1>3 DEF Reconnect
  <2>2. l # m => links'[l] = links[l]
    BY <1>1, <1>3 DEF Reconnect
  <2>3. /\ links'[m].token = links[m].token /\ links'[m].use = links[m].use
        /\ links'[m].used = links[m].use
    BY <1>1, <1>3 DEF Reconnect, LinkState
  <2>4. links'[m].signed = (links[m].token = server.keys)
    BY <1>1, <1>3 DEF Reconnect, LinkState
  <2> QED
    BY <2>1, <2>2, <2>3, <2>4 DEF CarriesSignIn, CarriesUse
<1> QED
  BY <1>2, <1>3

LEMMA AchievedStep ==
  ASSUME ConnectTypeOK, KeptLast, Achieved, [ConnectNext]_connectVars
  PROVE  Achieved'
<1> USE DEF Achieved, CarriesSignIn, CarriesUse
<1>t. links \in [Link -> LinkState]
  BY LinkTypes
<1>c. Conn # Nil => Conn \in Link
  BY DEF ConnectTypeOK
<1>s. step \in Steps => conn \in Link /\ Conn = Nil
  BY DEF ConnectTypeOK, KeptLast
<1>1. CASE Reopen \/ Skip \/ Check
  BY <1>1 DEF Reopen, Skip, Check, Returns
<1>2. CASE SignIn
  <2>1. conn \in Link /\ Conn' = Nil /\ server' = server /\ conn' = conn
    BY <1>2, <1>s DEF SignIn, Calls, Steps
  <2>2. links'[conn].token = server.keys /\ links'[conn].signed
    BY <1>2, <1>t, <2>1 DEF SignIn, LinkState
  <2>3. step' \in {"namespace", "idle"}
    BY <1>2 DEF SignIn, Calls
  <2> QED
    BY <2>1, <2>2, <2>3
<1>3. CASE DefineNamespace
  <2>1. conn \in Link /\ Conn' = Nil /\ links' = links /\ conn' = conn /\ wiped' = wiped
    BY <1>3, <1>s DEF DefineNamespace, Calls, Steps
  <2>2. server'.keys = server.keys /\ server'.ns
    BY <1>3 DEF DefineNamespace, ConnectTypeOK
  <2>3. step = "namespace" /\ step' \in {"use", "idle"}
    BY <1>3 DEF DefineNamespace, Calls
  <2> QED
    BY <2>1, <2>2, <2>3
<1>4. CASE Use
  <2>1. /\ conn \in Link /\ Conn' = Nil /\ server' = server /\ conn' = conn /\ wiped' = wiped
    BY <1>4, <1>s DEF Use, Calls, Steps
  <2>2. /\ links'[conn].token = links[conn].token /\ links'[conn].signed = links[conn].signed
        /\ links'[conn].used /\ links'[conn].use
    BY <1>4, <1>t, <2>1 DEF Use, LinkState
  <2>3. links[conn].signed /\ step = "use" /\ step' \in {"database", "idle"}
    BY <1>4 DEF Use, Calls
  <2> QED
    BY <2>1, <2>2, <2>3
<1>5. CASE DefineDatabase
  <2>1. conn \in Link /\ links' = links /\ conn' = conn /\ wiped' = wiped /\ Conn' \in {Nil, conn}
    BY <1>5, <1>s DEF DefineDatabase, Calls, Steps
  <2>2. server'.keys = server.keys /\ server'.ns /\ server'.db
    BY <1>5 DEF DefineDatabase, ConnectTypeOK
  <2>3. step = "database" /\ step' \in {"open", "idle"}
    BY <1>5 DEF DefineDatabase, Calls
  <2> QED
    BY <2>1, <2>2, <2>3
<1>6. CASE Fail
  BY <1>6 DEF Fail, Returns
<1>7. ASSUME NEW l \in Link, Dial(l)
      PROVE  Achieved'
  BY <1>7 DEF Dial, Dialled
<1>8. ASSUME NEW m \in Link, Drop(m) \/ Reconnect(m)
      PROVE  Achieved'
  <2>1. UNCHANGED <<server, conn, Conn, step, wiped>>
    BY <1>8 DEF Drop, Reconnect
  <2>2. \A l \in Link :
          /\ CarriesSignIn(l) => links'[l].token = server'.keys /\ (links'[l].up => links'[l].signed)
          /\ CarriesUse(l) => links'[l].use /\ (links'[l].up => links'[l].used)
    BY <1>8, SurvivesTheSocket
  <2> QED
    BY <2>1, <2>2, <1>c, <1>s DEF Steps
<1>9. CASE Wipe
  BY <1>9 DEF Wipe
<1>10. CASE UNCHANGED connectVars
  BY <1>10 DEF connectVars
<1> QED
  BY <1>1, <1>2, <1>3, <1>4, <1>5, <1>6, <1>7, <1>8, <1>9, <1>10 DEF ConnectNext

LEMMA ConnectInvariance == ConnectSpec => []ConnectInv
<1>1. ConnectInit => ConnectInv
  <2> SUFFICES ASSUME ConnectInit
               PROVE  ConnectInv
    OBVIOUS
  <2>1. 0 \in 0..MaxWipes
    BY ConnectAssumption
  <2>2. links \in [Link -> LinkState]
    BY DEF ConnectInit, Undialled, LinkState
  <2>3. ConnectTypeOK
    BY <2>1, <2>2 DEF ConnectInit, ConnectTypeOK, LinkState, Steps
  <2> QED
    BY <2>3 DEF ConnectInit, ConnectInv, KeptLast, Achieved, Steps
<1>2. ConnectInv /\ [ConnectNext]_connectVars => ConnectInv'
  BY ConnectTypeStep, KeptLastStep, AchievedStep DEF ConnectInv
<1> QED
  BY <1>1, <1>2, PTL DEF ConnectSpec

\* The Dialector, its connections and the server keep their types; Initialize has a
\* connection at each of its steps, and gorm.Open succeeds only with one.
THEOREM ConnectTypeCorrect == ConnectSpec => []ConnectTypeOK
<1>1. ConnectInv => ConnectTypeOK
  BY DEF ConnectInv
<1> QED
  BY ConnectInvariance, <1>1, PTL

\* However many attempts failed before, and however often the socket was lost and
\* dialled again, an open Dialector whose socket is there is signed in, on a namespace
\* and a database that exist, unless the server was wiped.
THEOREM OpenUsable == ConnectSpec => []OpenIsUsable
<1>1. ConnectInv => OpenIsUsable
  BY ConnectAssumption
     DEF ConnectInv, ConnectTypeOK, Achieved, CarriesSignIn, CarriesUse, OpenIsUsable, Usable
<1> QED
  BY ConnectInvariance, <1>1, PTL
=============================================================================
