------------------------------ MODULE Connect -------------------------------
(***************************************************************************)
(* gorm.Open: Dialector.Initialize dials, signs in, creates the namespace  *)
(* and the database, and keeps the connection for all later use.  It may   *)
(* fail at any step, and the application may open the same Dialector       *)
(* again.  A connection may drop at any time; the wrapper around a         *)
(* WebSocket (rews) dials again and replays the token and the USE that it  *)
(* recorded.  The server may restart with nothing in it and other keys.    *)
(***************************************************************************)
EXTENDS Integers

CONSTANTS Link,      \* the connections that can be dialled
          MaxWipes,  \* bound: restarts that wipe the server
          Nil        \* nil, no token

ASSUME ConnectAssumption == MaxWipes \in Nat /\ Nil \notin Nat /\ Nil \notin Link

VARIABLES dsn,      \* its scheme, and whether it has all the parameters
          interval, \* ReconnectInterval
          server,   \* its namespace, its database, the keys it signs with
          links,    \* each connection: the socket, the server's session, and
                    \* what rews recorded of it; no one ever closes them
          conn,     \* Initialize: the connection it dialled
          Conn,     \* dialector.Conn
          step,     \* the next step of Initialize; "idle", "open" outside it
          wiped     \* history: the server was wiped since the sign-in

connectVars == <<dsn, interval, server, links, conn, Conn, step, wiped>>

Steps == {"check", "signin", "namespace", "use", "database"}

Undialled == [kind |-> "none", up |-> FALSE, signed |-> FALSE, used |-> FALSE,
              token |-> Nil, use |-> FALSE]

\* The connection can be used: signed in, on a database that exists.
Usable(l) == /\ links[l].up /\ links[l].signed /\ links[l].used
             /\ server.ns /\ server.db

-----------------------------------------------------------------------------
(***************************************************************************)
(* Initialize.                                                             *)
(***************************************************************************)
Returns(result) == step' = result

\* mutant: a second attempt takes the Dialector for initialized.
SkipAnyhow ==
  /\ step = "idle"
  /\ Returns("open")
  /\ UNCHANGED <<dsn, interval, server, links, conn, Conn, wiped>>

\* A Dialector that has its Conn is not initialized again.
Skip ==
  /\ step = "idle" /\ Conn # Nil
  /\ Returns("open")
  /\ UNCHANGED <<dsn, interval, server, links, conn, Conn, wiped>>

\* The application opens the Dialector once more.
Reopen ==
  /\ step = "open"
  /\ step' = "idle"
  /\ UNCHANGED <<dsn, interval, server, links, conn, Conn, wiped>>

Dialled(l, kind) ==
  /\ step = "idle" /\ Conn = Nil /\ links[l] = Undialled
  /\ links' = [links EXCEPT ![l] = [Undialled EXCEPT !.kind = kind, !.up = TRUE]]
  /\ conn' = l
  /\ step' = "check"

\* mutant: a zero interval does not mean the default.
DialPlainByDefault(l) ==
  /\ Dialled(l, IF dsn.scheme = "ws" /\ interval > 0 THEN "rews" ELSE "plain")
  /\ UNCHANGED <<dsn, interval, server, Conn, wiped>>

\* mutant: the connection is kept before it is set up.
DialAndKeep(l) ==
  /\ Dialled(l, IF dsn.scheme = "ws" /\ interval >= 0 THEN "rews" ELSE "plain")
  /\ Conn' = l
  /\ UNCHANGED <<dsn, interval, server, wiped>>

\* dialConn.  An error leaves everything as it is.
Dial(l) ==
  /\ Dialled(l, IF dsn.scheme = "ws" /\ interval >= 0 THEN "rews" ELSE "plain")
  /\ UNCHANGED <<dsn, interval, server, Conn, wiped>>

Check ==
  /\ step = "check"
  /\ IF dsn.complete THEN step' = "signin" ELSE Returns("idle")
  /\ UNCHANGED <<dsn, interval, server, links, conn, Conn, wiped>>

\* A call of Initialize goes out on an open socket; the reply, or an error
\* instead of it, decides whether the next step is taken.
Calls(at, next) ==
  /\ step = at /\ links[conn].up
  /\ step' \in {next, "idle"}

SignIn ==
  /\ Calls("signin", "namespace")
  /\ links' = [links EXCEPT ![conn].signed = TRUE, ![conn].token = server.keys]
  /\ wiped' = FALSE
  /\ UNCHANGED <<dsn, interval, server, conn, Conn>>

DefineNamespace ==
  /\ Calls("namespace", "use") /\ links[conn].signed
  /\ server' = [server EXCEPT !.ns = TRUE]
  /\ UNCHANGED <<dsn, interval, links, conn, Conn, wiped>>

Use ==
  /\ Calls("use", "database") /\ links[conn].signed
  /\ links' = [links EXCEPT ![conn].used = TRUE, ![conn].use = TRUE]
  /\ UNCHANGED <<dsn, interval, server, conn, Conn, wiped>>

\* The last step: only now is the connection kept.
DefineDatabase ==
  /\ Calls("database", "open")
  /\ links[conn].signed /\ links[conn].used /\ server.ns
  /\ server' = [server EXCEPT !.db = TRUE]
  /\ Conn' = IF step' = "open" THEN conn ELSE Conn
  /\ UNCHANGED <<dsn, interval, links, conn, wiped>>

\* The call did not get through, or the server refused it.
Fail ==
  /\ step \in Steps \ {"check"}
  /\ Returns("idle")
  /\ UNCHANGED <<dsn, interval, server, links, conn, Conn, wiped>>

-----------------------------------------------------------------------------
(***************************************************************************)
(* The socket and the server.                                              *)
(***************************************************************************)
\* An HTTP connection has no socket to lose.
Lost(c) == [c EXCEPT !.up = dsn.scheme = "http", !.signed = FALSE, !.used = FALSE]

Drop(l) ==
  /\ links[l].up /\ dsn.scheme = "ws"
  /\ links' = [links EXCEPT ![l] = Lost(@)]
  /\ UNCHANGED <<dsn, interval, server, conn, Conn, step, wiped>>

\* rews: a check finds the socket lost, and an attempt gets through.
Reconnect(l) ==
  /\ links[l].kind = "rews" /\ ~links[l].up
  /\ links' = [links EXCEPT ![l].up = TRUE,
                            ![l].signed = links[l].token = server.keys,
                            ![l].used = links[l].use]
  /\ UNCHANGED <<dsn, interval, server, conn, Conn, step, wiped>>

\* The server restarts in memory, with keys of its own.
Wipe ==
  /\ server.keys < MaxWipes
  /\ server' = [ns |-> FALSE, db |-> FALSE, keys |-> server.keys + 1]
  /\ links' = [l \in Link |-> IF links[l] = Undialled THEN Undialled ELSE Lost(links[l])]
  /\ wiped' = TRUE
  /\ UNCHANGED <<dsn, interval, conn, Conn, step>>

-----------------------------------------------------------------------------
ConnectInit ==
  /\ dsn \in [scheme : {"ws", "http"}, complete : BOOLEAN]
  /\ interval \in {-1, 0, 1}
  /\ server \in [ns : BOOLEAN, db : BOOLEAN, keys : {0}]
  /\ server.db => server.ns
  /\ links = [l \in Link |-> Undialled]
  /\ conn = Nil /\ Conn = Nil
  /\ step = "idle"
  /\ wiped = FALSE

ConnectNext ==
  \/ Reopen \/ Skip \/ Check \/ SignIn \/ DefineNamespace \/ Use \/ DefineDatabase \/ Fail
  \/ \E l \in Link : Dial(l) \/ Drop(l) \/ Reconnect(l)
  \/ Wipe

ConnectSpec == ConnectInit /\ [][ConnectNext]_connectVars

\* rews dials again at every interval, as long as the process lives; that an
\* attempt gets through in the end is an assumption on the network.
FairSpec == ConnectSpec /\ \A l \in Link : WF_connectVars(Reconnect(l))

-----------------------------------------------------------------------------
\* The Dialector, its connections and the server have their types: gorm.Open
\* returns without an error only when there is a connection.
ConnectTypeOK ==
  /\ dsn \in [scheme : {"ws", "http"}, complete : BOOLEAN]
  /\ server \in [ns : BOOLEAN, db : BOOLEAN, keys : 0..MaxWipes]
  /\ links \in [Link -> [kind : {"none", "plain", "rews"}, up : BOOLEAN, signed : BOOLEAN,
                         used : BOOLEAN, token : (0..MaxWipes) \cup {Nil}, use : BOOLEAN]]
  /\ conn \in Link \cup {Nil} /\ Conn \in Link \cup {Nil}
  /\ step \in Steps \cup {"idle", "open"}
  /\ step \in Steps => conn \in Link
  /\ step = "open" => Conn \in Link
  /\ wiped \in BOOLEAN

\* When gorm.Open has returned without an error, however many attempts on the
\* same Dialector failed before and however often the socket was lost and dialled
\* again, statements run signed in, on a namespace and a database that exist,
\* whenever the socket is there (dialector.go:99-124, README.md:74).  A restart
\* that wipes the server is the documented exception.
OpenIsUsable == step = "open" /\ links[Conn].up /\ ~wiped => Usable(Conn)

\* An open WebSocket connection with reconnection on comes back from every drop,
\* unless the server is wiped.
ComesBack ==
  (step = "open" /\ dsn.scheme = "ws" /\ interval >= 0) ~> (wiped \/ (Conn # Nil /\ Usable(Conn)))
=============================================================================
