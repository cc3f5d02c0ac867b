----------------------------- MODULE MCMigrate ------------------------------
(* Small instances of Migrate: two builds, v1 and v2, of which v2 has one   *)
(* more field and gives another one a new type.                            *)
EXTENDS Migrate

CONSTANTS p1, p2, users, follows, name, age, bio, str, int, email

MCDst == <<users, follows>>
MCKind == [t \in {users, follows} |-> IF t = follows THEN "relation" ELSE "full"]

None == [f \in {name, age, bio} |-> NoField]
V1 == [t \in {users, follows} |->
         IF t = users THEN [None EXCEPT ![name] = str, ![age] = str] ELSE None]
V2 == [V1 EXCEPT ![users][age] = int, ![users][bio] = str]

MCModel == [p \in {p1, p2} |-> IF p = p1 THEN V1 ELSE V2]

MCIndexed == [p \in {p1, p2} |-> [t \in {users, follows} |-> IF t = users THEN {email} ELSE {}]]
=============================================================================
