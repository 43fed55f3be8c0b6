-------------------------- MODULE WebSocketGateway --------------------------
(***************************************************************************)
(* MainWebSocketGateway: who is connected, in two maps that must agree, and *)
(* whom a message reaches.  The handlers of socket.io events run without    *)
(* interruption: handleConnection() is asynchronous but awaits nothing.     *)
(* The server may be created again, which calls afterInit().                *)
(***************************************************************************)
EXTENDS FiniteSets

CONSTANTS Users,
          Sockets,   \* socket ids; an id is never used again
          None

VARIABLES userMap,    \* the sockets of each user that has some
          clientMap,  \* the user of each socket
          connected,  \* sockets that socket.io has
          gone,       \* sockets that have been
          answers     \* what the last message had emitted: sets of [to, status]

vars == <<userMap, clientMap, connected, gone, answers>>

Statuses == {"SUCCESS", "SEND", "ERROR"}

TypeOK ==
    /\ DOMAIN userMap \subseteq Users
    /\ \A u \in DOMAIN userMap : userMap[u] \subseteq Sockets
    /\ DOMAIN clientMap \subseteq Sockets
    /\ connected \subseteq Sockets /\ gone \subseteq Sockets
    /\ answers \subseteq [to : Sockets, status : Statuses]

\* afterInit()
Init ==
    /\ userMap = [u \in {} |-> {}]
    /\ clientMap = [s \in {} |-> None]
    /\ connected = {}
    /\ gone = {}
    /\ answers = {}

SocketsOf(u) == IF u \in DOMAIN userMap THEN userMap[u] ELSE {}
UserOf(s) == IF s \in DOMAIN clientMap THEN clientMap[s] ELSE None

\* handleConnection(): a socket without the address of its user is disconnected, and
\* socket.io calls handleDisconnect() for it.
handleConnection(s, u) ==
    /\ s \notin connected \cup gone
    /\ IF u = None
       THEN gone' = gone \cup {s} /\ UNCHANGED <<userMap, clientMap, connected>>
       ELSE /\ connected' = connected \cup {s}
            /\ userMap' = [v \in DOMAIN userMap \cup {u} |->
                              IF v = u THEN SocketsOf(u) \cup {s} ELSE userMap[v]]
            /\ clientMap' = [t \in DOMAIN clientMap \cup {s} |-> IF t = s THEN u ELSE clientMap[t]]
            /\ UNCHANGED gone
    /\ answers' = {}

\* A mutant: the last socket of a user takes only itself away.
UsersWithout(s) == DOMAIN userMap

\* The users that still have a socket when s is gone.
UsersLeft(s) == {v \in DOMAIN userMap : userMap[v] # {s}}

handleDisconnect(s) ==
    /\ s \in connected
    /\ connected' = connected \ {s}
    /\ gone' = gone \cup {s}
    /\ clientMap' = [t \in DOMAIN clientMap \ {s} |-> clientMap[t]]
    /\ userMap' = [v \in UsersLeft(s) |-> userMap[v] \ {s}]
    /\ answers' = {}

\* handleMessage(): to all sockets of the user who is addressed, and a receipt to all
\* sockets of the sender.
handleMessage(s, u) ==
    /\ s \in connected
    /\ answers' = IF SocketsOf(u) # {}
                  THEN [to : SocketsOf(u), status : {"SUCCESS"}]
                          \cup [to : SocketsOf(UserOf(s)), status : {"SEND"}]
                  ELSE [to : SocketsOf(UserOf(s)), status : {"ERROR"}]
    /\ UNCHANGED <<userMap, clientMap, connected, gone>>

Next ==
    \/ \E s \in Sockets, u \in Users \cup {None} : handleConnection(s, u)
    \/ \E s \in Sockets : handleDisconnect(s)
    \/ \E s \in Sockets, u \in Users : handleMessage(s, u)

Spec == Init /\ [][Next]_vars

-----------------------------------------------------------------------------
\* The two maps describe the same pairs, those of the sockets that are connected, and
\* no user without a socket is kept: otherwise users who left would pile up.
GatewayAgrees ==
    /\ DOMAIN clientMap = connected
    /\ \A u \in DOMAIN userMap :
          userMap[u] # {} /\ userMap[u] = {s \in connected : clientMap[s] = u}
    /\ \A s \in connected : clientMap[s] \in DOMAIN userMap
    /\ \A a \in answers : a.to \in connected
=============================================================================
