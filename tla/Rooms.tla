-------------------------------- MODULE Rooms --------------------------------
(***************************************************************************)
(* The rooms of packages/ws/src: WebSocketService of service.ts, the       *)
(* clients of client.ts, and what the Node adapter of runtime/node.ts does *)
(* when a socket opens and closes.  Membership is kept twice, with the     *)
(* client and with the room.  A handler goes on after an await whatever    *)
(* has become of its client meanwhile, so that any call may come at any    *)
(* time.  Left out: data, errors of send(), listeners, and the adapter for *)
(* Bun, which finds no client again once it has registered it.             *)
(***************************************************************************)
EXTENDS Naturals, FiniteSets

CONSTANTS Clients, RoomNames

VARIABLES program,   \* "tidy": rooms only through the service, none for a client that is gone
          socket,    \* "new", "open" or "gone"
          clients,   \* the registry of the service
          joined,    \* the rooms of each client, as the client knows them
          rooms      \* the clients of each room that is in use

vars == <<program, socket, clients, joined, rooms>>

Init ==
    /\ program \in {"tidy", "any"}
    /\ socket = [c \in Clients |-> "new"] /\ clients = {}
    /\ joined = [c \in Clients |-> {}] /\ rooms = <<>>

Members(r) == IF r \in DOMAIN rooms THEN rooms[r] ELSE {}

\* With members \in [Rs -> SUBSET Clients] in place of those of Rs.
After(members, r) == IF r \in DOMAIN members THEN members[r] ELSE Members(r)

\* Mutant: rooms are never deleted.
KeptForEver(members) ==
    [r \in DOMAIN members \union DOMAIN rooms |-> After(members, r)]

\* The registry of rooms then; a room without members is deleted.
Updated(members) ==
    [r \in {x \in DOMAIN members \union DOMAIN rooms : After(members, x) # {}} |->
        After(members, r)]

\* The rooms without a client.
Without(c, rs) == Updated([r \in rs |-> Members(r) \ {c}])

\* on("connection"): register()
Connect(c) ==
    /\ socket[c] = "new"
    /\ socket' = [socket EXCEPT ![c] = "open"]
    /\ clients' = clients \union {c}
    /\ UNCHANGED <<program, joined, rooms>>

\* on("close"): unregister()
Close(c) ==
    /\ socket[c] = "open"
    /\ socket' = [socket EXCEPT ![c] = "gone"]
    /\ clients' = clients \ {c}
    /\ rooms' = Without(c, joined[c])
    /\ UNCHANGED <<program, joined>>

\* Whose rooms a handler may change, which has been given the client once.
Known(c) == socket[c] # "new" /\ (program = "tidy" => socket[c] = "open")

JoinRoom(c, r) ==
    /\ Known(c)
    /\ joined' = [joined EXCEPT ![c] = @ \union {r}]
    /\ rooms' = Updated([x \in {r} |-> Members(x) \union {c}])
    /\ UNCHANGED <<program, socket, clients>>

LeaveRoom(c, r) ==
    /\ Known(c)
    /\ joined' = [joined EXCEPT ![c] = @ \ {r}]
    /\ rooms' = Without(c, {r})
    /\ UNCHANGED <<program, socket, clients>>

LeaveAllRooms(c) ==
    /\ socket[c] # "new"
    /\ rooms' = Without(c, joined[c])
    /\ joined' = [joined EXCEPT ![c] = {}]
    /\ UNCHANGED <<program, socket, clients>>

\* client.joinRoom() and client.leaveRoom(), of which the service hears nothing.
ByClient(c, r) ==
    /\ program = "any" /\ Known(c)
    /\ \/ joined' = [joined EXCEPT ![c] = @ \union {r}]
       \/ joined' = [joined EXCEPT ![c] = @ \ {r}]
    /\ UNCHANGED <<program, socket, clients, rooms>>

Next ==
    \E c \in Clients :
        \/ Connect(c) \/ Close(c) \/ LeaveAllRooms(c)
        \/ \E r \in RoomNames : JoinRoom(c, r) \/ LeaveRoom(c, r) \/ ByClient(c, r)

Spec == Init /\ [][Next]_vars

------------------------------------------------------------------------------
\* broadcastToRoom(), getRoomMembers()
Reached(r) == Members(r) \intersect clients

Open == {c \in Clients : socket[c] = "open"}

TypeOK ==
    /\ program \in {"tidy", "any"} /\ clients \subseteq Clients
    /\ socket \in [Clients -> {"new", "open", "gone"}]
    /\ joined \in [Clients -> SUBSET RoomNames]
    /\ DOMAIN rooms \subseteq RoomNames /\ \A r \in DOMAIN rooms : rooms[r] \subseteq Clients

\* Whatever handlers do, and however late: what is sent to a room reaches open
\* connections only, and a room in use has somebody in it.  In a tidy program the
\* two records of membership agree: a message reaches every open client that has
\* joined, and nothing of a client that is gone is kept
\* (service.ts:50-58, 86-131, 159-170).
RoomsReach ==
    /\ \A r \in RoomNames : Reached(r) \subseteq Open
    /\ \A r \in DOMAIN rooms : rooms[r] # {}
    /\ program = "tidy" =>
          \A r \in RoomNames : Members(r) = {c \in Open : r \in joined[c]}
==============================================================================
