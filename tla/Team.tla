-------------------------------- MODULE Team --------------------------------
(***************************************************************************)
(* The team of a tenant: role assignments and the requests that change     *)
(* them (api/admin.go, domain/admin.go, gormstore/rbac.go), the queues     *)
(* (SetQueue), and the sockets of the members, whose channel set is        *)
(* computed at the connect (realtime/node.go) and then kept up to date by  *)
(* every request that grants, revokes or opens something.                  *)
(*                                                                         *)
(* One conversation changes next to it, so that what a member may list,    *)
(* read and hear can be compared while roles and rows move.  Rows are      *)
(* written in one place and sockets in another, with reads in between: a   *)
(* request is a sequence of steps next to other requests.                  *)
(***************************************************************************)
EXTENDS Policy

CONSTANTS
    Crew,       \* people who are, or may become, members of the team
    TeamSeeds,  \* roles, queues and the conversation at the start
    Grant,      \* the <<role, scope>> pairs a request may write
    Visitor,    \* an end user
    Calls,      \* slots for requests in flight
    MaxCalls    \* bound: requests

\* the roles of a member, and the row of a conversation (the attributes Policy reads)
RolesTyped(h) == DOMAIN h \subseteq PlatformRoles /\ h \in [DOMAIN h -> RoleScope]
ChatRow ==
    [kind : Kinds, queue : Queues, archived : BOOLEAN, assigned : BOOLEAN,
     users : SUBSET {Visitor}, actors : SUBSET Crew, snapshot : SUBSET {Visitor}]

\* a tenant has an owner, only members hold roles, and a request of a member's
\* own has its assignment from the start
ASSUME CrewAssumption ==
    /\ Visitor \notin Crew /\ Grant \subseteq PlatformRoles \X RoleScope /\ MaxCalls \in Nat
    /\ \A s \in TeamSeeds :
          /\ s.roles = [a \in Crew |-> s.roles[a]] /\ s.hired \subseteq Crew
          /\ \A a \in Crew : RolesTyped(s.roles[a]) /\ (a \notin s.hired => DOMAIN s.roles[a] = {})
          /\ \E a \in Crew : "owner" \in DOMAIN s.roles[a]
          /\ s.defined \subseteq Queues \ {QueueSupport}
          /\ s.chat \in ChatRow
          /\ s.chat.kind = "support" /\ s.chat.actors # {} => s.chat.assigned \/ s.chat.archived

VARIABLES
    hired,    \* the members of the team
    roles,    \* role assignments of each member
    defined,  \* the queues the tenant has defined
    chat,     \* the conversation
    socket,   \* the channels of each member's socket, Off without one
    call,     \* requests in flight
    calls,    \* requests so far
    mixed,    \* history: members whose socket was written by requests that
              \* overlapped, or by one that gave up, since they connected
    kept      \* history: members given the conversation's channel by opening
              \* it although their roles do not give it to them

teamVars == <<hired, roles, defined, chat, socket, call, calls, mixed, kept>>

Off == {Channel("off", "")}
ChatId == "chat"

\* a conversation of nobody, before it is opened
NoChat == [kind |-> "support", queue |-> QueueSupport, archived |-> FALSE, assigned |-> FALSE,
           users |-> {}, actors |-> {}, snapshot |-> {}]

NoCall == [op |-> "idle", pc |-> "start", who |-> CHOOSE a \in Crew : TRUE, how |-> "add",
           role |-> "agent", scope |-> NoScope, queue |-> QueueSupport,
           before |-> NoRoles, after |-> NoRoles]

TeamTypeOK ==
    /\ \A a \in Crew : RolesTyped(roles[a])
    /\ defined \subseteq Queues \ {QueueSupport}
    /\ hired \subseteq Crew /\ \A a \in Crew \ hired : roles[a] = NoRoles /\ socket[a] = Off
    /\ DOMAIN socket = Crew /\ DOMAIN call = Calls
    /\ mixed \subseteq Crew /\ kept \subseteq Crew

TeamInit ==
    /\ \E s \in TeamSeeds : roles = s.roles /\ hired = s.hired /\ defined = s.defined /\ chat = s.chat
    /\ socket = [a \in Crew |-> Off]
    /\ call = [k \in Calls |-> NoCall]
    /\ calls = 0
    /\ mixed = {} /\ kept = {}

-----------------------------------------------------------------------------
held(a) == ForAdmin(a, roles[a])

\* ListActiveConversationsForActor: a member row, whatever the status
ownChats(a) ==
    IF a \in chat.actors THEN {[id |-> ChatId, queue |-> chat.queue, kind |-> chat.kind]} ELSE {}

\* the channels of a principal with what the tenant has now
ChannelsNow(p) == AgentChannels(p, defined, ownChats(p.id))

\* the members whose sockets a request writes
Touches(c) == IF c.op = "queue" THEN Crew ELSE IF c.op = "idle" THEN {} ELSE {c.who}

Overlap(k, c) == Touches(c) \cap UNION {Touches(call[o]) : o \in Calls \ {k}}

Enter(k, c) ==
    /\ call[k].op = "idle" /\ calls < MaxCalls
    /\ calls' = calls + 1
    /\ call' = [call EXCEPT ![k] = c]
    /\ mixed' = mixed \cup Overlap(k, c)

Leave(k) == call' = [call EXCEPT ![k] = NoCall]

\* the process dies, or a read or publish fails: the rest of the request is lost
GiveUp(k) ==
    /\ call[k].op # "idle"
    /\ mixed' = mixed \cup Touches(call[k])
    /\ Leave(k)
    /\ UNCHANGED <<hired, roles, defined, chat, socket, calls, kept>>

-----------------------------------------------------------------------------
(* Role assignments.                                                       *)

\* only an owner appoints an owner or touches an owner's record
guardOwnerMutation(p, target, role) ==
    HasRole(p, "owner") \/ (role # "owner" /\ "owner" \notin DOMAIN roles[target])

\* peer conversations are the owner's to give
guardScopeGrant(p, scope) == scope.peer => HasRole(p, "owner")

\* a scope names dimensions of its role and queues the tenant has
checkScope(role, scope) ==
    ValidateScope(role, scope) /\ scope.queues \subseteq defined \cup {QueueSupport, ScopeAll}

\* what the handlers that give a role check of the caller
mayGrant(b, a, g) ==
    /\ holds(held(b), "team.manage")
    /\ guardOwnerMutation(held(b), a, g[1]) /\ guardScopeGrant(held(b), g[2])

\* POST and PUT /v1/team/:id/roles, authorized; then `before` is read
putAssignment(k) ==
    \E b \in Crew, a \in hired, g \in Grant, how \in {"add", "rescope"} :
        /\ Enter(k, [NoCall EXCEPT !.op = "role", !.pc = "write", !.who = a, !.how = how,
                                   !.role = g[1], !.scope = g[2], !.before = roles[a]])
        /\ mayGrant(b, a, g) /\ checkScope(g[1], g[2])
        /\ UNCHANGED <<hired, roles, defined, chat, socket, kept>>

\* DELETE /v1/team/:id/roles/:role
removeRole(k) ==
    \E b, a \in Crew : \E r \in DOMAIN roles[a] :
        /\ Enter(k, [NoCall EXCEPT !.op = "role", !.pc = "write", !.who = a, !.how = "remove",
                                   !.role = r, !.before = roles[a]])
        /\ holds(held(b), "team.manage") /\ guardOwnerMutation(held(b), a, r)
        /\ UNCHANGED <<hired, roles, defined, chat, socket, kept>>

Holding(a, r) == r \in DOMAIN roles[a]

\* the role as it will be held
Given(c) ==
    [roles EXCEPT ![c.who] = [r \in DOMAIN @ \cup {c.role} |-> IF r = c.role THEN c.scope ELSE @[r]]]

\* a second row is refused by the unique index; only a row there is can be rescoped
Create(c) == ~Holding(c.who, c.role) /\ roles' = Given(c)
Rescope(c) == Holding(c.who, c.role) /\ roles' = Given(c)

writeAssignment(c) == IF c.how = "add" THEN Create(c) ELSE Rescope(c)

\* the member and the one role, in one transaction; nobody has a socket yet
createMember(a, g) ==
    /\ a \notin hired /\ checkScope(g[1], g[2])
    /\ hired' = hired \cup {a}
    /\ roles' = [roles EXCEPT ![a] = [r \in {g[1]} |-> g[2]]]

\* POST /v1/team, and a service account alike
InviteAgent ==
    \E b, a \in Crew, g \in Grant :
        /\ calls < MaxCalls /\ calls' = calls + 1
        /\ mayGrant(b, a, g)
        /\ createMember(a, g)
        /\ UNCHANGED <<defined, chat, socket, call, mixed, kept>>

\* mutant: the one who leaves is counted
AnyOwner(a) == \E b \in Crew : Holding(b, "owner")

\* the owners a delete leaves behind, read under the lock of the delete
OtherOwner(a) == \E b \in Crew \ {a} : Holding(b, "owner")

Delete(c) ==
    /\ Holding(c.who, c.role)
    /\ c.role = "owner" => OtherOwner(c.who)
    /\ roles' = [roles EXCEPT ![c.who] = [r \in DOMAIN @ \ {c.role} |-> @[r]]]

\* a write that is refused ends the request; one that lands goes on to the socket
WriteRole(k) ==
    LET c == call[k] IN
    /\ c.op = "role" /\ c.pc = "write"
    /\ \/ /\ IF c.how = "remove" THEN Delete(c) ELSE writeAssignment(c)
          /\ call' = [call EXCEPT ![k].pc = "after"]
       \/ /\ IF c.how = "remove"
             THEN ~Holding(c.who, c.role) \/ (c.role = "owner" /\ ~OtherOwner(c.who))
             ELSE (c.how = "add") = Holding(c.who, c.role)
          /\ Leave(k) /\ UNCHANGED roles
    /\ UNCHANGED <<hired, defined, chat, socket, calls, mixed, kept>>

ReadAfter(k) ==
    /\ call[k].op = "role" /\ call[k].pc = "after"
    /\ call' = [call EXCEPT ![k].after = roles[call[k].who], ![k].pc = "apply"]
    /\ UNCHANGED <<hired, roles, defined, chat, socket, calls, mixed, kept>>

\* a live subscription: nothing happens to a member without a socket
Sub(a, add, drop) ==
    socket' = IF socket[a] = Off THEN socket ELSE [socket EXCEPT ![a] = (@ \cup add) \ drop]

\* mutant: a grant reaches the socket, a revoke waits for the reconnect
ReconcileGrantsOnly(k) ==
    LET c == call[k] IN
    /\ c.op = "role" /\ c.pc = "apply"
    /\ Sub(c.who, ChannelsNow(ForAdmin(c.who, c.after)) \ ChannelsNow(ForAdmin(c.who, c.before)), {})
    /\ Leave(k)
    /\ UNCHANGED <<hired, roles, defined, chat, calls, mixed, kept>>

\* what the write moved, with the queues and conversations there are now
reconcileSubscriptions(k) ==
    LET c == call[k]
        was == ChannelsNow(ForAdmin(c.who, c.before))
        now == ChannelsNow(ForAdmin(c.who, c.after)) IN
    /\ c.op = "role" /\ c.pc = "apply"
    /\ Sub(c.who, now \ was, was \ now)
    /\ Leave(k)
    /\ UNCHANGED <<hired, roles, defined, chat, calls, mixed, kept>>

-----------------------------------------------------------------------------
(* Sockets.                                                                *)

\* OnConnecting: the roles are read first, the queues and conversations next
Connect(k) ==
    \E a \in Crew :
        /\ socket[a] = Off /\ holds(held(a), "realtime.token")
        /\ Enter(k, [NoCall EXCEPT !.op = "connect", !.pc = "load", !.who = a, !.before = roles[a]])
        /\ UNCHANGED <<hired, roles, defined, chat, socket, kept>>

\* a principal without any right to list is refused
agentSubscriptions(k) ==
    LET c == call[k]
        subs == ChannelsNow(ForAdmin(c.who, c.before)) IN
    /\ c.op = "connect" /\ c.pc = "load"
    /\ socket' = IF subs = {} THEN socket ELSE [socket EXCEPT ![c.who] = subs]
    /\ Leave(k)
    /\ UNCHANGED <<hired, roles, defined, chat, calls, mixed, kept>>

Disconnect(a) ==
    /\ socket[a] # Off
    /\ \A k \in Calls : a \notin Touches(call[k])
    /\ socket' = [socket EXCEPT ![a] = Off]
    /\ mixed' = mixed \ {a} /\ kept' = kept \ {a}
    /\ UNCHANGED <<hired, roles, defined, chat, call, calls>>

-----------------------------------------------------------------------------
(* Queues.                                                                 *)

SetQueue(k) ==
    \E b \in Crew, q \in Queues \ {QueueSupport} :
        /\ holds(held(b), "settings.write")
        /\ Enter(k, [NoCall EXCEPT !.op = "queue", !.pc = "apply", !.queue = q])
        /\ defined' = defined \cup {q}
        /\ UNCHANGED <<hired, roles, chat, socket, kept>>

\* the sockets of the members who reach every queue
subscribeQueueOperators(k) ==
    LET ch == QueueChannel(call[k].queue)
        reach(a) == AllQueues(held(a)) /\ ch \in AgentChannels(held(a), {call[k].queue}, {}) IN
    /\ call[k].op = "queue" /\ call[k].pc = "apply"
    /\ socket' = [a \in Crew |-> IF socket[a] # Off /\ reach(a) THEN socket[a] \cup {ch} ELSE socket[a]]
    /\ Leave(k)
    /\ UNCHANGED <<hired, roles, defined, chat, calls, mixed, kept>>

-----------------------------------------------------------------------------
(* The conversation.                                                       *)

Opened == chat.users # {} \/ chat.actors # {}

\* a request a member opens for themselves: the row, then the subscription
OpenRequest(k) ==
    \E a \in Crew, q \in defined \cup {QueueSupport} :
        /\ ~Opened
        /\ holds(held(a), "conversations.create_support") /\ RequesterReaches(held(a), q)
        /\ Enter(k, [NoCall EXCEPT !.op = "open", !.pc = "apply", !.who = a])
        /\ chat' = [NoChat EXCEPT !.queue = q, !.actors = {a}, !.assigned = TRUE]
        /\ UNCHANGED <<hired, roles, defined, socket, kept>>

FollowRequest(k) ==
    LET a == call[k].who IN
    /\ call[k].op = "open" /\ call[k].pc = "apply"
    /\ Sub(a, {ConvChannel(ChatId)}, {})
    /\ kept' = IF socket[a] # Off /\ ConvChannel(ChatId) \notin ChannelsNow(held(a))
               THEN kept \cup {a} ELSE kept
    /\ Leave(k)
    /\ UNCHANGED <<hired, roles, defined, chat, calls, mixed>>

\* an operator steps into a peer conversation (Desk has the steps of it)
JoinPeer(a) ==
    /\ Opened /\ chat.kind = "peer"
    /\ AuthorizeConversation(held(a), "messages.send", chat)
    /\ chat' = [chat EXCEPT !.actors = @ \cup {a}]
    /\ UNCHANGED <<hired, roles, defined, socket, call, calls, mixed, kept>>

\* the first assignment of a conversation that has none
Assign ==
    /\ Opened /\ chat.kind = "support" /\ ~chat.assigned /\ ~chat.archived
    /\ chat' = [chat EXCEPT !.assigned = TRUE]
    /\ UNCHANGED <<hired, roles, defined, socket, call, calls, mixed, kept>>

\* PurgeHot: assignments go, members stay, the tombstone names the users
Archive ==
    /\ Opened /\ ~chat.archived
    /\ chat' = [chat EXCEPT !.archived = TRUE, !.assigned = FALSE, !.snapshot = chat.users]
    /\ UNCHANGED <<hired, roles, defined, socket, call, calls, mixed, kept>>

-----------------------------------------------------------------------------
TeamNext ==
    \/ \E k \in Calls :
         \/ putAssignment(k) \/ removeRole(k) \/ WriteRole(k) \/ ReadAfter(k)
         \/ reconcileSubscriptions(k) \/ Connect(k) \/ agentSubscriptions(k)
         \/ SetQueue(k) \/ subscribeQueueOperators(k)
         \/ OpenRequest(k) \/ FollowRequest(k) \/ GiveUp(k)
    \/ \E a \in Crew : Disconnect(a) \/ JoinPeer(a)
    \/ InviteAgent \/ Assign \/ Archive

TeamSpec == TeamInit /\ [][TeamNext]_teamVars

-----------------------------------------------------------------------------
\* nothing that writes the member's socket is under way, and nothing overlapped
Settled(a) ==
    /\ socket[a] # Off /\ a \notin mixed
    /\ \A k \in Calls : a \notin Touches(call[k])

(* A tenant is never left without an owner, whatever requests remove roles *)
(* at the same time: only an owner appoints another.                       *)
KeepsAnOwner == \E a \in Crew : Holding(a, "owner")

(* Rows and sockets have their types, and the tenant has an owner.         *)
TeamInv == TeamTypeOK /\ KeepsAnOwner

(* An open socket follows the member's roles, the tenant's queues and the  *)
(* member's own requests without a reconnect, in both directions; the one  *)
(* channel more it may have is that of a request the member opened.        *)
SocketFollowsRoles ==
    \A a \in Crew : Settled(a) =>
        /\ ChannelsNow(held(a)) \subseteq socket[a]
        /\ socket[a] \ ChannelsNow(held(a)) \subseteq
              (IF a \in kept THEN {ConvChannel(ChatId)} ELSE {})

(* What a socket is sent is what its owner could read over REST, internal  *)
(* notes only where notes may be read; a member who opened a request as an *)
(* operator of its queue keeps that channel until the socket closes.       *)
HeardIsReadable ==
    \A a \in Crew, internal \in BOOLEAN :
        /\ Settled(a) /\ Opened
        /\ a \notin kept \/ internal
        /\ socket[a] \cap channelsFor(chat, ChatId, chat.users, internal) # {}
        => IF internal THEN InternalOn(held(a), "notes.read", chat)
           ELSE AuthorizeConversation(held(a), "messages.read", chat)

(* A conversation in a member's or an end user's list can be opened: the   *)
(* ceiling of the list, a query, admits no row the decision on one row     *)
(* would refuse.                                                           *)
ListedIsReadable ==
    Opened => \A p \in {held(a) : a \in Crew} \cup {ForUser(Visitor), ServerKey} :
        Lists(p, chat) \/ ListsContactsOf(p, chat) =>
            AuthorizeConversation(p, "conversations.read", chat)

(* Search and list, two queries with the same ceiling, agree: search finds *)
(* whatever the list shows, and nothing else but for a member with own     *)
(* requests, whose page the list thins out.                                *)
SearchAgrees ==
    Opened => \A p \in {held(a) : a \in Crew} \cup {ForUser(Visitor), ServerKey} :
        IF Lists(p, chat) THEN Searches(p, chat)
        ELSE Ceiling(p).own # {} \/ ~Searches(p, chat)

(* The socket, the list, the search and the contacts never show a          *)
(* conversation the caller may not read, and the search finds what the     *)
(* list shows.                                                             *)
ShownIsReadable == HeardIsReadable /\ ListedIsReadable /\ SearchAgrees
=============================================================================
