------------------------------- MODULE Policy -------------------------------
(***************************************************************************)
(* Who may do what: principals (principal/principal.go), the capability    *)
(* table and the decisions built on it (policy/), the attributes a         *)
(* decision is given (apiutil/authz.go, domain/peer.go), the ceiling of    *)
(* the conversation list (policy/scope.go with the query it becomes,       *)
(* gormstore/conversation_list.go) and the channels of a socket            *)
(* (realtime/channels.go).  All of it is pure: a decision reads a          *)
(* principal and a row.  Refusals are FALSE; their codes and wording are   *)
(* left out.                                                               *)
(***************************************************************************)
EXTENDS Naturals, FiniteSets

CONSTANTS
    Queues,     \* the queues a tenant has; "support" is built in
    Projects,   \* its translation projects
    Locales     \* the languages of those projects

ASSUME QueuesAssumption == "support" \in Queues /\ "all" \notin Queues

QueueSupport == "support"
ScopeAll == "all"
Kinds == {"support", "peer"}
PlatformRoles == {"owner", "admin", "agent", "translator", "requester"}

RoleScope ==
    [peer : BOOLEAN,
     queues : SUBSET (Queues \cup {ScopeAll}),
     projects : SUBSET (Projects \cup {ScopeAll}),
     locales : SUBSET (Locales \cup {ScopeAll}),
     publish : BOOLEAN]

NoScope == [peer |-> FALSE, queues |-> {}, projects |-> {}, locales |-> {}, publish |-> FALSE]

\* does a set dimension admit a value
Allows(set, value) == ScopeAll \in set \/ value \in set

-----------------------------------------------------------------------------
(* Principals.  `held` maps the roles a member holds to their scopes; the  *)
(* index on (member, role) makes it a function.                            *)

\* Principal: everything a decision reads of an authenticated caller
Principal(kind, id, held) == [kind |-> kind, id |-> id, held |-> held]
NoRoles == [r \in {} |-> NoScope]
ServerKey == Principal("apikey", "", NoRoles)
ForUser(u) == Principal("user", u, NoRoles)
ForAdmin(a, held) == Principal("admin", a, held)

HasRole(p, r) == p.kind = "admin" /\ r \in DOMAIN p.held

\* the scope of a role, the zero scope when it is not held
ScopeOf(p, r) == IF HasRole(p, r) THEN p.held[r] ELSE NoScope

Privileged(p) == HasRole(p, "owner") \/ HasRole(p, "admin")
PeerAccess(p) == ScopeOf(p, "agent").peer

AllQueues(p) == Privileged(p) \/ ScopeAll \in ScopeOf(p, "agent").queues

\* an agent assignment without queues works the support queue
QueuesOf(p) ==
    LET qs == ScopeOf(p, "agent").queues IN
    IF AllQueues(p) THEN Queues
    ELSE IF ~HasRole(p, "agent") THEN {}
    ELSE IF qs = {} THEN {QueueSupport} ELSE qs

ReachesQueue(p, q) == q \in QueuesOf(p)
Operator(p) == Privileged(p) \/ HasRole(p, "agent")
RequesterOnly(p) == ~Operator(p) /\ HasRole(p, "requester")

\* owners and admins open requests anywhere a requester could
RequesterQueues(p) ==
    LET qs == ScopeOf(p, "requester").queues IN
    IF Privileged(p) \/ ScopeAll \in qs THEN Queues ELSE qs

\* but a support conversation only for an end user, never for themselves
RequesterReaches(p, q) ==
    /\ ~(Privileged(p) /\ q = QueueSupport)
    /\ q \in RequesterQueues(p)

-----------------------------------------------------------------------------
(* The capability table (policy/action.go).                                *)

EveryTalker == {"apiKey", "user", "admin", "requester"}

\* the actions that name a conversation
ConversationActions ==
    {"conversations.read", "conversations.close", "messages.read", "messages.send",
     "receipts.write", "typing.write", "assignments.create", "assignments.claim",
     "assignments.close"}

TalkActions ==
    {"conversations.list", "conversations.read", "conversations.create_support",
     "messages.read", "messages.send", "receipts.write", "typing.write", "uploads.issue",
     "brands.read_active", "translations.fetch"}
ServerActions ==
    {"conversations.create_peer", "members.manage", "members.remap", "tokens.mint",
     "push_recipients.manage"}
OperatorActions == {"assignments.claim", "assignments.close", "contacts.list", "contacts.read"}
PrivilegedActions ==
    {"brands.read", "brands.write", "settings.read", "settings.write", "api_keys.manage",
     "webhooks.manage", "webhooks.read_deliveries", "team.manage", "translations.manage"}
OwnerActions == {"push_config.manage", "identity.manage"}
SignedActions == {"uploads.write", "uploads.read"}
DraftActions == {"translations.write", "translations.publish"}
NoteActions == {"notes.read", "notes.write"}

Actions ==
    TalkActions \cup ServerActions \cup OperatorActions \cup PrivilegedActions
        \cup OwnerActions \cup SignedActions \cup DraftActions \cup NoteActions
        \cup {"conversations.close", "assignments.create", "contacts.write", "realtime.token",
              "principal.read", "push_tokens.manage", "translations.read"}

\* capabilities: who an action is granted to
capabilities(a) ==
    CASE a \in TalkActions -> EveryTalker
      [] a \in ServerActions -> {"apiKey"}
      [] a \in OperatorActions -> {"admin"}
      [] a \in PrivilegedActions -> {"adminPriv"}
      [] a \in OwnerActions -> {"owner"}
      [] a \in SignedActions -> {"signed"}
      [] a \in DraftActions -> {"adminPriv", "translator"}
      [] a \in NoteActions \cup {"assignments.create"} -> {"apiKey", "admin"}
      [] a = "conversations.close" -> {"apiKey", "admin", "requester"}
      [] a = "contacts.write" -> {"apiKey", "user"}
      [] a = "realtime.token" -> {"admin", "requester"}
      [] a = "principal.read" -> EveryTalker \cup {"translator"}
      [] a = "push_tokens.manage" -> {"user"}
      [] a = "translations.read" -> {"admin", "translator"}
      [] OTHER -> {}

\* one platform role; translator and requester stand alone
roleHolds(g, r) ==
    CASE r \in {"translator", "requester"} -> r \in g
      [] "owner" \in g -> r = "owner"
      [] "adminPriv" \in g -> r \in {"owner", "admin"}
      [] OTHER -> "admin" \in g

AdminRoles(a) == {r \in PlatformRoles : roleHolds(capabilities(a), r)}
AdminOnly(a) == capabilities(a) \cap {"apiKey", "user", "signed"} = {}

\* a member's roles only ever widen each other
holds(p, a) ==
    CASE p.kind = "apikey" -> "apiKey" \in capabilities(a)
      [] p.kind = "user" -> "user" \in capabilities(a)
      [] p.kind = "signed" -> "signed" \in capabilities(a)
      [] p.kind = "admin" -> \E r \in DOMAIN p.held : roleHolds(capabilities(a), r)
      [] OTHER -> FALSE

-----------------------------------------------------------------------------
(* One conversation (policy/policy.go).  A decision is given the           *)
(* attributes [kind, reachable, isMember, queue] of a conversation.        *)

\* the operator rules: peer access, or a queue one works
operates(p, r) ==
    /\ ~RequesterOnly(p)
    /\ IF r.kind = "peer" THEN PeerAccess(p)
       ELSE Privileged(p) \/ (ReachesQueue(p, r.queue) /\ r.reachable)

\* a requester reaches their own requests for what that role grants
ownRequest(p, a, r) ==
    /\ "requester" \in capabilities(a) /\ HasRole(p, "requester")
    /\ r.kind # "peer" /\ r.isMember /\ RequesterReaches(p, r.queue)

authorizeConversation(p, a, r) ==
    CASE p.kind = "apikey" -> TRUE
      [] p.kind = "admin" -> ownRequest(p, a, r) \/ operates(p, r)
      [] p.kind = "user" -> r.isMember
      [] OTHER -> FALSE

Authorize(p, a, r) ==
    holds(p, a) /\ (a \in ConversationActions => authorizeConversation(p, a, r))

NoResource == [kind |-> "support", reachable |-> FALSE, isMember |-> FALSE, queue |-> QueueSupport]

\* internal notes: as someone who operates the conversation, never as its requester
Internal(p, a, r) == holds(p, a) /\ (p.kind = "apikey" \/ (p.kind = "admin" /\ operates(p, r)))

-----------------------------------------------------------------------------
(* The attributes come from the row c = [kind, queue, archived, assigned,  *)
(* users, actors, snapshot]: its columns, whether it has an assignment,    *)
(* its active members, and the user ids of its tombstone.                  *)

\* classifyConv: an archived support conversation is open to every agent
classifyConv(c, needSupport) ==
    [peer |-> c.kind = "peer",
     supportOK |-> c.kind # "peer" /\ (c.archived \/ (needSupport /\ c.assigned))]

IsMember(c, u) == u \in c.users
IsActorMember(c, a) == a \in c.actors
IsArchivedMember(c, u) == u \in c.users \/ u \in c.snapshot

\* only what the branch of this principal needs is read
conversationAttrs(p, c) ==
    LET access == classifyConv(c, ~Privileged(p)) IN
    CASE p.kind = "apikey" -> NoResource
      [] p.kind = "admin" ->
           [kind |-> c.kind, queue |-> c.queue, reachable |-> access.supportOK,
            isMember |-> HasRole(p, "requester") /\ IsActorMember(c, p.id)]
      [] OTHER -> [NoResource EXCEPT !.isMember = IsMember(c, p.id) \/ IsArchivedMember(c, p.id)]

AuthorizeConversation(p, a, c) == Authorize(p, a, conversationAttrs(p, c))
InternalOn(p, a, c) == Internal(p, a, conversationAttrs(p, c))

\* lists and search leave internal notes out for a member who is also a requester
InternalInLists(p) == holds(p, "notes.read") /\ ~HasRole(p, "requester")

-----------------------------------------------------------------------------
(* The ceiling of a collection (policy/scope.go) and the rows it admits.   *)

OpenCeiling ==
    [kinds |-> Kinds, queues |-> Queues, user |-> FALSE, actor |-> FALSE,
     needsAssignment |-> FALSE, own |-> {}]

\* Scope: the rows the caller may see, before any filter; nothing when it holds no right
Ceiling(p) ==
    CASE p.kind = "user" -> [OpenCeiling EXCEPT !.user = TRUE]
      [] p.kind = "admin" /\ RequesterOnly(p) ->
           [OpenCeiling EXCEPT !.kinds = {"support"}, !.actor = TRUE, !.queues = RequesterQueues(p)]
      [] p.kind = "admin" /\ ~RequesterOnly(p) ->
           [OpenCeiling EXCEPT !.kinds = IF PeerAccess(p) THEN Kinds ELSE {"support"},
                               !.needsAssignment = ~Privileged(p),
                               !.queues = QueuesOf(p),
                               !.own = IF Privileged(p) THEN {} ELSE RequesterQueues(p)]
      [] OTHER -> OpenCeiling

\* a requester without a queue is denied everything
Scoped(p, a) == holds(p, a) /\ ~(RequesterOnly(p) /\ RequesterQueues(p) = {})

\* mutant: the ceiling forgets the assignment an agent needs
applyCeilingAnyAssignment(s, p, c) ==
    /\ c.kind \in s.kinds
    /\ s.user => IsMember(c, p.id)
    /\ s.actor => IsActorMember(c, p.id)
    /\ c.kind = "peer" \/ c.queue \in s.queues

applyCeiling(s, p, c) ==
    /\ c.kind \in s.kinds
    /\ s.user => IsMember(c, p.id)
    /\ s.actor => IsActorMember(c, p.id)
    /\ c.kind = "peer" \/ c.queue \in s.queues
    /\ s.needsAssignment => c.kind # "support" \/ c.assigned \/ c.archived

\* an operator who is also a requester: the ceiling, or their own requests
applyScope(s, p, c) ==
    \/ applyCeiling(s, p, c)
    \/ c.kind = "support" /\ IsActorMember(c, p.id) /\ c.queue \in s.own

\* conversationRepo.List without filters
Lists(p, c) == Scoped(p, "conversations.list") /\ applyScope(Ceiling(p), p, c)

\* the ceiling the search is given: it cannot express the union with own
\* requests, so it drops the queues and leaves them to the list that loads the hits
SearchCeiling(p) ==
    LET s == Ceiling(p) IN IF s.own = {} THEN s ELSE [s EXCEPT !.queues = Queues]

\* the ceiling as the search's query has it
buildFilters(s, p, c) ==
    /\ c.kind \in s.kinds
    /\ s.user => IsMember(c, p.id)
    /\ s.actor => IsActorMember(c, p.id)
    /\ c.kind = "peer" \/ c.queue \in s.queues
    /\ s.needsAssignment => c.kind # "support" \/ c.archived \/ c.assigned

Searches(p, c) == Scoped(p, "conversations.list") /\ buildFilters(SearchCeiling(p), p, c)

\* the contacts a conversation leads to: own requests are not among the ways
contactBase(s, p, c) ==
    /\ c.users # {} /\ c.kind \in s.kinds
    /\ s.user => IsMember(c, p.id)
    /\ c.kind = "peer" \/ c.queue \in s.queues
    /\ s.actor => IsActorMember(c, p.id)
    /\ s.needsAssignment => c.kind # "support" \/ c.assigned \/ c.archived

ListsContactsOf(p, c) == Scoped(p, "contacts.list") /\ contactBase(Ceiling(p), p, c)

-----------------------------------------------------------------------------
(* Translations (policy/translation.go).                                   *)

holdsWithoutTranslator(p, a) ==
    \E r \in DOMAIN p.held \ {"translator"} : roleHolds(capabilities(a), r)

\* a release is project-wide, so it takes every language
publishable(scope) == scope.publish /\ ScopeAll \in scope.locales

\* the translator scope narrows only what no other role grants; "" is project-wide
AuthorizeTranslation(p, a, project, locale) ==
    LET scope == ScopeOf(p, "translator") IN
    /\ Authorize(p, a, NoResource)
    /\ \/ ~HasRole(p, "translator") \/ holdsWithoutTranslator(p, a)
       \/ /\ Allows(scope.projects, project)
          /\ locale = "" \/ Allows(scope.locales, locale)
          /\ a = "translations.publish" => publishable(scope)

MayPublish(p, project) == AuthorizeTranslation(p, "translations.publish", project, "")

\* the actions a principal is told it holds
Grants(p) ==
    {a \in Actions :
        /\ holds(p, a)
        /\ (/\ a = "translations.publish" /\ HasRole(p, "translator")
            /\ ~holdsWithoutTranslator(p, a)) => publishable(ScopeOf(p, "translator"))}

-----------------------------------------------------------------------------
(* The dimensions a role's scope may carry (policy/roles.go).              *)

Dimensions(r) ==
    CASE r = "agent" -> {"peer", "queues"}
      [] r = "translator" -> {"projects", "locales", "publish"}
      [] r = "requester" -> {"queues"}
      [] OTHER -> {}

\* the typed scope: a dimension that is empty or false is not in the document
Used(s) ==
    {d \in {"peer", "publish"} : s[d]} \cup {d \in {"queues", "projects", "locales"} : s[d] # {}}

ValidateScope(r, s) == Used(s) \subseteq Dimensions(r)

-----------------------------------------------------------------------------
(* Realtime channels (realtime/channels.go, centrifuge.go).                *)

Channel(kind, name) == <<kind, name>>
ConvChannel(c) == Channel("conv", c)
UserChannel(u) == Channel("user", u)
AgentsChannel == Channel("agents", "")
PeerChannel == Channel("peer", "")
QueueChannel(q) == Channel("queue", q)

\* operators: the channel of those who work a queue
operators(q) == IF q = QueueSupport THEN AgentsChannel ELSE QueueChannel(q)

\* AgentChannels: an operator's socket follows queues; a requester's its own
\* conversations, given as a set of [id, queue, kind]
AgentChannels(p, defined, own) ==
    LET followed == {c \in own : c.kind # "peer" /\ RequesterReaches(p, c.queue)
                                  /\ ~ReachesQueue(p, c.queue)} IN
    IF ~Scoped(p, "conversations.list") THEN {}
    ELSE {UserChannel(p.id)}
         \cup (IF HasRole(p, "requester") THEN {ConvChannel(c.id) : c \in followed} ELSE {})
         \cup (IF RequesterOnly(p) THEN {}
               ELSE {operators(q) : q \in QueuesOf(p) \cap
                                       (IF AllQueues(p) THEN defined \cup {QueueSupport} ELSE Queues)}
                    \cup (IF PeerAccess(p) THEN {PeerChannel} ELSE {}))

\* emitObserved: the channel of the operators who may read the conversation
Observers(c) ==
    LET access == classifyConv(c, TRUE) IN
    IF access.peer THEN {PeerChannel}
    ELSE IF access.supportOK THEN {operators(c.queue)} ELSE {}

\* channelsFor: an internal note reaches no client channel
channelsFor(c, id, users, internal) ==
    Observers(c) \cup (IF internal THEN {}
                       ELSE {ConvChannel(id)} \cup {UserChannel(u) : u \in users})
=============================================================================
