-------------------------------- MODULE Desk --------------------------------
(***************************************************************************)
(* Conversations, members, assignments and read receipts, and the requests *)
(* that change them (api/, domain/, gormstore/conversation.go).  A request *)
(* is authorized when it starts and then goes through its reads and writes *)
(* one by one, next to other requests; a process may die between any two,  *)
(* and a statement may fail.  The settings of a queue stay as they are.    *)
(*                                                                         *)
(* A person's active member rows are counted: no index makes them unique.  *)
(* A user's row carries the client role, an operator's row in a peer       *)
(* conversation the support role, a requester's own row the client role.   *)
(* Idempotent retries of a send are in Thread, archival in ArchiveSweep.   *)
(* The webhook rows that requests write are the input of WebhookRelay and  *)
(* are kept here for closings only; the events sent to sockets are left    *)
(* out, who gets them is in Team.                                          *)
(***************************************************************************)
EXTENDS Policy, Sequences

CONSTANTS
    Convs,        \* conversations, open, peer and not yet created
    Users,        \* end users, by external id
    Admins,       \* members of the tenant's team
    Key,          \* the tenant's server key
    Held,         \* the roles of each admin
    Requeues,     \* the queues with RequeueOnReply
    Silent,       \* the queues with Webhooks off
    Reqs,         \* slots for concurrent requests
    Seeds,        \* what may be stored at the start
    MaxRequests,  \* bound: requests started
    MaxFaults     \* bound: processes that die and statements that fail

ASSUME DeskAssumption ==
    /\ Requeues \cup Silent \subseteq Queues \ {QueueSupport}
    /\ Users \cap Admins = {} /\ Key \notin Users \cup Admins
    /\ DOMAIN Held = Admins
    /\ IsFiniteSet(Convs) /\ Convs # {} /\ IsFiniteSet(Users \cup Admins)
    /\ {MaxRequests, MaxFaults} \subseteq Nat

VARIABLES
    conv,      \* the conversation rows
    rows,      \* how many active member rows each person has
    asg,       \* the assignments, in the order of their creation
    receipts,  \* the read receipts, in the order of their creation
    log,       \* the number of messages of each conversation
    notes,     \* history: join notes posted for each operator
    closings,  \* history: conversation.closed events written
    granted,   \* history: <<assignment, operator>> told the claim is theirs
    raced,     \* history: <<operation, conversation>> that ran twice at once,
               \* and what failed there
    req,       \* the requests in flight
    started, faults

rowVars == <<conv, rows, asg, receipts, log>>
histVars == <<notes, closings, granted>>
vars == <<rowVars, histVars, raced, req, started, faults>>

People == Users \cup Admins
Callers == People \cup {Key}

ConvRow == [status : {"none", "open", "closed"}, kind : Kinds, queue : Queues]
Assignment == [conv : Convs, status : {"queued", "assigned", "closed"}, who : Admins \cup {Key}]
Receipt == [conv : Convs, who : Callers, last : Nat]

\* a request: what it does, where it is, who asks, and what it has read
Request ==
    [op : {"idle", "create", "remove", "close", "claim", "finish", "send", "peer", "read"},
     pc : {"start", "count", "insert", "get", "remove", "close", "fire", "write", "reread",
           "look", "queue", "join", "note", "find", "save"},
     by : Callers, c : Convs, who : Callers, n : Nat,
     seen : Nat, row : ConvRow, limit : BOOLEAN, members : SUBSET People]

NoRow == [status |-> "none", kind |-> "support", queue |-> QueueSupport]
Idle ==
    [op |-> "idle", pc |-> "start", by |-> Key, c |-> CHOOSE c \in Convs : TRUE, who |-> Key,
     n |-> 0, seen |-> 0, row |-> NoRow, limit |-> FALSE, members |-> {}]

\* what is stored at the start: conversations that are open or not there yet, with
\* the members and assignments the operations below give them
ASSUME SeedsAssumption ==
    \A s \in Seeds :
        /\ s.conv \in [Convs -> ConvRow] /\ s.members \in [Convs -> SUBSET People]
        /\ s.asg \in Seq(Assignment)
        /\ \A c \in Convs :
             /\ s.conv[c].status # "closed"
             /\ s.conv[c].status = "open" => s.members[c] # {}
             /\ s.conv[c].kind = "peer" => s.members[c] \subseteq Users
        /\ \A i \in DOMAIN s.asg :
             /\ s.conv[s.asg[i].conv].status # "none"
             /\ s.asg[i].status = "queued" => s.asg[i].who = Key
             /\ \A j \in DOMAIN s.asg :
                  i < j /\ s.asg[i].conv = s.asg[j].conv => s.asg[i].status = "closed"
        /\ \A a \in Admins, c, d \in Convs :
             /\ a \in s.members[c] \cap s.members[d] /\ s.conv[c].queue = s.conv[d].queue
             /\ s.conv[c].status = "open" /\ s.conv[d].status = "open"
             => c = d

(* The rows and the requests have the types of their structs, and every    *)
(* assignment and receipt belongs to a conversation that exists.           *)
DeskTypeOK ==
    /\ conv \in [Convs -> ConvRow]
    /\ rows \in [Convs -> [People -> Nat]]
    /\ \A i \in DOMAIN asg : asg[i] \in Assignment /\ conv[asg[i].conv].status # "none"
    /\ \A i \in DOMAIN receipts : receipts[i] \in Receipt
    /\ log \in [Convs -> Nat]
    /\ req \in [Reqs -> Request]
    /\ started \in 0..MaxRequests /\ faults \in 0..MaxFaults

Init ==
    /\ \E s \in Seeds :
         /\ conv = s.conv
         /\ rows = [c \in Convs |-> [p \in People |-> IF p \in s.members[c] THEN 1 ELSE 0]]
         /\ asg = s.asg
    /\ receipts = <<>>
    /\ log = [c \in Convs |-> IF conv[c].status = "none" THEN 0 ELSE 2]
    /\ notes = [c \in Convs |-> [a \in Admins |-> 0]]
    /\ closings = [c \in Convs |-> 0]
    /\ granted = {} /\ raced = {}
    /\ req = [q \in Reqs |-> Idle]
    /\ started = 0 /\ faults = 0

-----------------------------------------------------------------------------
(* What the queries of the repositories return.                            *)

Exists(c) == conv[c].status # "none"

Caller(b) ==
    IF b = Key THEN ServerKey
    ELSE IF b \in Users THEN ForUser(b) ELSE ForAdmin(b, Held[b])

\* CountActive counts rows, not people
MemberRows(c) == UNION {{p} \X (1..rows[c][p]) : p \in People}
CountActive(c) == Cardinality(MemberRows(c))

ListActive(c) == {p \in People : rows[c][p] > 0}

OfConv(c) == {i \in DOMAIN asg : asg[i].conv = c}

\* GetByConversation: the latest assignment, 0 when there is none
GetByConversation(c) ==
    IF OfConv(c) = {} THEN 0 ELSE CHOOSE i \in OfConv(c) : \A j \in OfConv(c) : j <= i

CountOpenForActor(a, queue) ==
    Cardinality({c \in Convs : conv[c].status = "open" /\ conv[c].queue = queue /\ rows[c][a] > 0})

\* the conversation as Policy sees it
View(c) ==
    [kind |-> conv[c].kind, queue |-> conv[c].queue, archived |-> FALSE,
     assigned |-> OfConv(c) # {}, users |-> ListActive(c) \cap Users,
     actors |-> ListActive(c) \cap Admins, snapshot |-> {}]

May(b, a, c) == Exists(c) /\ AuthorizeConversation(Caller(b), a, View(c))

\* a message's sender is a member in the client role
fromClient(c, b) == b \in ListActive(c) /\ (b \in Users \/ conv[c].kind = "support")

\* the row First() finds for a participant; a server key names nobody and
\* finds the first receipt of any operator
FindReceipt(c, b) ==
    {i \in DOMAIN receipts :
        receipts[i].conv = c /\ IF b = Key THEN receipts[i].who \in Admins \cup {Key}
                                 ELSE receipts[i].who = b}
FirstReceipt(c, b) ==
    LET S == FindReceipt(c, b) IN IF S = {} THEN 0 ELSE CHOOSE i \in S : \A j \in S : i <= j

-----------------------------------------------------------------------------
(* Requests.                                                               *)

Free(q) == req[q].op = "idle" /\ started < MaxRequests

\* a request takes a slot; one of the same kind in flight is an overlap
Begin(q, r) ==
    /\ started' = started + 1
    /\ req' = [req EXCEPT ![q] = r]
    /\ raced' = raced \cup {<<r.op, x>> : x \in {x \in {r.c} : \E o \in Reqs \ {q} :
                                 req[o].op = r.op /\ (req[o].c = x \/ r.op = "create")}}
    /\ UNCHANGED <<rowVars, histVars, faults>>

Ask(op, pc, b, c) == [Idle EXCEPT !.op = op, !.pc = pc, !.by = b, !.c = c, !.row = conv[c]]

Done(q) == req' = [req EXCEPT ![q] = Idle]
Goto(q, pc) == req' = [req EXCEPT ![q].pc = pc]
Unstarted == UNCHANGED <<started, faults, raced>>

Fault(q, what) ==
    /\ faults < MaxFaults
    /\ faults' = faults + 1
    /\ raced' = raced \cup {<<what, req[q].c>>}
    /\ UNCHANGED started

\* a process dies in the middle of a request, or the statement the request has
\* come to fails: it ends there, and what it wrote before stays
CutOff(q) ==
    /\ req[q].op # "idle"
    /\ Fault(q, "cut")
    /\ Done(q)
    /\ UNCHANGED <<rowVars, histVars>>

-----------------------------------------------------------------------------
(* POST /v1/conversations.                                                 *)

\* an admin asking without an end user asks for themselves
requesting(p, user, queue) == p.kind = "admin" /\ user = Key /\ RequesterReaches(p, queue)

\* the per-principal contract of the handler; user = Key means no external_user_id
mayCreate(p, kind, queue, user) ==
    /\ holds(p, IF kind = "peer" THEN "conversations.create_peer" ELSE "conversations.create_support")
    /\ RequesterOnly(p) => requesting(p, user, queue)
    /\ queue # QueueSupport =>
         (p.kind = "apikey" \/ requesting(p, user, queue)) /\ kind = "support"
    /\ p.kind = "admin" /\ ~requesting(p, user, queue) =>
         user \in Users /\ ReachesQueue(p, QueueSupport)

\* the members the handler puts into the conversation, whoever asks
membersFor(p, queue, user, named) ==
    CASE p.kind = "user" -> {p.id}
      [] p.kind = "admin" -> IF requesting(p, user, queue) THEN {p.id} ELSE {user}
      [] OTHER -> named

createConversation(q) ==
    LET new == {c \in Convs : ~Exists(c) /\ \A o \in Reqs : req[o].op = "create" => req[o].c # c} IN
    /\ new # {}
    /\ \E b \in Callers, kind \in Kinds, queue \in Queues, user \in Users \cup {Key},
          named \in SUBSET Users :
        LET p == Caller(b)
            c == CHOOSE c \in new : TRUE
            in == [Ask("create", "count", b, c)
                     EXCEPT !.row = [status |-> "open", kind |-> kind, queue |-> queue],
                            !.limit = requesting(p, user, queue),
                            !.members = membersFor(p, queue, user, named)] IN
        /\ user # Key => b \in Admins
        /\ named # {} <=> b = Key
        /\ mayCreate(p, kind, queue, user)
        /\ Begin(q, in)

\* mutant: nobody counts the open requests
CountOpenNever(q) ==
    /\ req[q].op = "create" /\ req[q].pc = "count"
    /\ Goto(q, "insert")
    /\ UNCHANGED <<rowVars, histVars>> /\ Unstarted

\* the open-request limit is counted inside the transaction, under no lock
CountOpen(q) ==
    /\ req[q].op = "create" /\ req[q].pc = "count"
    /\ IF req[q].limit /\ CountOpenForActor(req[q].by, req[q].row.queue) > 0
       THEN Done(q) ELSE Goto(q, "insert")
    /\ UNCHANGED <<rowVars, histVars>> /\ Unstarted

Queued(c) == [conv |-> c, status |-> "queued", who |-> Key]

\* the rest of the transaction: conversation, members, a queued assignment; a
\* server key may name a member twice, which makes two rows
CreateConversation(q) ==
    LET r == req[q] IN
    /\ r.op = "create" /\ r.pc = "insert"
    /\ conv' = [conv EXCEPT ![r.c] = r.row]
    /\ \E again \in SUBSET r.members :
          /\ again # {} => r.by = Key
          /\ rows' = [rows EXCEPT ![r.c] = [p \in People |->
                         IF p \in again THEN 2 ELSE IF p \in r.members THEN 1 ELSE 0]]
          /\ raced' = raced \cup (IF again # {} THEN {<<"twice", r.c>>} ELSE {})
    /\ asg' = IF r.row.kind = "support" THEN Append(asg, Queued(r.c)) ELSE asg
    /\ Done(q)
    /\ UNCHANGED <<receipts, log, histVars, started, faults>>

-----------------------------------------------------------------------------
(* Members.                                                                *)

\* a write of one statement, with nothing read before it that could change
AtOnce == /\ started < MaxRequests
          /\ started' = started + 1
          /\ UNCHANGED <<req, faults>>

AddMember(c, u) ==
    /\ AtOnce
    /\ Exists(c)
    /\ rows' = [rows EXCEPT ![c][u] = @ + 1]
    /\ raced' = raced \cup (IF rows[c][u] > 0 THEN {<<"twice", c>>} ELSE {})
    /\ UNCHANGED <<conv, asg, receipts, log, histVars>>

\* Remap: the guest's rows, messages and receipts become the user's
Remap(c, from, to) ==
    /\ AtOnce
    /\ Exists(c) /\ from # to /\ rows[c][from] > 0
    /\ rows' = [rows EXCEPT ![c][to] = @ + rows[c][from], ![c][from] = 0]
    /\ receipts' = [i \in DOMAIN receipts |->
                      IF receipts[i].conv = c /\ receipts[i].who = from
                      THEN [receipts[i] EXCEPT !.who = to] ELSE receipts[i]]
    /\ raced' = raced \cup {<<"remap", c>>}
                 \cup (IF rows[c][to] > 0 THEN {<<"twice", c>>} ELSE {})
    /\ UNCHANGED <<conv, asg, log, histVars>>

removeMember(q) ==
    \E c \in Convs, u \in Users :
        /\ Exists(c)
        /\ Begin(q, [Ask("remove", "get", Key, c) EXCEPT !.who = u])

\* mutant: the last member is one of zero
CountMembersLate(q) ==
    /\ req[q].op = "remove" /\ req[q].pc = "get"
    /\ IF conv[req[q].c].status = "open" /\ CountActive(req[q].c) <= 0
       THEN Done(q) ELSE Goto(q, "remove")
    /\ UNCHANGED <<rowVars, histVars>> /\ Unstarted

\* an open conversation keeps one row
CountMembers(q) ==
    /\ req[q].op = "remove" /\ req[q].pc = "get"
    /\ IF conv[req[q].c].status = "open" /\ CountActive(req[q].c) <= 1
       THEN Done(q) ELSE Goto(q, "remove")
    /\ UNCHANGED <<rowVars, histVars>> /\ Unstarted

\* RemoveExternal ends every row of the user
RemoveMember(q) ==
    LET r == req[q] IN
    /\ r.op = "remove" /\ r.pc = "remove"
    /\ rows' = [rows EXCEPT ![r.c][r.who] = 0]
    /\ Done(q)
    /\ UNCHANGED <<conv, asg, receipts, log, histVars>> /\ Unstarted

-----------------------------------------------------------------------------
(* Closing.                                                                *)

closeConversation(q) ==
    \E b \in Callers, c \in Convs :
        May(b, "conversations.close", c) /\ Begin(q, Ask("close", "close", b, c))

\* mutant: the update does not look at the status
CloseUnguarded(q) ==
    LET r == req[q] IN
    /\ r.op = "close" /\ r.pc = "close"
    /\ conv' = [conv EXCEPT ![r.c].status = "closed"]
    /\ Goto(q, "fire")
    /\ UNCHANGED <<rows, asg, receipts, log, histVars>> /\ Unstarted

\* Close: WHERE status <> closed decides who announces it
Close(q) ==
    LET r == req[q] IN
    /\ r.op = "close" /\ r.pc = "close"
    /\ conv' = [conv EXCEPT ![r.c].status = "closed"]
    /\ IF conv[r.c].status # "closed" THEN Goto(q, "fire") ELSE Done(q)
    /\ UNCHANGED <<rows, asg, receipts, log, histVars>> /\ Unstarted

\* the webhook is written after the close, in a transaction of its own, unless
\* the conversation's queue sends none
FireClosed(q) ==
    LET c == req[q].c IN
    /\ req[q].op = "close" /\ req[q].pc = "fire"
    /\ closings' = IF conv[c].queue \in Silent THEN closings ELSE [closings EXCEPT ![c] = @ + 1]
    /\ Done(q)
    /\ UNCHANGED <<rowVars, notes, granted>> /\ Unstarted

\* settings that could not be read keep sending
FireUnread(q) ==
    LET c == req[q].c IN
    /\ req[q].op = "close" /\ req[q].pc = "fire"
    /\ conv[c].queue \in Silent
    /\ Fault(q, "settings")
    /\ closings' = [closings EXCEPT ![c] = @ + 1]
    /\ Done(q)
    /\ UNCHANGED <<rowVars, notes, granted>>

-----------------------------------------------------------------------------
(* Assignments.                                                            *)

\* POST /v1/conversations/:id/assignments queues the conversation once more
AddAssignment(b, c) ==
    /\ AtOnce
    /\ May(b, "assignments.create", c)
    /\ conv[c].kind # "peer"
    /\ asg' = Append(asg, Queued(c))
    /\ raced' = raced \cup {<<"queue", c>>}
    /\ UNCHANGED <<conv, rows, receipts, log, histVars>>

\* PATCH /v1/assignments/:id, authorized against the conversation
patchAssignment(q) ==
    \E b \in Admins, i \in DOMAIN asg, op \in {"claim", "finish"} :
        /\ May(b, IF op = "claim" THEN "assignments.claim" ELSE "assignments.close", asg[i].conv)
        /\ Begin(q, [Ask(op, "write", b, asg[i].conv) EXCEPT !.n = i])

\* mutant: whoever writes last has it
TransitionUnguarded(i, from, to, who) == asg' = [asg EXCEPT ![i].status = to, ![i].who = who]

\* Transition: the update names the states it may leave
Transition(i, from, to, who) ==
    asg' = IF asg[i].status \in from THEN [asg EXCEPT ![i].status = to, ![i].who = who] ELSE asg

ClaimAssignment(q) ==
    LET r == req[q] IN
    /\ r.op = "claim" /\ r.pc = "write"
    /\ Transition(r.n, {"queued"}, "assigned", r.by)
    /\ req' = [req EXCEPT ![q].pc = "reread", ![q].seen = IF asg' # asg THEN 1 ELSE 0]
    /\ UNCHANGED <<conv, rows, receipts, log, histVars>> /\ Unstarted

\* a lost claim is no conflict for the one who holds the row
AnswerClaim(q) ==
    LET r == req[q]
        a == asg[r.n] IN
    /\ r.op = "claim" /\ r.pc = "reread"
    /\ granted' = IF r.seen = 1 \/ (a.status # "closed" /\ a.who = r.by)
                  THEN granted \cup {<<r.n, r.by>>} ELSE granted
    /\ Done(q)
    /\ UNCHANGED <<rowVars, notes, closings>> /\ Unstarted

CloseAssignment(q) ==
    LET r == req[q] IN
    /\ r.op = "finish" /\ r.pc = "write"
    /\ Transition(r.n, {"queued", "assigned"}, "closed", asg[r.n].who)
    /\ Done(q)
    /\ UNCHANGED <<conv, rows, receipts, log, histVars>> /\ Unstarted

-----------------------------------------------------------------------------
(* Messages.  The conversation is read once, before the insert, and that   *)
(* copy decides whether the reply queues it again.                         *)

postMessage(q) ==
    \E b \in Callers, c \in Convs :
        /\ May(b, "messages.send", c)
        /\ conv[c].kind = "peer" => b \notin Admins /\ conv[c].status # "closed"
        /\ Begin(q, Ask("send", "insert", b, c))

\* the transaction of SendMessage, then requeueOnReply
SendMessage(q) ==
    LET r == req[q] IN
    /\ r.op = "send" /\ r.pc = "insert"
    /\ log' = [log EXCEPT ![r.c] = @ + 1]
    /\ IF r.row.status = "open" /\ r.row.queue \in Requeues THEN Goto(q, "look") ELSE Done(q)
    /\ UNCHANGED <<conv, rows, asg, receipts, histVars>> /\ Unstarted

\* mutant: a reply queues the conversation whatever its assignment
LookNever(q) ==
    /\ req[q].op = "send" /\ req[q].pc = "look"
    /\ IF fromClient(req[q].c, req[q].by) THEN Goto(q, "queue") ELSE Done(q)
    /\ UNCHANGED <<rowVars, histVars>> /\ Unstarted

\* only the client's reply, and only when the latest assignment is closed
requeueOnReply(q) ==
    LET i == GetByConversation(req[q].c) IN
    /\ req[q].op = "send" /\ req[q].pc = "look"
    /\ IF fromClient(req[q].c, req[q].by) /\ (i = 0 \/ asg[i].status = "closed")
       THEN Goto(q, "queue") ELSE Done(q)
    /\ UNCHANGED <<rowVars, histVars>> /\ Unstarted

\* a lookup that fails passes for one that finds nothing
requeueUnread(q) ==
    /\ req[q].op = "send" /\ req[q].pc = "look"
    /\ fromClient(req[q].c, req[q].by)
    /\ Fault(q, "lookup")
    /\ Goto(q, "queue")
    /\ UNCHANGED <<rowVars, histVars>>

Requeue(q) ==
    /\ req[q].op = "send" /\ req[q].pc = "queue"
    /\ asg' = Append(asg, Queued(req[q].c))
    /\ Done(q)
    /\ UNCHANGED <<conv, rows, receipts, log, histVars>> /\ Unstarted

\* an operator's message in a peer conversation; the copy of the row must be open
postPeerMessage(q) ==
    \E b \in Admins, c \in Convs :
        /\ May(b, "messages.send", c)
        /\ conv[c].kind = "peer"
        /\ Begin(q, Ask("peer", "get", b, c))

PeerAgentSend(q) ==
    LET r == req[q] IN
    /\ r.op = "peer" /\ r.pc = "get"
    /\ IF conv[r.c].status # "open" THEN Done(q)
       ELSE Goto(q, IF r.by \in ListActive(r.c) THEN "insert" ELSE "join")
    /\ UNCHANGED <<rowVars, histVars>> /\ Unstarted

\* mutant: every first message adds a row of its own
JoinAlways(q) ==
    LET r == req[q] IN
    /\ r.op = "peer" /\ r.pc = "join"
    /\ rows' = [rows EXCEPT ![r.c][r.by] = @ + 1]
    /\ Goto(q, "note")
    /\ UNCHANGED <<conv, asg, receipts, log, histVars>> /\ Unstarted

\* AddIfAbsent on an id made of conversation and operator: one insert wins
agentJoinPeer(q) ==
    LET r == req[q] IN
    /\ r.op = "peer" /\ r.pc = "join"
    /\ IF rows[r.c][r.by] = 0
       THEN rows' = [rows EXCEPT ![r.c][r.by] = 1] /\ Goto(q, "note")
       ELSE rows' = rows /\ Goto(q, "insert")
    /\ UNCHANGED <<conv, asg, receipts, log, histVars>> /\ Unstarted

\* the winner posts the note
JoinNote(q) ==
    LET r == req[q] IN
    /\ r.op = "peer" /\ r.pc = "note"
    /\ notes' = [notes EXCEPT ![r.c][r.by] = @ + 1]
    /\ log' = [log EXCEPT ![r.c] = @ + 1]
    /\ Goto(q, "insert")
    /\ UNCHANGED <<conv, rows, asg, receipts, closings, granted>> /\ Unstarted

SendPeer(q) ==
    LET r == req[q] IN
    /\ r.op = "peer" /\ r.pc = "insert"
    /\ log' = [log EXCEPT ![r.c] = @ + 1]
    /\ Done(q)
    /\ UNCHANGED <<conv, rows, asg, receipts, histVars>> /\ Unstarted

-----------------------------------------------------------------------------
(* Read receipts: read, compare, save.                                     *)

markRead(q) ==
    \E b \in Callers, c \in Convs : \E n \in 1..log[c] :
        /\ May(b, "receipts.write", c)
        /\ Begin(q, [Ask("read", "find", b, c) EXCEPT !.n = n])

\* mutant: the stored id is not compared
FindReadAnyAge(q) ==
    LET r == req[q]
        i == FirstReceipt(r.c, r.by) IN
    /\ r.op = "read" /\ r.pc = "find"
    /\ req' = [req EXCEPT ![q].pc = "save", ![q].seen = i,
                          ![q].who = IF i = 0 THEN r.by ELSE receipts[i].who]
    /\ UNCHANGED <<rowVars, histVars>> /\ Unstarted

FindRead(q) ==
    LET r == req[q]
        i == FirstReceipt(r.c, r.by) IN
    /\ r.op = "read" /\ r.pc = "find"
    /\ IF i # 0 /\ receipts[i].last >= r.n THEN Done(q)
       ELSE req' = [req EXCEPT ![q].pc = "save", ![q].seen = i,
                               ![q].who = IF i = 0 THEN r.by ELSE receipts[i].who]
    /\ UNCHANGED <<rowVars, histVars>> /\ Unstarted

\* Save writes every column of the row that was read
SaveRead(q) ==
    LET r == req[q]
        row == [conv |-> r.c, who |-> r.who, last |-> r.n] IN
    /\ r.op = "read" /\ r.pc = "save"
    /\ receipts' = IF r.seen = 0 THEN Append(receipts, row) ELSE [receipts EXCEPT ![r.seen] = row]
    /\ Done(q)
    /\ UNCHANGED <<conv, rows, asg, log, histVars>> /\ Unstarted

-----------------------------------------------------------------------------
Start(q) ==
    /\ Free(q)
    /\ \/ createConversation(q) \/ removeMember(q) \/ closeConversation(q)
       \/ patchAssignment(q) \/ postMessage(q) \/ postPeerMessage(q) \/ markRead(q)

Work(q) ==
    \/ CountOpen(q) \/ CreateConversation(q)
    \/ CountMembers(q) \/ RemoveMember(q)
    \/ Close(q) \/ FireClosed(q) \/ FireUnread(q)
    \/ ClaimAssignment(q) \/ AnswerClaim(q) \/ CloseAssignment(q)
    \/ SendMessage(q) \/ requeueOnReply(q) \/ requeueUnread(q) \/ Requeue(q)
    \/ PeerAgentSend(q) \/ agentJoinPeer(q) \/ JoinNote(q) \/ SendPeer(q)
    \/ FindRead(q) \/ SaveRead(q)

Next ==
    \/ \E q \in Reqs : Start(q) \/ Work(q) \/ CutOff(q)
    \/ \E c \in Convs, u \in Users : AddMember(c, u)
    \/ \E c \in Convs, u, v \in Users : Remap(c, u, v)
    \/ \E b \in Callers, c \in Convs : AddAssignment(b, c)

Spec == Init /\ [][Next]_vars

-----------------------------------------------------------------------------
Resting(c) == \A q \in Reqs : req[q].op = "idle" \/ req[q].c # c

(* RemoveMember never takes the last member of an open conversation: one   *)
(* without members comes of two removals at once, or of a person with two  *)
(* rows, which are counted as two and end together.                        *)
LastMemberStays ==
    \A c \in Convs :
        conv[c].status = "open" /\ ListActive(c) = {} =>
            <<"remove", c>> \in raced \/ <<"twice", c>> \in raced

(* What the specification says of it without exception: a removal that     *)
(* would leave an open conversation with zero members is rejected          *)
(* (checked where no two requests overlap).                                *)
OpenHasMember == \A c \in Convs : conv[c].status = "open" => ListActive(c) # {}

(* The rows keep their types, and no request on its own removes the last   *)
(* member of an open conversation (domain/conversation.go, RemoveMember).  *)
DeskInv == DeskTypeOK /\ LastMemberStays

(* A requester has one open request per queue, unless two requests to open *)
(* one overlapped, which may both count before either is inserted.         *)
OneOpenRequest ==
    \A a \in Admins, x \in Queues :
        RequesterOnly(Caller(a)) /\ CountOpenForActor(a, x) > 1 =>
            \E c \in Convs : <<"create", c>> \in raced

(* A conversation waits in the queue once: a second assignment that is not *)
(* closed comes from the assignments endpoint, which adds one whatever     *)
(* there is, from two replies at once, or from a reply whose lookup of the *)
(* assignment failed, never from a reply alone that could read it.         *)
QueuedOnce ==
    \A c \in Convs :
        Cardinality({i \in OfConv(c) : asg[i].status # "closed"}) > 1 =>
            {<<"queue", c>>, <<"send", c>>, <<"lookup", c>>} \cap raced # {}

(* Two operators are never both told that a claim is theirs, however their *)
(* requests and a close of the assignment interleave.                      *)
OneClaimWins == \A x, y \in granted : x[1] = y[1] => x[2] = y[2]

(* An operator who steps into a peer conversation is a member once and     *)
(* announced once, whatever tabs and retries send at the same time; a note *)
(* is missing only where a process died or the note could not be written.  *)
JoinNotedOnce ==
    \A c \in Convs, a \in Admins :
        conv[c].kind = "peer" =>
            /\ notes[c][a] <= rows[c][a] /\ rows[c][a] <= 1
            /\ Resting(c) /\ <<"cut", c>> \notin raced => notes[c][a] = rows[c][a]

(* A close is announced to the webhooks exactly once where the queue sends *)
(* webhooks, and not at all where it does not, however closes race: it is  *)
(* missing only when the process died between the close and the event or   *)
(* the event could not be written, and a silent queue is announced only    *)
(* when its settings could not be read.                                    *)
CloseAnnounced ==
    \A c \in Convs :
        /\ closings[c] <= 1
        /\ closings[c] = 1 =>
              conv[c].status = "closed" /\ (conv[c].queue \notin Silent \/ <<"settings", c>> \in raced)
        /\ conv[c].status = "closed" /\ conv[c].queue \notin Silent /\ Resting(c) =>
              closings[c] = 1 \/ <<"cut", c>> \in raced

ReadUpTo(c, u) == LET i == FirstReceipt(c, u) IN IF i = 0 THEN 0 ELSE receipts[i].last
ReadUpToNext(c, u) == ReadUpTo(c, u)'

(* What a user has read never goes back, whatever arrives late; only two   *)
(* receipts of the conversation saved at once, or a remap that brings in   *)
(* another receipt, can move it.                                           *)
ReceiptForward ==
    [][\A c \in Convs, u \in Users :
          <<"read", c>> \notin raced /\ <<"remap", c>> \notin raced' =>
              ReadUpToNext(c, u) >= ReadUpTo(c, u)]_vars
=============================================================================
