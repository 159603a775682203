----------------------------- MODULE DeskProofs -----------------------------
(***************************************************************************)
(* Requests that race, and processes that die between two writes of one,   *)
(* leave the conversations, members, assignments and receipts as Desk      *)
(* says, for any number of conversations, people and requests.             *)
(***************************************************************************)
EXTENDS Desk, FiniteSetTheorems, WellFoundedInduction, TLAPS

-----------------------------------------------------------------------------
(* The inductive invariant: the types, what a request in flight may rely   *)
(* on, and one part for each property.                                     *)

DeskTypes ==
    /\ conv \in [Convs -> ConvRow]
    /\ rows \in [Convs -> [People -> Nat]]
    /\ asg \in Seq(Assignment) /\ receipts \in Seq(Receipt)
    /\ log \in [Convs -> Nat]
    /\ notes \in [Convs -> [Admins -> Nat]] /\ closings \in [Convs -> Nat]
    /\ granted \subseteq Nat \X Admins
    /\ req \in [Reqs -> Request]
    /\ started \in 0..MaxRequests /\ faults \in 0..MaxFaults

\* who a new conversation has in it: users, or the one who asks for themselves
NewMembers(r) ==
    /\ r.members # {}
    /\ r.members \subseteq Users
         \/ (r.limit /\ r.by \in Admins /\ r.members = {r.by} /\ r.row.kind = "support")

\* what a request was authorized for does not go away under it
ReqHolds(r) ==
    /\ r.op = "create" => conv[r.c].status = "none" /\ r.row.status = "open" /\ NewMembers(r)
    /\ r.op \notin {"idle", "create"} => conv[r.c].status # "none"
    /\ r.op \in {"claim", "finish"} => r.n \in DOMAIN asg /\ r.by \in Admins
    /\ r.op = "remove" => r.who \in Users
    /\ r.op = "peer" => conv[r.c].kind = "peer" /\ r.by \in Admins /\ ~RequesterOnly(Caller(r.by))
    /\ r.op = "read" /\ r.pc = "save" /\ r.seen # 0 =>
          r.seen \in DOMAIN receipts /\ receipts[r.seen].conv = r.c

AssignedExists == \A i \in DOMAIN asg : conv[asg[i].conv].status # "none"

\* two requests of a kind on one conversation are known to overlap
OverlapKnown ==
    \A q, o \in Reqs : q # o /\ req[q].op = req[o].op /\ req[q].op # "idle" =>
        /\ req[q].c = req[o].c => <<req[q].op, req[q].c>> \in raced /\ req[q].op # "create"
        /\ req[q].op = "create" => \E c \in Convs : <<"create", c>> \in raced

DeskBase ==
    /\ DeskTypes /\ AssignedExists /\ OverlapKnown
    /\ \A q \in Reqs : ReqHolds(req[q])

\* an assignment has an owner once it is claimed, and keeps them
ClaimsInv ==
    /\ \A i \in DOMAIN asg : asg[i].status = "queued" => asg[i].who = Key
    /\ \A x \in granted : /\ x[1] \in DOMAIN asg
                          /\ asg[x[1]].status # "queued" /\ asg[x[1]].who = x[2]
    /\ \A q \in Reqs : req[q].op = "claim" /\ req[q].pc = "reread" /\ req[q].seen = 1 =>
          asg[req[q].n].status # "queued" /\ asg[req[q].n].who = req[q].by

Firing(q, c) == req[q].op = "close" /\ req[q].pc = "fire" /\ req[q].c = c

\* a close is announced, about to be, or lost with the process
ClosesAt(c) ==
    /\ closings[c] <= 1
    /\ conv[c].status = "closed" /\ conv[c].queue \notin Silent /\ closings[c] = 0 =>
          <<"cut", c>> \in raced \/ \E q \in Reqs : Firing(q, c)
    /\ closings[c] = 1 => conv[c].queue \notin Silent \/ <<"settings", c>> \in raced
    /\ \A q \in Reqs : Firing(q, c) => conv[c].status = "closed" /\ closings[c] = 0
    /\ \A q, o \in Reqs : Firing(q, c) /\ Firing(o, c) => q = o
    /\ conv[c].status # "closed" => closings[c] = 0
ClosesInv == \A c \in Convs : ClosesAt(c)

Noting(q, c, a) ==
    req[q].op = "peer" /\ req[q].pc = "note" /\ req[q].c = c /\ req[q].by = a

\* a row of an operator is announced, about to be, or its process died
JoinsAt(c, a) ==
    /\ conv[c].status = "none" => notes[c][a] = 0
    /\ conv[c].kind = "peer" =>
         /\ rows[c][a] <= 1 /\ notes[c][a] <= rows[c][a]
         /\ rows[c][a] = 1 /\ notes[c][a] = 0 =>
               <<"cut", c>> \in raced \/ \E q \in Reqs : Noting(q, c, a)
         /\ \A q \in Reqs : Noting(q, c, a) => rows[c][a] = 1 /\ notes[c][a] = 0
         /\ \A q, o \in Reqs : Noting(q, c, a) /\ Noting(o, c, a) => q = o
JoinsInv == \A c \in Convs, a \in Admins : JoinsAt(c, a)

Requeuing(q, c) == req[q].op = "send" /\ req[q].pc = "queue" /\ req[q].c = c

\* only the latest assignment is not closed, and a reply adds one when that is
QueuesAt(c) ==
    <<"queue", c>> \in raced \/ <<"send", c>> \in raced \/ <<"lookup", c>> \in raced \/
        /\ \A i, j \in OfConv(c) : i < j => asg[i].status = "closed"
        /\ \A q \in Reqs : Requeuing(q, c) => \A i \in OfConv(c) : asg[i].status = "closed"
QueuesInv == \A c \in Convs : QueuesAt(c)

\* the open conversations of a member's own in a queue
OpenFor(a, x) == {c \in Convs : conv[c].status = "open" /\ conv[c].queue = x /\ rows[c][a] > 0}

Inserting(q, a, x) ==
    /\ req[q].op = "create" /\ req[q].pc = "insert" /\ req[q].limit
    /\ req[q].by = a /\ req[q].row.queue = x

NoCreateRace == \A c \in Convs : <<"create", c>> \notin raced

\* a requester has one open conversation in a queue, none when one is being inserted
RequestsAt(a, x) ==
    /\ \A c, d \in OpenFor(a, x) : c = d
    /\ \A q \in Reqs : Inserting(q, a, x) => OpenFor(a, x) = {}
RequestsInv ==
    NoCreateRace =>
        \A a \in Admins, x \in Queues : RequesterOnly(Caller(a)) => RequestsAt(a, x)

TwoMembers(c) == \E p, o \in People : p # o /\ rows[c][p] > 0 /\ rows[c][o] > 0

Removing(q, c) == req[q].op = "remove" /\ req[q].pc = "remove" /\ req[q].c = c

\* a removal leaves somebody behind
MembersAt(c) ==
    /\ \A p \in People : rows[c][p] > 1 => <<"twice", c>> \in raced
    /\ <<"remove", c>> \in raced \/ <<"twice", c>> \in raced \/
         /\ conv[c].status = "open" => ListActive(c) # {}
         /\ conv[c].status = "open" => \A q \in Reqs : Removing(q, c) => TwoMembers(c)
MembersInv == \A c \in Convs : MembersAt(c)

\* a receipt about to be written is newer than the one it replaces
Saving(q, c) ==
    req[q].op = "read" /\ req[q].pc = "save" /\ req[q].seen # 0 /\ req[q].c = c
ReceiptsAt(q, c) ==
    Saving(q, c) /\ <<"read", c>> \notin raced /\ <<"remap", c>> \notin raced =>
        receipts[req[q].seen].who = req[q].who /\ receipts[req[q].seen].last < req[q].n
ReceiptsInv == \A q \in Reqs, c \in Convs : ReceiptsAt(q, c)

-----------------------------------------------------------------------------
(* Requests: what a start puts into a slot, and what a step leaves in it.  *)

LEMMA IdleType == Idle \in Request /\ Idle.op = "idle"
<1>1. (CHOOSE c \in Convs : TRUE) \in Convs
  BY DeskAssumption
<1>2. NoRow \in ConvRow
  BY QueuesAssumption DEF NoRow, ConvRow, Kinds, QueueSupport
<1> QED BY <1>1, <1>2 DEF Idle, Request, Callers

LEMMA AskType ==
    ASSUME conv \in [Convs -> ConvRow], NEW b \in Callers, NEW c \in Convs,
           NEW op \in {"create", "remove", "close", "claim", "finish", "send", "peer", "read"},
           NEW pc \in {"count", "get", "close", "write", "insert", "find"}
    PROVE  /\ Ask(op, pc, b, c) \in Request
           /\ Ask(op, pc, b, c) = [Idle EXCEPT !.op = op, !.pc = pc, !.by = b, !.c = c, !.row = conv[c]]
BY IdleType DEF Ask, Request

\* the stages a request starts in
FirstStages ==
    {<<"create", "count">>, <<"remove", "get">>, <<"close", "close">>, <<"claim", "write">>,
     <<"finish", "write">>, <<"send", "insert">>, <<"peer", "get">>, <<"read", "find">>}

\* only the tenant's server creates peer conversations
LEMMA PeerByServer == \A p : holds(p, "conversations.create_peer") => p.kind = "apikey"
<1>1. capabilities("conversations.create_peer") = {"apiKey"}
  BY DEF capabilities, TalkActions, ServerActions, OperatorActions, PrivilegedActions, OwnerActions,
         SignedActions, DraftActions, NoteActions
<1>2. \A r : ~roleHolds({"apiKey"}, r)
  BY DEF roleHolds
<1> QED BY <1>1, <1>2 DEF holds

\* a requester never gets at a peer conversation
LEMMA NoRequesterInPeer ==
    ASSUME NEW a \in Admins, NEW c \in Convs, NEW act, act \in ConversationActions,
           May(a, act, c), conv[c].kind = "peer"
    PROVE  ~RequesterOnly(Caller(a))
<1>1. Caller(a) = ForAdmin(a, Held[a])
  BY DeskAssumption DEF Caller
<1>2. Caller(a).kind = "admin"
  BY <1>1 DEF ForAdmin, Principal
<1>3. conversationAttrs(Caller(a), View(c)).kind = "peer"
  BY <1>2 DEF conversationAttrs, View
<1>4. authorizeConversation(Caller(a), act, conversationAttrs(Caller(a), View(c)))
  BY DEF May, AuthorizeConversation, Authorize
<1> QED BY <1>2, <1>3, <1>4 DEF authorizeConversation, ownRequest, operates

\* the members of a new conversation
LEMMA CreateEffect ==
    ASSUME DeskTypes, NEW b \in Callers, NEW kind \in Kinds, NEW queue \in Queues,
           NEW user \in Users \cup {Key}, NEW named \in SUBSET Users,
           user # Key => b \in Admins, named # {} <=> b = Key,
           mayCreate(Caller(b), kind, queue, user)
    PROVE  LET ms == membersFor(Caller(b), queue, user, named)
               own == requesting(Caller(b), user, queue) IN
           /\ ms \subseteq People /\ ms # {} /\ own \in BOOLEAN
           /\ ms \subseteq Users \/ (own /\ b \in Admins /\ ms = {b} /\ kind = "support")
<1> DEFINE p == Caller(b)
           ms == membersFor(p, queue, user, named)
<1>1. CASE b = Key
  <2>1. p.kind = "apikey"
    BY <1>1 DEF Caller, ServerKey, Principal
  <2>2. ms = named /\ named # {}
    BY <1>1, <2>1 DEF membersFor
  <2> QED BY <2>1, <2>2 DEF requesting, People
<1>2. CASE b \in Users
  <2>1. p.kind = "user" /\ p.id = b
    BY <1>2, DeskAssumption DEF Caller, ForUser, Principal
  <2>2. ms = {b}
    BY <2>1 DEF membersFor
  <2> QED BY <1>2, <2>1, <2>2 DEF requesting, People
<1>3. CASE b \in Admins
  <2>1. p.kind = "admin" /\ p.id = b
    BY <1>3, DeskAssumption DEF Caller, ForAdmin, Principal
  <2>2. kind = "support"
    BY <2>1, PeerByServer DEF mayCreate, Kinds
  <2>3. CASE requesting(p, user, queue)
    <3>1. ms = {b}
      BY <2>1, <2>3 DEF membersFor
    <3> QED BY <1>3, <2>2, <2>3, <3>1 DEF People
  <2>4. CASE ~requesting(p, user, queue)
    <3>1. ms = {user} /\ user \in Users
      BY <2>1, <2>4 DEF membersFor, mayCreate
    <3>2. requesting(p, user, queue) \in BOOLEAN
      BY DEF requesting
    <3> QED BY <2>4, <3>1, <3>2 DEF People
  <2> QED BY <2>3, <2>4
<1> QED BY <1>1, <1>2, <1>3 DEF Callers, People

LEMMA AsgTypes ==
    ASSUME asg \in Seq(Assignment)
    PROVE  /\ Len(asg) \in Nat /\ DOMAIN asg = 1..Len(asg)
           /\ \A i \in DOMAIN asg : i \in Nat /\ asg[i] \in Assignment /\ asg[i].conv \in Convs
<1>1. Len(asg) \in Nat /\ DOMAIN asg = 1..Len(asg) /\ \A i \in DOMAIN asg : asg[i] \in Assignment
  OBVIOUS
<1>2. \A a \in Assignment : a.conv \in Convs
  BY DEF Assignment
<1> QED BY <1>1, <1>2

LEMMA StartEffect ==
    ASSUME DeskBase, NEW q \in Reqs, Start(q)
    PROVE  \E r \in Request :
              /\ req[q].op = "idle" /\ Begin(q, r) /\ started < MaxRequests
              /\ <<r.op, r.pc>> \in FirstStages /\ ReqHolds(r)
              /\ r.op = "create" => \A o \in Reqs : req[o].op = "create" => req[o].c # r.c
<1>1. DeskTypes /\ conv \in [Convs -> ConvRow] /\ req \in [Reqs -> Request]
  BY DEF DeskBase, DeskTypes
<1>2. req[q].op = "idle" /\ started < MaxRequests
  BY DEF Start, Free
<1>3. CASE createConversation(q)
  <2> DEFINE new == {c \in Convs : ~Exists(c) /\ \A o \in Reqs : req[o].op = "create" => req[o].c # c}
  <2>1. new # {}
    BY <1>3 DEF createConversation
  <2> DEFINE c == CHOOSE c \in new : TRUE
  <2>2. c \in new
    BY <2>1
  <2>3. PICK b \in Callers, kind \in Kinds, queue \in Queues, user \in Users \cup {Key},
             named \in SUBSET Users :
          /\ user # Key => b \in Admins
          /\ named # {} <=> b = Key
          /\ mayCreate(Caller(b), kind, queue, user)
          /\ Begin(q, [Ask("create", "count", b, c)
                          EXCEPT !.row = [status |-> "open", kind |-> kind, queue |-> queue],
                                 !.limit = requesting(Caller(b), user, queue),
                                 !.members = membersFor(Caller(b), queue, user, named)])
    BY <1>3 DEF createConversation
  <2> DEFINE ms == membersFor(Caller(b), queue, user, named)
             own == requesting(Caller(b), user, queue)
             row == [status |-> "open", kind |-> kind, queue |-> queue]
             r == [Ask("create", "count", b, c) EXCEPT !.row = row, !.limit = own, !.members = ms]
  <2>4. /\ ms \subseteq People /\ ms # {} /\ own \in BOOLEAN
        /\ ms \subseteq Users \/ (own /\ b \in Admins /\ ms = {b} /\ kind = "support")
    BY <1>1, <2>3, CreateEffect
  <2>5. c \in Convs /\ ~Exists(c) /\ \A o \in Reqs : req[o].op = "create" => req[o].c # c
    BY <2>2
  <2> HIDE DEF ms, own, c
  <2>6. row \in ConvRow
    BY DEF ConvRow
  <2> HIDE DEF row
  <2>7. Ask("create", "count", b, c) \in Request
    BY <1>1, <2>5, AskType
  <2>8. r \in Request /\ r.op = "create" /\ r.pc = "count" /\ r.c = c /\ r.by = b
        /\ r.row = row /\ r.limit = own /\ r.members = ms
    BY <2>4, <2>5, <2>6, <2>7, IdleType DEF Request, Ask
  <2>9. Begin(q, r)
    BY <2>3 DEF ms, own, c, row
  <2> HIDE DEF r
  <2>10. row.status = "open" /\ row.kind = kind
    BY DEF row
  <2>11. ReqHolds(r)
    BY <2>4, <2>5, <2>8, <2>10 DEF ReqHolds, NewMembers, Exists
  <2> QED BY <1>2, <2>5, <2>8, <2>9, <2>11 DEF FirstStages
<1>4. CASE removeMember(q)
  <2>1. PICK c \in Convs, u \in Users :
          Exists(c) /\ Begin(q, [Ask("remove", "get", Key, c) EXCEPT !.who = u])
    BY <1>4 DEF removeMember
  <2> DEFINE r == [Ask("remove", "get", Key, c) EXCEPT !.who = u]
  <2>2. Ask("remove", "get", Key, c) \in Request
    BY <1>1, AskType DEF Callers
  <2>3. r \in Request /\ r.op = "remove" /\ r.pc = "get" /\ r.c = c /\ r.who = u
    BY <2>2, IdleType DEF Request, Ask, Callers, People
  <2> QED BY <1>2, <2>1, <2>3 DEF FirstStages, ReqHolds, Exists
<1>5. CASE closeConversation(q)
  <2>1. PICK b \in Callers, c \in Convs : Exists(c) /\ Begin(q, Ask("close", "close", b, c))
    BY <1>5 DEF closeConversation, May
  <2>2. Ask("close", "close", b, c) \in Request
    BY <1>1, AskType
  <2> DEFINE r == Ask("close", "close", b, c)
  <2>3. r.op = "close" /\ r.pc = "close" /\ r.c = c
    BY IdleType DEF Request, Ask
  <2> QED BY <1>2, <2>1, <2>2, <2>3 DEF FirstStages, ReqHolds, Exists
<1>6. CASE patchAssignment(q)
  <2>1. PICK b \in Admins, i \in DOMAIN asg, op \in {"claim", "finish"} :
          /\ Exists(asg[i].conv)
          /\ Begin(q, [Ask(op, "write", b, asg[i].conv) EXCEPT !.n = i])
    BY <1>6 DEF patchAssignment, May
  <2> DEFINE r == [Ask(op, "write", b, asg[i].conv) EXCEPT !.n = i]
  <2>2. asg[i].conv \in Convs /\ i \in Nat
    BY <1>1, AsgTypes DEF DeskTypes
  <2>3. Ask(op, "write", b, asg[i].conv) \in Request
    BY <1>1, <2>2, AskType DEF Callers, People
  <2>4. r \in Request /\ r.op = op /\ r.pc = "write" /\ r.c = asg[i].conv /\ r.by = b /\ r.n = i
    BY <2>2, <2>3, IdleType DEF Request, Ask
  <2> QED BY <1>2, <2>1, <2>4 DEF FirstStages, ReqHolds, Exists
<1>7. CASE postMessage(q)
  <2>1. PICK b \in Callers, c \in Convs : Exists(c) /\ Begin(q, Ask("send", "insert", b, c))
    BY <1>7 DEF postMessage, May
  <2>2. Ask("send", "insert", b, c) \in Request
    BY <1>1, AskType
  <2> DEFINE r == Ask("send", "insert", b, c)
  <2>3. r.op = "send" /\ r.pc = "insert" /\ r.c = c
    BY IdleType DEF Request, Ask
  <2> QED BY <1>2, <2>1, <2>2, <2>3 DEF FirstStages, ReqHolds, Exists
<1>8. CASE postPeerMessage(q)
  <2>1. PICK b \in Admins, c \in Convs :
          /\ May(b, "messages.send", c) /\ conv[c].kind = "peer"
          /\ Begin(q, Ask("peer", "get", b, c))
    BY <1>8 DEF postPeerMessage
  <2>2. ~RequesterOnly(Caller(b))
    BY <2>1, NoRequesterInPeer DEF ConversationActions
  <2>3. Ask("peer", "get", b, c) \in Request
    BY <1>1, AskType DEF Callers, People
  <2> DEFINE r == Ask("peer", "get", b, c)
  <2>4. r.op = "peer" /\ r.pc = "get" /\ r.c = c /\ r.by = b
    BY IdleType DEF Request, Ask
  <2>5. ReqHolds(r)
    BY <2>1, <2>2, <2>4 DEF ReqHolds, May, Exists
  <2> QED BY <1>2, <2>1, <2>3, <2>4, <2>5 DEF FirstStages
<1>9. CASE markRead(q)
  <2>1. PICK b \in Callers, c \in Convs : \E n \in 1..log[c] :
          Exists(c) /\ Begin(q, [Ask("read", "find", b, c) EXCEPT !.n = n])
    BY <1>9 DEF markRead, May
  <2>2. PICK n \in 1..log[c] : Exists(c) /\ Begin(q, [Ask("read", "find", b, c) EXCEPT !.n = n])
    BY <2>1
  <2>3. n \in Nat
    BY <1>1 DEF DeskTypes
  <2> DEFINE r == [Ask("read", "find", b, c) EXCEPT !.n = n]
  <2>4. Ask("read", "find", b, c) \in Request
    BY <1>1, AskType
  <2>5. r \in Request /\ r.op = "read" /\ r.pc = "find" /\ r.c = c
    BY <2>3, <2>4, IdleType DEF Request, Ask
  <2> QED BY <1>2, <2>2, <2>5 DEF FirstStages, ReqHolds, Exists
<1> QED BY <1>3, <1>4, <1>5, <1>6, <1>7, <1>8, <1>9 DEF Start

\* a request that goes on keeps what it was asked
Continues(q) ==
    /\ req'[q].op = req[q].op /\ req'[q].c = req[q].c /\ req'[q].by = req[q].by /\ req'[q].n = req[q].n
    /\ req'[q].row = req[q].row /\ req'[q].limit = req[q].limit /\ req'[q].members = req[q].members

\* the effect of Done and Goto on the slots
LEMMA DoneEffect ==
    ASSUME req \in [Reqs -> Request], NEW q \in Reqs, Done(q)
    PROVE  /\ req' \in [Reqs -> Request] /\ req'[q] = Idle /\ req'[q].op = "idle"
           /\ \A o \in Reqs \ {q} : req'[o] = req[o]
BY IdleType DEF Done

LEMMA GotoEffect ==
    ASSUME req \in [Reqs -> Request], NEW q \in Reqs,
           NEW pc \in {"count", "insert", "remove", "fire", "look", "queue", "join", "note"}, Goto(q, pc)
    PROVE  /\ req' \in [Reqs -> Request] /\ Continues(q)
           /\ req'[q].pc = pc /\ req'[q].seen = req[q].seen /\ req'[q].who = req[q].who
           /\ \A o \in Reqs \ {q} : req'[o] = req[o]
<1>1. req' = [req EXCEPT ![q] = [req[q] EXCEPT !.pc = pc]]
  BY DEF Goto
<1>2. [req[q] EXCEPT !.pc = pc] \in Request
  BY DEF Request
<1> QED BY <1>1, <1>2 DEF Continues, Request

\* the first receipt of a participant is there, and none comes before it
LEMMA LeastOf ==
    ASSUME NEW S \in SUBSET Nat, S # {}
    PROVE  \E i \in S : \A j \in S : i <= j
<1>1. PICK i \in S : \A j \in S : <<j, i>> \notin OpToRel(<, Nat)
  BY NatLessThanWellFounded, WFMin
<1>2. \A j \in S : ~(j < i)
  BY <1>1 DEF OpToRel
<1> QED BY <1>2

LEMMA FirstFound ==
    ASSUME receipts \in Seq(Receipt), NEW c, NEW b
    PROVE  LET S == FindReceipt(c, b)
               i == FirstReceipt(c, b) IN
           /\ S \subseteq DOMAIN receipts /\ S \subseteq Nat \ {0}
           /\ S = {} => i = 0
           /\ S # {} => i \in S /\ \A j \in S : i <= j
<1> DEFINE S == FindReceipt(c, b)
<1>1. S \subseteq DOMAIN receipts /\ S \subseteq Nat \ {0}
  BY DEF FindReceipt
<1>2. S # {} => \E i \in S : \A j \in S : i <= j
  BY <1>1, LeastOf
<1> HIDE DEF S
<1>3. S = {} => FirstReceipt(c, b) = 0
  BY DEF FirstReceipt, S
<1>4. ASSUME S # {} PROVE FirstReceipt(c, b) \in S /\ \A j \in S : FirstReceipt(c, b) <= j
  <2>1. FirstReceipt(c, b) = CHOOSE i \in S : \A j \in S : i <= j
    BY <1>4 DEF FirstReceipt, S
  <2> QED BY <1>2, <1>4, <2>1
<1> QED BY <1>1, <1>3, <1>4 DEF S

\* the effect of the two steps that also keep what they have read
LEMMA ClaimEffect ==
    ASSUME DeskTypes, NEW q \in Reqs, ClaimAssignment(q)
    PROVE  /\ req' \in [Reqs -> Request] /\ Continues(q) /\ req'[q].pc = "reread"
           /\ req'[q].seen = (IF asg' # asg THEN 1 ELSE 0)
           /\ \A o \in Reqs \ {q} : req'[o] = req[o]
<1> DEFINE r == [req[q] EXCEPT !.pc = "reread", !.seen = IF asg' # asg THEN 1 ELSE 0]
<1>1. req' = [req EXCEPT ![q] = r]
  BY DEF ClaimAssignment
<1>2. req[q] \in Request /\ req \in [Reqs -> Request]
  BY DEF DeskTypes
<1>3. r \in Request
  BY <1>2 DEF Request
<1> QED BY <1>1, <1>2, <1>3 DEF Continues, Request

LEMMA FindEffect ==
    ASSUME DeskTypes, NEW q \in Reqs, FindRead(q)
    PROVE  LET i == FirstReceipt(req[q].c, req[q].by) IN
           /\ req' \in [Reqs -> Request] /\ \A o \in Reqs \ {q} : req'[o] = req[o]
           /\ \/ req'[q] = Idle
              \/ /\ Continues(q) /\ req'[q].pc = "save" /\ req'[q].seen = i
                 /\ req'[q].who = (IF i = 0 THEN req[q].by ELSE receipts[i].who)
                 /\ i = 0 \/ ~(receipts[i].last >= req[q].n)
<1> DEFINE i == FirstReceipt(req[q].c, req[q].by)
           w == IF i = 0 THEN req[q].by ELSE receipts[i].who
           r == [req[q] EXCEPT !.pc = "save", !.seen = i, !.who = w]
<1>1. CASE Done(q)
  BY <1>1, DoneEffect DEF DeskTypes
<1>2. CASE ~(i # 0 /\ receipts[i].last >= req[q].n) /\ req' = [req EXCEPT ![q] = r]
  <2>1. req[q] \in Request /\ receipts \in Seq(Receipt) /\ req \in [Reqs -> Request]
    BY DEF DeskTypes
  <2>2. i = 0 \/ (i \in DOMAIN receipts /\ i \in Nat)
    BY <2>1, FirstFound
  <2>3. i # 0 => receipts[i] \in Receipt
    BY <2>1, <2>2
  <2>4. i \in Nat /\ w \in Callers
    BY <2>1, <2>2, <2>3 DEF Request, Receipt
  <2> HIDE DEF i, w
  <2>5. r \in Request
    BY <2>1, <2>4 DEF Request
  <2>6. req'[q] = r /\ req' \in [Reqs -> Request] /\ \A o \in Reqs \ {q} : req'[o] = req[o]
    BY <1>2, <2>1, <2>5
  <2>7. Continues(q) /\ req'[q].pc = "save" /\ req'[q].seen = i /\ req'[q].who = w
    BY <2>1, <2>6 DEF Request, Continues
  <2> QED BY <1>2, <2>6, <2>7 DEF i, w
<1> QED BY <1>1, <1>2 DEF FindRead

\* a step of a request changes no other request
LEMMA WorkEffect ==
    ASSUME DeskTypes, NEW q \in Reqs, Work(q)
    PROVE  /\ req' \in [Reqs -> Request] /\ \A o \in Reqs \ {q} : req'[o] = req[o]
           /\ req'[q] = Idle \/ Continues(q)
           /\ raced \subseteq raced' /\ started' = started /\ faults' \in 0..MaxFaults
<1>1. req \in [Reqs -> Request] /\ faults \in 0..MaxFaults
  BY DEF DeskTypes
<1>2. raced \subseteq raced' /\ started' = started /\ faults' \in 0..MaxFaults
  <2>1. CASE UNCHANGED <<raced, started, faults>>
    BY <1>1, <2>1
  <2>2. CASE CreateConversation(q)
    BY <1>1, <2>2 DEF CreateConversation
  <2>3. CASE \E what \in {"settings", "lookup"} : Fault(q, what)
    BY <1>1, <2>3, DeskAssumption DEF Fault
  <2> QED
    BY <2>1, <2>2, <2>3
    DEF Work, CountOpen, CountMembers, RemoveMember, Close, FireClosed, FireUnread,
        ClaimAssignment, AnswerClaim, CloseAssignment, SendMessage, requeueOnReply, requeueUnread,
        Requeue, PeerAgentSend, agentJoinPeer, JoinNote, SendPeer, FindRead, SaveRead, Unstarted
<1>3. CASE \/ CreateConversation(q) \/ RemoveMember(q) \/ FireClosed(q) \/ FireUnread(q)
           \/ AnswerClaim(q) \/ CloseAssignment(q) \/ Requeue(q) \/ SendPeer(q) \/ SaveRead(q)
  <2>1. Done(q)
    BY <1>3 DEF CreateConversation, RemoveMember, FireClosed, FireUnread, AnswerClaim,
                CloseAssignment, Requeue, SendPeer, SaveRead
  <2> QED BY <1>1, <1>2, <2>1, DoneEffect
<1>4. CASE \/ CountOpen(q) \/ CountMembers(q) \/ Close(q) \/ SendMessage(q) \/ requeueOnReply(q)
           \/ requeueUnread(q) \/ PeerAgentSend(q) \/ agentJoinPeer(q) \/ JoinNote(q)
  <2>1. \/ Done(q)
        \/ \E pc \in {"count", "insert", "remove", "fire", "look", "queue", "join", "note"} : Goto(q, pc)
    BY <1>4 DEF CountOpen, CountMembers, Close, SendMessage, requeueOnReply, requeueUnread,
                PeerAgentSend, agentJoinPeer, JoinNote
  <2> QED BY <1>1, <1>2, <2>1, DoneEffect, GotoEffect
<1>5. CASE ClaimAssignment(q)
  BY <1>2, <1>5, ClaimEffect
<1>6. CASE FindRead(q)
  BY <1>2, <1>6, FindEffect
<1> QED BY <1>3, <1>4, <1>5, <1>6 DEF Work

\* a request begins
LEMMA BeginEffect ==
    ASSUME req \in [Reqs -> Request], NEW q \in Reqs, NEW r \in Request, Begin(q, r)
    PROVE  /\ req' \in [Reqs -> Request] /\ req'[q] = r /\ \A o \in Reqs \ {q} : req'[o] = req[o]
           /\ raced \subseteq raced' /\ UNCHANGED <<rowVars, histVars, faults>>
           /\ \A o \in Reqs \ {q} : req[o].op = r.op /\ (req[o].c = r.c \/ r.op = "create") =>
                 <<r.op, r.c>> \in raced'
           /\ \A x : x \in raced' \ raced => x = <<r.op, r.c>>
BY DEF Begin

-----------------------------------------------------------------------------
(* The types.                                                              *)

LEMMA TypesInit == Init => DeskTypes
<1> SUFFICES ASSUME Init PROVE DeskTypes
  OBVIOUS
<1>1. PICK s \in Seeds :
        /\ conv = s.conv
        /\ rows = [c \in Convs |-> [p \in People |-> IF p \in s.members[c] THEN 1 ELSE 0]]
        /\ asg = s.asg
  BY DEF Init
<1>2. s.conv \in [Convs -> ConvRow] /\ s.asg \in Seq(Assignment)
  BY SeedsAssumption
<1>3. rows \in [Convs -> [People -> Nat]] /\ conv \in [Convs -> ConvRow] /\ asg \in Seq(Assignment)
  BY <1>1, <1>2
<1>4. req \in [Reqs -> Request]
  BY IdleType DEF Init
<1>5. /\ receipts \in Seq(Receipt) /\ log \in [Convs -> Nat]
      /\ notes \in [Convs -> [Admins -> Nat]] /\ closings \in [Convs -> Nat] /\ granted \subseteq Nat \X Admins
  BY DEF Init
<1>6. started \in 0..MaxRequests /\ faults \in 0..MaxFaults
  BY DeskAssumption DEF Init
<1> QED BY <1>3, <1>4, <1>5, <1>6 DEF DeskTypes

\* the tables and the history, apart from the requests
TableTypes ==
    /\ conv \in [Convs -> ConvRow]
    /\ rows \in [Convs -> [People -> Nat]]
    /\ asg \in Seq(Assignment) /\ receipts \in Seq(Receipt)
    /\ log \in [Convs -> Nat]
    /\ notes \in [Convs -> [Admins -> Nat]] /\ closings \in [Convs -> Nat]
    /\ granted \subseteq Nat \X Admins

LEMMA CountUp == \A S : \A f \in [S -> Nat] : \A x \in S : [f EXCEPT ![x] = f[x] + 1] \in [S -> Nat]
OBVIOUS

LEMMA CountUpAt ==
    ASSUME NEW S, NEW T, NEW f \in [S -> [T -> Nat]], NEW x \in S, NEW y \in T
    PROVE  [f EXCEPT ![x] = [f[x] EXCEPT ![y] = f[x][y] + 1]] \in [S -> [T -> Nat]]
<1>1. [f[x] EXCEPT ![y] = f[x][y] + 1] \in [T -> Nat]
  BY CountUp
<1> QED BY <1>1

LEMMA SeqExcept ==
    ASSUME NEW S, NEW s \in Seq(S), NEW i \in DOMAIN s, NEW v \in S
    PROVE  /\ [s EXCEPT ![i] = v] \in Seq(S) /\ Len([s EXCEPT ![i] = v]) = Len(s)
           /\ \A j \in DOMAIN s : [s EXCEPT ![i] = v][j] = (IF j = i THEN v ELSE s[j])
OBVIOUS

\* the member rows of a new conversation: one for each member, or two
LEMMA CreateRows ==
    ASSUME rows \in [Convs -> [People -> Nat]], NEW q \in Reqs, req[q].c \in Convs,
           CreateConversation(q)
    PROVE  /\ rows' \in [Convs -> [People -> Nat]]
           /\ \A c \in Convs \ {req[q].c} : rows'[c] = rows[c]
           /\ \A p \in People : rows'[req[q].c][p] > 0 => p \in req[q].members
           /\ \A p \in People : p \in req[q].members => rows'[req[q].c][p] > 0
           /\ \A p \in People : rows'[req[q].c][p] > 1 => <<"twice", req[q].c>> \in raced'
<1>1. PICK again \in SUBSET req[q].members :
        /\ rows' = [rows EXCEPT ![req[q].c] = [p \in People |->
                       IF p \in again THEN 2 ELSE IF p \in req[q].members THEN 1 ELSE 0]]
        /\ raced' = raced \cup (IF again # {} THEN {<<"twice", req[q].c>>} ELSE {})
  BY DEF CreateConversation
<1>2. [p \in People |-> IF p \in again THEN 2 ELSE IF p \in req[q].members THEN 1 ELSE 0] \in [People -> Nat]
  OBVIOUS
<1>3. \A p \in People : rows'[req[q].c][p] = (IF p \in again THEN 2 ELSE IF p \in req[q].members THEN 1 ELSE 0)
  BY <1>1, <1>2
<1> QED BY <1>1, <1>2, <1>3

LEMMA WorkTables ==
    ASSUME DeskBase, NEW q \in Reqs, Work(q)
    PROVE  TableTypes'
<1>1. TableTypes /\ req[q] \in Request /\ ReqHolds(req[q])
  BY DEF DeskBase, DeskTypes, TableTypes
<1>2. CASE \/ CountOpen(q) \/ CountMembers(q) \/ requeueOnReply(q) \/ requeueUnread(q)
           \/ PeerAgentSend(q) \/ FindRead(q)
  BY <1>1, <1>2 DEF CountOpen, CountMembers, requeueOnReply, requeueUnread, PeerAgentSend, FindRead,
                    rowVars, histVars, TableTypes
<1>3. CASE CreateConversation(q)
  <2>1. Queued(req[q].c) \in Assignment
    BY <1>1 DEF Queued, Assignment, Request
  <2>2. asg' \in Seq(Assignment)
    BY <1>1, <1>3, <2>1 DEF CreateConversation, TableTypes
  <2>3. req[q].row \in ConvRow /\ req[q].c \in Convs
    BY <1>1 DEF Request
  <2>4. conv' \in [Convs -> ConvRow] /\ rows' \in [Convs -> [People -> Nat]]
    BY <1>1, <1>3, <2>3, CreateRows DEF CreateConversation, TableTypes
  <2> QED BY <1>1, <1>3, <2>2, <2>4 DEF CreateConversation, histVars, TableTypes
<1>4. CASE RemoveMember(q)
  <2>1. rows' \in [Convs -> [People -> Nat]]
    BY <1>1, <1>4 DEF RemoveMember, TableTypes
  <2> QED BY <1>1, <1>4, <2>1 DEF RemoveMember, histVars, TableTypes
<1>5. CASE Close(q)
  <2>1. conv' \in [Convs -> ConvRow]
    BY <1>1, <1>5 DEF Close, ConvRow, TableTypes
  <2> QED BY <1>1, <1>5, <2>1 DEF Close, histVars, TableTypes
<1>6. CASE FireClosed(q) \/ FireUnread(q)
  <2>1. closings' \in [Convs -> Nat]
    BY <1>1, <1>6, CountUp DEF FireClosed, FireUnread, TableTypes, Request
  <2> QED BY <1>1, <1>6, <2>1 DEF FireClosed, FireUnread, rowVars, TableTypes
<1>7. CASE ClaimAssignment(q) \/ CloseAssignment(q)
  <2>1. req[q].n \in DOMAIN asg /\ req[q].by \in Admins
    BY <1>1, <1>7 DEF ClaimAssignment, CloseAssignment, ReqHolds
  <2>2. asg[req[q].n] \in Assignment
    BY <1>1, <2>1 DEF TableTypes
  <2>3. \A to \in {"assigned", "closed"}, who \in Admins \cup {Key} :
           [asg EXCEPT ![req[q].n] = [asg[req[q].n] EXCEPT !.status = to, !.who = who]] \in Seq(Assignment)
    <3>1. \A to \in {"assigned", "closed"}, who \in Admins \cup {Key} :
             [asg[req[q].n] EXCEPT !.status = to, !.who = who] \in Assignment
      BY <2>2 DEF Assignment
    <3>2. asg \in Seq(Assignment)
      BY <1>1 DEF TableTypes
    <3>3. \A a \in Assignment : [asg EXCEPT ![req[q].n] = a] \in Seq(Assignment)
      BY <2>1, <3>2, SeqExcept
    <3> QED BY <3>1, <3>3
  <2>4. asg[req[q].n].who \in Admins \cup {Key}
    BY <2>2 DEF Assignment
  <2>5. asg' = asg \/ \E to \in {"assigned", "closed"}, who \in Admins \cup {Key} :
           asg' = [asg EXCEPT ![req[q].n] = [asg[req[q].n] EXCEPT !.status = to, !.who = who]]
    BY <1>7, <2>1, <2>4 DEF ClaimAssignment, CloseAssignment, Transition
  <2>6. asg' \in Seq(Assignment)
    BY <1>1, <2>3, <2>5 DEF TableTypes
  <2> QED BY <1>1, <1>7, <2>6 DEF ClaimAssignment, CloseAssignment, histVars, TableTypes
<1>8. CASE AnswerClaim(q)
  <2>1. req[q].n \in Nat /\ req[q].by \in Admins
    BY <1>1, <1>8 DEF AnswerClaim, ReqHolds, Request
  <2> QED BY <1>1, <1>8, <2>1 DEF AnswerClaim, rowVars, TableTypes
<1>9. CASE SendMessage(q) \/ SendPeer(q)
  <2>1. log' \in [Convs -> Nat]
    <3>1. req[q].c \in Convs /\ log \in [Convs -> Nat]
      BY <1>1 DEF Request, TableTypes
    <3>2. log' = [log EXCEPT ![req[q].c] = log[req[q].c] + 1]
      BY <1>9 DEF SendMessage, SendPeer
    <3> QED BY <3>1, <3>2, CountUp
  <2> QED BY <1>1, <1>9, <2>1 DEF SendMessage, SendPeer, histVars, TableTypes
<1>10. CASE Requeue(q)
  <2>1. Queued(req[q].c) \in Assignment
    BY <1>1 DEF Queued, Assignment, Request
  <2>2. asg' \in Seq(Assignment)
    BY <1>1, <1>10, <2>1 DEF Requeue, TableTypes
  <2> QED BY <1>1, <1>10, <2>2 DEF Requeue, histVars, TableTypes
<1>11. CASE agentJoinPeer(q)
  <2>1. rows' = rows \/ rows' = [rows EXCEPT ![req[q].c] = [rows[req[q].c] EXCEPT ![req[q].by] = 1]]
    BY <1>11 DEF agentJoinPeer
  <2>2. req[q].c \in Convs /\ rows \in [Convs -> [People -> Nat]]
    BY <1>1 DEF Request, TableTypes
  <2>3. [rows[req[q].c] EXCEPT ![req[q].by] = 1] \in [People -> Nat]
    BY <2>2
  <2>4. rows' \in [Convs -> [People -> Nat]]
    BY <2>1, <2>2, <2>3
  <2> QED BY <1>1, <1>11, <2>4 DEF agentJoinPeer, histVars, TableTypes
<1>12. CASE JoinNote(q)
  <2>1. log' \in [Convs -> Nat] /\ notes' \in [Convs -> [Admins -> Nat]]
    <3>1. req[q].c \in Convs /\ req[q].by \in Admins
      BY <1>1, <1>12 DEF JoinNote, Request, ReqHolds
    <3>2. log' = [log EXCEPT ![req[q].c] = log[req[q].c] + 1]
      BY <1>12 DEF JoinNote
    <3>3. notes' = [notes EXCEPT ![req[q].c] = [notes[req[q].c] EXCEPT ![req[q].by] = notes[req[q].c][req[q].by] + 1]]
      BY <1>12 DEF JoinNote
    <3>4. log \in [Convs -> Nat] /\ notes \in [Convs -> [Admins -> Nat]]
      BY <1>1 DEF TableTypes
    <3> QED BY <3>1, <3>2, <3>3, <3>4, CountUp, CountUpAt
  <2> QED BY <1>1, <1>12, <2>1 DEF JoinNote, TableTypes
<1>13. CASE SaveRead(q)
  <2> DEFINE row == [conv |-> req[q].c, who |-> req[q].who, last |-> req[q].n]
  <2>1. row \in Receipt
    BY <1>1 DEF Receipt, Request
  <2>2. receipts' = IF req[q].seen = 0 THEN Append(receipts, row) ELSE [receipts EXCEPT ![req[q].seen] = row]
    BY <1>13 DEF SaveRead
  <2> HIDE DEF row
  <2>3. receipts' \in Seq(Receipt)
    <3>1. receipts \in Seq(Receipt) /\ (req[q].seen # 0 => req[q].seen \in DOMAIN receipts)
      BY <1>1, <1>13 DEF TableTypes, ReqHolds, SaveRead
    <3>2. Append(receipts, row) \in Seq(Receipt)
      BY <2>1, <3>1
    <3> QED BY <2>1, <2>2, <3>1, <3>2, SeqExcept
  <2> QED BY <1>1, <1>13, <2>3 DEF SaveRead, histVars, TableTypes
<1> QED
  BY <1>2, <1>3, <1>4, <1>5, <1>6, <1>7, <1>8, <1>9, <1>10, <1>11, <1>12, <1>13 DEF Work

\* a change of status and owner of an assignment
LEMMA TransitionEffect ==
    ASSUME asg \in Seq(Assignment), NEW i \in DOMAIN asg, NEW from, NEW to, NEW who,
           Transition(i, from, to, who)
    PROVE  /\ DOMAIN asg' = DOMAIN asg /\ \A j \in DOMAIN asg : asg'[j].conv = asg[j].conv
           /\ \A j \in DOMAIN asg \ {i} : asg'[j] = asg[j]
           /\ \/ asg' = asg /\ asg[i].status \notin from
              \/ asg[i].status \in from /\ asg'[i].status = to /\ asg'[i].who = who
<1>1. CASE asg[i].status \notin from
  BY <1>1 DEF Transition
<1>2. CASE asg[i].status \in from
  <2> DEFINE a == [asg[i] EXCEPT !.status = to, !.who = who]
  <2>1. asg' = [asg EXCEPT ![i] = a]
    BY <1>2 DEF Transition
  <2>2. asg[i] \in Assignment
    OBVIOUS
  <2>3. a.conv = asg[i].conv /\ a.status = to /\ a.who = who
    BY <2>2 DEF Assignment
  <2> HIDE DEF a
  <2>4. DOMAIN asg' = DOMAIN asg /\ asg'[i] = a /\ \A j \in DOMAIN asg \ {i} : asg'[j] = asg[j]
    BY <2>1
  <2> QED BY <1>2, <2>3, <2>4
<1> QED BY <1>1, <1>2

LEMMA AppendEffect ==
    ASSUME NEW S, NEW s \in Seq(S), NEW v
    PROVE  /\ DOMAIN Append(s, v) = DOMAIN s \cup {Len(s) + 1} /\ Len(s) + 1 \notin DOMAIN s
           /\ \A i \in DOMAIN s : Append(s, v)[i] = s[i]
           /\ Append(s, v)[Len(s) + 1] = v /\ \A i \in DOMAIN s : i < Len(s) + 1
OBVIOUS

\* an assignment is added at the end, queued and nobody's
LEMMA QueueEffect ==
    ASSUME asg \in Seq(Assignment), NEW c, asg' = Append(asg, Queued(c))
    PROVE  LET l == Len(asg) + 1 IN
           /\ l \notin DOMAIN asg /\ DOMAIN asg' = DOMAIN asg \cup {l} /\ \A i \in DOMAIN asg : i < l
           /\ \A i \in DOMAIN asg : asg'[i] = asg[i]
           /\ asg'[l].conv = c /\ asg'[l].status = "queued" /\ asg'[l].who = Key
<1>1. asg'[Len(asg) + 1] = Queued(c)
  BY AppendEffect
<1> QED BY <1>1, AppendEffect DEF Queued

\* conversations, assignments and receipts are never taken away
Grows ==
    /\ \A c \in Convs : conv[c].status # "none" =>
          conv'[c].status # "none" /\ conv'[c].kind = conv[c].kind /\ conv'[c].queue = conv[c].queue
    /\ DOMAIN asg \subseteq DOMAIN asg' /\ \A i \in DOMAIN asg : asg'[i].conv = asg[i].conv
    /\ DOMAIN receipts \subseteq DOMAIN receipts'
    /\ \A i \in DOMAIN receipts : receipts'[i].conv = receipts[i].conv

LEMMA WorkGrows ==
    ASSUME DeskBase, NEW q \in Reqs, Work(q)
    PROVE  /\ Grows
           /\ \A c \in Convs : conv'[c] = conv[c] \/ (req[q].op \in {"create", "close"} /\ req[q].c = c)
           /\ \A i \in DOMAIN asg' : conv'[asg'[i].conv].status # "none"
<1>1. /\ conv \in [Convs -> ConvRow] /\ asg \in Seq(Assignment) /\ receipts \in Seq(Receipt)
      /\ req[q] \in Request /\ ReqHolds(req[q]) /\ AssignedExists
      /\ \A i \in DOMAIN asg : asg[i].conv \in Convs
  BY AsgTypes DEF DeskBase, DeskTypes
<1>2. req[q].c \in Convs
  BY <1>1 DEF Request
<1>3. CASE conv' = conv /\ asg' = asg /\ receipts' = receipts
  BY <1>1, <1>3 DEF Grows, AssignedExists
<1>4. CASE CreateConversation(q)
  <2>1. req[q].op = "create" /\ req[q].row.status = "open" /\ conv[req[q].c].status = "none"
    BY <1>1, <1>4 DEF CreateConversation, ReqHolds
  <2>2. conv'[req[q].c] = req[q].row /\ \A c \in Convs \ {req[q].c} : conv'[c] = conv[c]
    BY <1>1, <1>2, <1>4 DEF CreateConversation
  <2>3. receipts' = receipts /\ (asg' = asg \/ asg' = Append(asg, Queued(req[q].c)))
    BY <1>4 DEF CreateConversation
  <2>4. /\ DOMAIN asg \subseteq DOMAIN asg' /\ \A i \in DOMAIN asg : asg'[i] = asg[i]
        /\ \A i \in DOMAIN asg' : i \in DOMAIN asg \/ asg'[i].conv = req[q].c
    BY <1>1, <2>3, QueueEffect
  <2> QED BY <1>1, <1>2, <2>1, <2>2, <2>3, <2>4 DEF Grows, AssignedExists
<1>5. CASE Close(q)
  <2>1. req[q].op = "close" /\ conv[req[q].c].status # "none" /\ asg' = asg /\ receipts' = receipts
    BY <1>1, <1>5 DEF Close, ReqHolds
  <2>2. /\ \A c \in Convs \ {req[q].c} : conv'[c] = conv[c]
        /\ conv'[req[q].c] = [conv[req[q].c] EXCEPT !.status = "closed"]
    BY <1>1, <1>2, <1>5 DEF Close
  <2>3. /\ conv'[req[q].c].status = "closed" /\ conv'[req[q].c].kind = conv[req[q].c].kind
        /\ conv'[req[q].c].queue = conv[req[q].c].queue
    BY <1>1, <1>2, <2>2 DEF ConvRow
  <2> QED BY <1>1, <1>2, <2>1, <2>2, <2>3 DEF Grows, AssignedExists
<1>6. CASE ClaimAssignment(q) \/ CloseAssignment(q)
  <2>1. conv' = conv /\ receipts' = receipts /\ req[q].n \in DOMAIN asg
    BY <1>1, <1>6 DEF ClaimAssignment, CloseAssignment, ReqHolds
  <2>2. DOMAIN asg' = DOMAIN asg /\ \A j \in DOMAIN asg : asg'[j].conv = asg[j].conv
    BY <1>1, <1>6, <2>1, TransitionEffect DEF ClaimAssignment, CloseAssignment
  <2> QED BY <1>1, <2>1, <2>2 DEF Grows, AssignedExists
<1>7. CASE Requeue(q)
  <2>1. conv' = conv /\ receipts' = receipts /\ asg' = Append(asg, Queued(req[q].c))
        /\ conv[req[q].c].status # "none"
    BY <1>1, <1>7 DEF Requeue, ReqHolds
  <2>2. /\ DOMAIN asg \subseteq DOMAIN asg' /\ \A i \in DOMAIN asg : asg'[i] = asg[i]
        /\ \A i \in DOMAIN asg' : i \in DOMAIN asg \/ asg'[i].conv = req[q].c
    BY <1>1, <2>1, QueueEffect
  <2> QED BY <1>1, <2>1, <2>2 DEF Grows, AssignedExists
<1>8. CASE SaveRead(q)
  <2> DEFINE row == [conv |-> req[q].c, who |-> req[q].who, last |-> req[q].n]
  <2>1. /\ conv' = conv /\ asg' = asg
        /\ receipts' = IF req[q].seen = 0 THEN Append(receipts, row) ELSE [receipts EXCEPT ![req[q].seen] = row]
        /\ req[q].seen # 0 => req[q].seen \in DOMAIN receipts /\ receipts[req[q].seen].conv = req[q].c
        /\ row.conv = req[q].c
    BY <1>1, <1>8 DEF SaveRead, ReqHolds
  <2> HIDE DEF row
  <2>2. DOMAIN receipts \subseteq DOMAIN receipts'
        /\ \A i \in DOMAIN receipts : receipts'[i].conv = receipts[i].conv
    <3>1. CASE req[q].seen = 0
      BY <1>1, <2>1, <3>1, AppendEffect
    <3>2. CASE req[q].seen # 0
      BY <1>1, <2>1, <3>2
    <3> QED BY <3>1, <3>2
  <2> QED BY <1>1, <2>1, <2>2 DEF Grows, AssignedExists
<1>9. CASE \/ CountOpen(q) \/ CountMembers(q) \/ RemoveMember(q) \/ FireClosed(q) \/ FireUnread(q)
           \/ AnswerClaim(q)
           \/ SendMessage(q) \/ requeueOnReply(q) \/ requeueUnread(q) \/ PeerAgentSend(q) \/ agentJoinPeer(q)
           \/ JoinNote(q) \/ SendPeer(q) \/ FindRead(q)
  <2>1. conv' = conv /\ asg' = asg /\ receipts' = receipts
    BY <1>9 DEF CountOpen, CountMembers, RemoveMember, FireClosed, FireUnread, AnswerClaim, SendMessage,
                requeueOnReply, requeueUnread, PeerAgentSend, agentJoinPeer, JoinNote, SendPeer, FindRead, rowVars
  <2> QED BY <1>3, <2>1
<1> QED BY <1>4, <1>5, <1>6, <1>7, <1>8, <1>9 DEF Work

\* what a request relies on lasts as long as the rows do
LEMMA HoldsLast ==
    ASSUME Grows, NEW r \in Request, ReqHolds(r),
           r.op = "create" => conv'[r.c].status = "none"
    PROVE  ReqHolds(r)'
<1>1. r.c \in Convs
  BY DEF Request
<1>2. NewMembers(r)' <=> NewMembers(r)
  BY DEF NewMembers
<1>3. RequesterOnly(Caller(r.by))' <=> RequesterOnly(Caller(r.by))
  OBVIOUS
<1> QED BY <1>1, <1>2, <1>3 DEF Grows, ReqHolds

LEMMA WorkHolds ==
    ASSUME DeskBase, NEW q \in Reqs, Work(q)
    PROVE  \A o \in Reqs : ReqHolds(req[o])'
<1> SUFFICES ASSUME NEW o \in Reqs PROVE ReqHolds(req[o])'
  OBVIOUS
<1>1. /\ req \in [Reqs -> Request] /\ req[q] \in Request /\ req[o] \in Request
      /\ ReqHolds(req[q]) /\ ReqHolds(req[o]) /\ OverlapKnown
  BY DEF DeskBase, DeskTypes
<1>2. /\ req' \in [Reqs -> Request] /\ \A x \in Reqs \ {q} : req'[x] = req[x]
      /\ req'[q] = Idle \/ Continues(q)
  BY WorkEffect DEF DeskBase
<1>3. /\ Grows
      /\ \A c \in Convs : conv'[c] = conv[c] \/ (req[q].op \in {"create", "close"} /\ req[q].c = c)
  BY WorkGrows
<1>4. CASE o # q
  <2>1. req[o].op = "create" => conv'[req[o].c].status = "none"
    BY <1>1, <1>3, <1>4 DEF OverlapKnown, ReqHolds, Request
  <2> QED BY <1>1, <1>2, <1>3, <1>4, <2>1, HoldsLast
<1>5. CASE o = q /\ req'[q] = Idle
  BY <1>5, IdleType DEF ReqHolds
<1>6. CASE o = q /\ FindRead(q) /\ req'[q] # Idle
  <2> DEFINE i == FirstReceipt(req[q].c, req[q].by)
  <2>1. /\ Continues(q) /\ req'[q].seen = i /\ req[q].op = "read" /\ UNCHANGED <<conv, receipts>>
    BY <1>6, FindEffect DEF DeskBase, FindRead, rowVars
  <2>2. i # 0 => i \in FindReceipt(req[q].c, req[q].by) /\ i \in DOMAIN receipts
    BY FirstFound DEF DeskBase, DeskTypes
  <2>3. i # 0 => i \in DOMAIN receipts /\ receipts[i].conv = req[q].c
    BY <2>2 DEF FindReceipt
  <2> QED BY <1>1, <1>6, <2>1, <2>3 DEF ReqHolds, Continues
<1>7. CASE o = q /\ ~FindRead(q) /\ req'[q] # Idle
  <2>1. \/ CountOpen(q) \/ CountMembers(q) \/ Close(q) \/ SendMessage(q) \/ requeueOnReply(q) \/ requeueUnread(q)
        \/ PeerAgentSend(q) \/ agentJoinPeer(q) \/ JoinNote(q) \/ ClaimAssignment(q)
    BY <1>1, <1>7, DoneEffect DEF Work, CreateConversation, RemoveMember, FireClosed, FireUnread, AnswerClaim,
       CloseAssignment, Requeue, SendPeer, SaveRead
  <2>2. req[q].op # "read" /\ Continues(q)
    BY <1>2, <1>7, <2>1 DEF CountOpen, CountMembers, Close, SendMessage, requeueOnReply, requeueUnread,
       PeerAgentSend, agentJoinPeer, JoinNote, ClaimAssignment
  <2>3. req[q].op = "remove" => req'[q].who = req[q].who
    <3>1. CASE CountMembers(q)
      BY <1>1, <1>7, <3>1, DoneEffect, GotoEffect DEF CountMembers
    <3> QED BY <2>1, <3>1 DEF CountOpen, Close, SendMessage, requeueOnReply, requeueUnread, PeerAgentSend,
       agentJoinPeer, JoinNote, ClaimAssignment
  <2>4. req[q].op = "create" => conv' = conv
    BY <2>1 DEF CountOpen, Close, SendMessage, requeueOnReply, requeueUnread, PeerAgentSend, rowVars,
       agentJoinPeer, JoinNote, ClaimAssignment, CountMembers
  <2>5. ReqHolds(req[q])
    BY <1>1
  <2>6. req[q].c \in Convs
    BY <1>1 DEF Request
  <2>7. NewMembers(req[q]) => NewMembers(req'[q])
    BY <2>2 DEF NewMembers, Continues
  <2> QED BY <1>3, <1>7, <2>2, <2>3, <2>4, <2>5, <2>6, <2>7 DEF ReqHolds, Continues, Grows, NewMembers
<1> QED BY <1>2, <1>4, <1>5, <1>6, <1>7

\* overlaps stay known while no request begins
LEMMA OverlapLasts ==
    ASSUME OverlapKnown, raced \subseteq raced',
           \A q \in Reqs : \/ req'[q].op = "idle"
                           \/ req'[q].op = req[q].op /\ req'[q].c = req[q].c
    PROVE  OverlapKnown'
BY DEF OverlapKnown

LEMMA WorkBase ==
    ASSUME DeskBase, NEW q \in Reqs, Work(q)
    PROVE  DeskBase'
<1>1. DeskTypes /\ OverlapKnown
  BY DEF DeskBase
<1>2. /\ req' \in [Reqs -> Request] /\ \A o \in Reqs \ {q} : req'[o] = req[o]
      /\ req'[q] = Idle \/ Continues(q)
      /\ raced \subseteq raced' /\ started' = started /\ faults' \in 0..MaxFaults
  BY <1>1, WorkEffect
<1>3. DeskTypes'
  BY <1>1, <1>2, WorkTables DEF DeskTypes, TableTypes
<1>4. AssignedExists'
  BY WorkGrows DEF AssignedExists
<1>5. OverlapKnown'
  BY <1>1, <1>2, OverlapLasts, IdleType DEF Continues
<1> QED BY <1>3, <1>4, <1>5, WorkHolds DEF DeskBase

LEMMA StartBase ==
    ASSUME DeskBase, NEW q \in Reqs, Start(q)
    PROVE  DeskBase'
<1>1. DeskTypes /\ OverlapKnown /\ AssignedExists /\ req \in [Reqs -> Request]
      /\ \A o \in Reqs : ReqHolds(req[o])
  BY DEF DeskBase, DeskTypes
<1>2. PICK r \in Request :
        /\ req[q].op = "idle" /\ Begin(q, r) /\ started < MaxRequests
        /\ <<r.op, r.pc>> \in FirstStages /\ ReqHolds(r)
        /\ r.op = "create" => \A o \in Reqs : req[o].op = "create" => req[o].c # r.c
  BY StartEffect
<1>3. /\ req' \in [Reqs -> Request] /\ req'[q] = r /\ \A o \in Reqs \ {q} : req'[o] = req[o]
      /\ raced \subseteq raced' /\ UNCHANGED <<rowVars, histVars, faults>>
      /\ \A o \in Reqs \ {q} : req[o].op = r.op /\ (req[o].c = r.c \/ r.op = "create") =>
            <<r.op, r.c>> \in raced'
  BY <1>1, <1>2, BeginEffect
<1>4. DeskTypes'
  <2>1. started' \in 0..MaxRequests
    BY <1>1, <1>2, DeskAssumption DEF Begin, DeskTypes
  <2> QED BY <1>1, <1>3, <2>1 DEF DeskTypes, rowVars, histVars
<1>5. AssignedExists'
  BY <1>1, <1>3 DEF AssignedExists, rowVars
<1>6. \A o \in Reqs : ReqHolds(req[o])'
  BY <1>1, <1>2, <1>3 DEF ReqHolds, rowVars, NewMembers
<1>7. OverlapKnown'
  <2>1. r.c \in Convs
    BY DEF Request
  <2> SUFFICES ASSUME NEW x \in Reqs, NEW y \in Reqs, x # y, req'[x].op = req'[y].op, req'[x].op # "idle"
               PROVE  /\ req'[x].c = req'[y].c => <<req'[x].op, req'[x].c>> \in raced' /\ req'[x].op # "create"
                      /\ req'[x].op = "create" => \E c \in Convs : <<"create", c>> \in raced'
    BY DEF OverlapKnown
  <2>2. CASE x = q
    BY <1>2, <1>3, <2>1, <2>2
  <2>3. CASE y = q
    BY <1>2, <1>3, <2>1, <2>3
  <2>4. CASE x # q /\ y # q
    BY <1>1, <1>3, <2>4 DEF OverlapKnown
  <2> QED BY <2>2, <2>3, <2>4
<1> QED BY <1>4, <1>5, <1>6, <1>7 DEF DeskBase

LEMMA CutOffBase ==
    ASSUME DeskBase, NEW q \in Reqs, CutOff(q)
    PROVE  DeskBase'
<1>1. DeskTypes /\ OverlapKnown /\ AssignedExists /\ req \in [Reqs -> Request]
      /\ \A o \in Reqs : ReqHolds(req[o])
  BY DEF DeskBase, DeskTypes
<1>2. /\ req' \in [Reqs -> Request] /\ req'[q].op = "idle" /\ \A o \in Reqs \ {q} : req'[o] = req[o]
  BY <1>1, DoneEffect DEF CutOff, Fault
<1>3. /\ raced \subseteq raced' /\ UNCHANGED <<rowVars, histVars, started>>
      /\ faults < MaxFaults /\ faults' = faults + 1
  BY DEF CutOff, Fault
<1>4. faults' \in 0..MaxFaults
  BY <1>1, <1>3, DeskAssumption DEF DeskTypes
<1>5. DeskTypes'
  BY <1>1, <1>2, <1>3, <1>4 DEF DeskTypes, rowVars, histVars
<1>6. AssignedExists'
  BY <1>1, <1>3 DEF AssignedExists, rowVars
<1>7. \A o \in Reqs : ReqHolds(req[o])'
  BY <1>1, <1>2, <1>3 DEF ReqHolds, rowVars, NewMembers
<1>8. OverlapKnown'
  BY <1>1, <1>2, <1>3, OverlapLasts
<1> QED BY <1>5, <1>6, <1>7, <1>8 DEF DeskBase

\* the writes of one statement
Written ==
    \/ \E c \in Convs, u \in Users : AddMember(c, u)
    \/ \E c \in Convs, u, v \in Users : Remap(c, u, v)
    \/ \E b \in Callers, c \in Convs : AddAssignment(b, c)

\* Remap gives a user's rows and receipts to another
LEMMA RemapEffect ==
    ASSUME DeskTypes, NEW c \in Convs, NEW u \in Users, NEW v \in Users, Remap(c, u, v)
    PROVE  /\ rows' \in [Convs -> [People -> Nat]]
           /\ \A d \in Convs \ {c} : rows'[d] = rows[d]
           /\ \A p \in People \ {u, v} : rows'[c][p] = rows[c][p]
           /\ u # v /\ rows'[c][u] = 0 /\ rows[c][u] > 0 /\ rows'[c][v] = rows[c][v] + rows[c][u]
           /\ receipts' \in Seq(Receipt) /\ DOMAIN receipts' = DOMAIN receipts
           /\ \A i \in DOMAIN receipts :
                /\ receipts'[i].conv = receipts[i].conv /\ receipts'[i].last = receipts[i].last
                /\ receipts[i].conv # c => receipts'[i] = receipts[i]
<1>1. rows \in [Convs -> [People -> Nat]] /\ receipts \in Seq(Receipt) /\ u \in People /\ v \in People
  BY DEF DeskTypes, People
<1>2. u # v /\ rows[c][u] > 0
  BY DEF Remap
<1> DEFINE mid == [rows[c] EXCEPT ![v] = rows[c][v] + rows[c][u]]
           new == [mid EXCEPT ![u] = 0]
<1>3. rows' = [rows EXCEPT ![c] = new]
  <2>1. rows' = [[rows EXCEPT ![c] = mid] EXCEPT ![c] = [[rows EXCEPT ![c] = mid][c] EXCEPT ![u] = 0]]
    BY DEF Remap
  <2>2. [rows EXCEPT ![c] = mid][c] = mid
    BY <1>1
  <2> HIDE DEF mid
  <2> QED BY <1>1, <2>1, <2>2
<1>4. rows[c] \in [People -> Nat] /\ mid \in [People -> Nat]
  BY <1>1
<1>5. new \in [People -> Nat] /\ new[u] = 0 /\ new[v] = rows[c][v] + rows[c][u]
      /\ \A p \in People \ {u, v} : new[p] = rows[c][p]
  BY <1>1, <1>2, <1>4
<1> HIDE DEF new
<1>6. rows' \in [Convs -> [People -> Nat]] /\ rows'[c] = new /\ \A d \in Convs \ {c} : rows'[d] = rows[d]
  BY <1>1, <1>3, <1>5
<1> DEFINE moved(i) == IF receipts[i].conv = c /\ receipts[i].who = u
                       THEN [receipts[i] EXCEPT !.who = v] ELSE receipts[i]
<1>7. receipts' = [i \in DOMAIN receipts |-> moved(i)]
  BY DEF Remap
<1>8. \A i \in DOMAIN receipts : receipts[i] \in Receipt
  BY <1>1
<1>9. \A i \in DOMAIN receipts :
         /\ moved(i) \in Receipt /\ moved(i).conv = receipts[i].conv /\ moved(i).last = receipts[i].last
         /\ receipts[i].conv # c => moved(i) = receipts[i]
  BY <1>1, <1>8 DEF Receipt, Callers
<1> HIDE DEF moved
<1>10. receipts' \in Seq(Receipt) /\ DOMAIN receipts' = DOMAIN receipts
       /\ \A i \in DOMAIN receipts : receipts'[i] = moved(i)
  <2>1. DOMAIN receipts = 1..Len(receipts) /\ Len(receipts) \in Nat
    BY <1>1
  <2> QED BY <1>7, <1>9, <2>1
<1> QED BY <1>2, <1>5, <1>6, <1>9, <1>10

LEMMA WrittenBase ==
    ASSUME DeskBase, Written
    PROVE  DeskBase' /\ UNCHANGED <<conv, req, log, notes, closings, granted, faults>> /\ raced \subseteq raced'
<1>1. DeskTypes /\ OverlapKnown /\ AssignedExists /\ req \in [Reqs -> Request]
      /\ \A o \in Reqs : ReqHolds(req[o])
  BY DEF DeskBase, DeskTypes
<1>2. /\ UNCHANGED <<conv, req, log, notes, closings, granted, faults>> /\ raced \subseteq raced'
      /\ started < MaxRequests /\ started' = started + 1
  BY DEF Written, AddMember, Remap, AddAssignment, AtOnce, histVars
<1>3. started' \in 0..MaxRequests
  BY <1>1, <1>2, DeskAssumption DEF DeskTypes
<1>4. /\ rows' \in [Convs -> [People -> Nat]] /\ asg' \in Seq(Assignment) /\ receipts' \in Seq(Receipt)
      /\ Grows /\ AssignedExists'
  <2>1. ASSUME NEW c \in Convs, NEW u \in Users, AddMember(c, u) PROVE <1>4!:
    <3>1. rows' = [rows EXCEPT ![c] = [rows[c] EXCEPT ![u] = rows[c][u] + 1]] /\ UNCHANGED <<asg, receipts>>
      BY <2>1 DEF AddMember
    <3>2. rows' \in [Convs -> [People -> Nat]]
      BY <1>1, <3>1, CountUpAt DEF DeskTypes, People
    <3> QED BY <1>1, <1>2, <3>1, <3>2 DEF DeskTypes, Grows, AssignedExists
  <2>2. ASSUME NEW c \in Convs, NEW u \in Users, NEW v \in Users, Remap(c, u, v) PROVE <1>4!:
    <3>1. asg' = asg
      BY <2>2 DEF Remap
    <3> QED BY <1>1, <1>2, <2>2, <3>1, RemapEffect DEF DeskTypes, Grows, AssignedExists
  <2>3. ASSUME NEW b \in Callers, NEW c \in Convs, AddAssignment(b, c) PROVE <1>4!:
    <3>1. asg' = Append(asg, Queued(c)) /\ UNCHANGED <<rows, receipts>> /\ conv[c].status # "none"
      BY <2>3 DEF AddAssignment, May, Exists
    <3>2. Queued(c) \in Assignment
      BY DEF Queued, Assignment
    <3>3. asg' \in Seq(Assignment)
      BY <1>1, <3>1, <3>2 DEF DeskTypes
    <3>4. /\ DOMAIN asg \subseteq DOMAIN asg' /\ \A i \in DOMAIN asg : asg'[i] = asg[i]
          /\ \A i \in DOMAIN asg' : i \in DOMAIN asg \/ asg'[i].conv = c
      BY <1>1, <3>1, QueueEffect DEF DeskTypes
    <3> QED BY <1>1, <1>2, <3>1, <3>3, <3>4 DEF DeskTypes, Grows, AssignedExists
  <2> QED BY <2>1, <2>2, <2>3 DEF Written
<1>5. DeskTypes'
  BY <1>1, <1>2, <1>3, <1>4 DEF DeskTypes
<1>6. OverlapKnown'
  BY <1>1, <1>2, OverlapLasts
<1>7. \A o \in Reqs : ReqHolds(req[o])'
  BY <1>1, <1>2, <1>4 DEF ReqHolds, NewMembers, Grows
<1> QED BY <1>2, <1>4, <1>5, <1>6, <1>7 DEF DeskBase

\* the writes of one statement leave the operators' rows alone
LEMMA WrittenAdmins ==
    ASSUME DeskTypes, Written
    PROVE  \A c \in Convs, a \in Admins : rows'[c][a] = rows[c][a]
<1>0. rows \in [Convs -> [People -> Nat]] /\ \A a \in Admins : a \in People /\ a \notin Users
  BY DeskAssumption DEF DeskTypes, People
<1>1. ASSUME NEW d \in Convs, NEW u \in Users, AddMember(d, u)
      PROVE  \A c \in Convs, a \in Admins : rows'[c][a] = rows[c][a]
  <2>1. rows' = [rows EXCEPT ![d] = [rows[d] EXCEPT ![u] = rows[d][u] + 1]]
    BY <1>1 DEF AddMember
  <2> QED BY <1>0, <2>1
<1>2. ASSUME NEW d \in Convs, NEW u \in Users, NEW v \in Users, Remap(d, u, v)
      PROVE  \A c \in Convs, a \in Admins : rows'[c][a] = rows[c][a]
  <2>1. /\ \A c \in Convs \ {d} : rows'[c] = rows[c]
        /\ \A p \in People \ {u, v} : rows'[d][p] = rows[d][p]
    BY <1>0, <1>2, RemapEffect
  <2> QED BY <1>0, <2>1
<1> QED BY <1>1, <1>2 DEF Written, AddAssignment

LEMMA BaseInit == Init => DeskBase
<1> SUFFICES ASSUME Init PROVE DeskBase
  OBVIOUS
<1>1. DeskTypes
  BY TypesInit
<1>2. \A q \in Reqs : req[q] = Idle /\ req[q].op = "idle"
  BY IdleType DEF Init
<1>3. AssignedExists
  BY SeedsAssumption DEF Init, AssignedExists
<1> QED BY <1>1, <1>2, <1>3 DEF DeskBase, OverlapKnown, ReqHolds

LEMMA BaseStep == DeskBase /\ [Next]_vars => DeskBase'
<1> SUFFICES ASSUME DeskBase, [Next]_vars PROVE DeskBase'
  OBVIOUS
<1>1. CASE UNCHANGED vars
  BY <1>1 DEF vars, rowVars, histVars, DeskBase, DeskTypes, AssignedExists, OverlapKnown, ReqHolds, NewMembers
<1>2. CASE Next
  BY <1>2, StartBase, WorkBase, CutOffBase, WrittenBase DEF Next, Written
<1> QED BY <1>1, <1>2

-----------------------------------------------------------------------------
(* Claims.                                                                 *)

\* the steps that touch the assignments
LEMMA WorkAsg ==
    ASSUME NEW q \in Reqs, Work(q)
    PROVE  \/ asg' = asg
           \/ CreateConversation(q) /\ asg' = Append(asg, Queued(req[q].c))
           \/ Requeue(q) /\ asg' = Append(asg, Queued(req[q].c))
           \/ ClaimAssignment(q) \/ CloseAssignment(q)
<1>1. CASE CreateConversation(q) \/ Requeue(q) \/ ClaimAssignment(q) \/ CloseAssignment(q)
  BY <1>1 DEF CreateConversation, Requeue
<1>2. CASE \/ CountOpen(q) \/ CountMembers(q) \/ RemoveMember(q) \/ FireClosed(q) \/ FireUnread(q)
           \/ AnswerClaim(q)
           \/ SendMessage(q) \/ requeueOnReply(q) \/ requeueUnread(q) \/ PeerAgentSend(q) \/ agentJoinPeer(q)
           \/ JoinNote(q) \/ SendPeer(q) \/ FindRead(q) \/ SaveRead(q) \/ Close(q)
  BY <1>2 DEF CountOpen, CountMembers, RemoveMember, FireClosed, FireUnread, AnswerClaim, SendMessage,
              requeueOnReply, requeueUnread, PeerAgentSend, agentJoinPeer, JoinNote, SendPeer, FindRead, SaveRead,
              Close, rowVars
<1> QED BY <1>1, <1>2 DEF Work

\* an assignment that was claimed or closed is never queued again, and keeps its owner
OwnersKept ==
    /\ DOMAIN asg \subseteq DOMAIN asg'
    /\ \A i \in DOMAIN asg : asg[i].status # "queued" =>
          asg'[i].status # "queued" /\ asg'[i].who = asg[i].who
    /\ \A i \in DOMAIN asg' : asg'[i].status = "queued" => asg'[i].who = Key

LEMMA WorkOwners ==
    ASSUME DeskBase, ClaimsInv, NEW q \in Reqs, Work(q)
    PROVE  OwnersKept
<1>1. asg \in Seq(Assignment) /\ ReqHolds(req[q])
      /\ \A i \in DOMAIN asg : asg[i].status = "queued" => asg[i].who = Key
  BY DEF DeskBase, DeskTypes, ClaimsInv
<1>2. CASE asg' = asg
  BY <1>1, <1>2 DEF OwnersKept
<1>3. CASE asg' = Append(asg, Queued(req[q].c))
  BY <1>1, <1>3, QueueEffect DEF OwnersKept
<1>4. CASE ClaimAssignment(q)
  <2>1. req[q].n \in DOMAIN asg /\ Transition(req[q].n, {"queued"}, "assigned", req[q].by)
    BY <1>1, <1>4 DEF ClaimAssignment, ReqHolds
  <2>2. /\ DOMAIN asg' = DOMAIN asg /\ \A j \in DOMAIN asg \ {req[q].n} : asg'[j] = asg[j]
        /\ \/ asg' = asg
           \/ asg[req[q].n].status = "queued" /\ asg'[req[q].n].status = "assigned"
    BY <1>1, <2>1, TransitionEffect
  <2> QED BY <1>1, <2>2 DEF OwnersKept
<1>5. CASE CloseAssignment(q)
  <2>1. /\ req[q].n \in DOMAIN asg
        /\ Transition(req[q].n, {"queued", "assigned"}, "closed", asg[req[q].n].who)
    BY <1>1, <1>5 DEF CloseAssignment, ReqHolds
  <2>2. /\ DOMAIN asg' = DOMAIN asg /\ \A j \in DOMAIN asg \ {req[q].n} : asg'[j] = asg[j]
        /\ \/ asg' = asg
           \/ asg'[req[q].n].status = "closed" /\ asg'[req[q].n].who = asg[req[q].n].who
    BY <1>1, <2>1, TransitionEffect
  <2> QED BY <1>1, <2>2 DEF OwnersKept
<1> QED BY <1>2, <1>3, <1>4, <1>5, WorkAsg

\* the invariant where nothing is told to an operator and no claim is written
LEMMA ClaimsLast ==
    ASSUME DeskBase, ClaimsInv, OwnersKept, granted' = granted,
           \A q \in Reqs : \/ req'[q] = req[q]
                           \/ ~(req'[q].op = "claim" /\ req'[q].pc = "reread" /\ req'[q].seen = 1)
    PROVE  ClaimsInv'
<1>1. \A q \in Reqs : req[q].op = "claim" => req[q].n \in DOMAIN asg
  BY DEF DeskBase, ReqHolds
<1> QED BY <1>1 DEF ClaimsInv, OwnersKept

LEMMA ClaimsWork ==
    ASSUME DeskBase, ClaimsInv, NEW q \in Reqs, Work(q)
    PROVE  ClaimsInv'
<1>1. DeskTypes /\ OwnersKept /\ req[q] \in Request /\ ReqHolds(req[q])
  BY WorkOwners DEF DeskBase, DeskTypes
<1>2. /\ \A o \in Reqs \ {q} : req'[o] = req[o]
      /\ req'[q] = Idle \/ Continues(q)
  BY <1>1, WorkEffect
<1>3. CASE AnswerClaim(q)
  <2>1. asg' = asg /\ req'[q].op = "idle" /\ req[q].n \in DOMAIN asg /\ req[q].by # Key
        /\ req[q].op = "claim" /\ req[q].pc = "reread"
    BY <1>1, <1>3, DoneEffect, DeskAssumption DEF AnswerClaim, rowVars, DeskTypes, ReqHolds
  <2>2. \/ granted' = granted
        \/ /\ granted' = granted \cup {<<req[q].n, req[q].by>>}
           /\ req[q].seen = 1 \/ asg[req[q].n].who = req[q].by
    BY <1>3 DEF AnswerClaim
  <2>3. \A x \in granted' : x[1] \in DOMAIN asg /\ asg[x[1]].status # "queued" /\ asg[x[1]].who = x[2]
    BY <2>1, <2>2 DEF ClaimsInv
  <2> QED BY <1>2, <2>1, <2>3 DEF ClaimsInv
<1>4. CASE ClaimAssignment(q)
  <2>1. /\ granted' = granted /\ req[q].n \in DOMAIN asg
        /\ Transition(req[q].n, {"queued"}, "assigned", req[q].by)
    BY <1>1, <1>4 DEF ClaimAssignment, ReqHolds, histVars
  <2>2. req'[q].seen = (IF asg' # asg THEN 1 ELSE 0) /\ Continues(q)
    BY <1>1, <1>4, ClaimEffect
  <2>3. req'[q].seen = 1 => asg'[req[q].n].status = "assigned" /\ asg'[req[q].n].who = req[q].by
    BY <1>1, <2>1, <2>2, TransitionEffect DEF DeskTypes
  <2>4. \A o \in Reqs : req[o].op = "claim" => req[o].n \in DOMAIN asg
    BY DEF DeskBase, ReqHolds
  <2> QED BY <1>1, <1>2, <2>1, <2>2, <2>3, <2>4 DEF ClaimsInv, OwnersKept, Continues
<1>5. CASE ~AnswerClaim(q) /\ ~ClaimAssignment(q)
  <2>1. granted' = granted
    BY <1>5 DEF Work, CountOpen, CreateConversation, CountMembers, RemoveMember, Close, FireClosed, FireUnread,
         CloseAssignment, SendMessage, requeueOnReply, requeueUnread, Requeue,
         PeerAgentSend, agentJoinPeer, JoinNote, SendPeer, FindRead, SaveRead, histVars
  <2>2. req[q].op # "claim"
    BY <1>5 DEF Work, CountOpen, CreateConversation, CountMembers, RemoveMember, Close, FireClosed, FireUnread,
         CloseAssignment, SendMessage, requeueOnReply, requeueUnread, Requeue,
         PeerAgentSend, agentJoinPeer, JoinNote, SendPeer, FindRead, SaveRead
  <2>3. req'[q].op # "claim"
    BY <1>2, <2>2, IdleType DEF Continues
  <2> QED BY <1>1, <1>2, <2>1, <2>3, ClaimsLast
<1> QED BY <1>3, <1>4, <1>5

LEMMA ClaimsStep == DeskBase /\ ClaimsInv /\ [Next]_vars => ClaimsInv'
<1> SUFFICES ASSUME DeskBase, ClaimsInv, [Next]_vars PROVE ClaimsInv'
  OBVIOUS
<1>1. asg \in Seq(Assignment) /\ req \in [Reqs -> Request]
      /\ \A i \in DOMAIN asg : asg[i].status = "queued" => asg[i].who = Key
  BY DEF DeskBase, DeskTypes, ClaimsInv
<1>2. asg' = asg => OwnersKept
  BY <1>1 DEF OwnersKept
<1>3. CASE UNCHANGED vars
  BY <1>3 DEF vars, rowVars, histVars, ClaimsInv
<1>4. ASSUME NEW q \in Reqs, Start(q) PROVE ClaimsInv'
  <2>1. PICK r \in Request : Begin(q, r) /\ <<r.op, r.pc>> \in FirstStages
    BY <1>4, StartEffect
  <2>2. /\ req'[q] = r /\ \A o \in Reqs \ {q} : req'[o] = req[o]
        /\ UNCHANGED <<rowVars, histVars, faults>>
    BY <1>1, <2>1, BeginEffect
  <2> QED BY <1>2, <2>1, <2>2, ClaimsLast DEF FirstStages, rowVars, histVars
<1>5. ASSUME NEW q \in Reqs, CutOff(q) PROVE ClaimsInv'
  <2>1. req'[q].op = "idle" /\ \A o \in Reqs \ {q} : req'[o] = req[o]
    BY <1>1, <1>5, DoneEffect DEF CutOff, Fault
  <2> QED BY <1>2, <1>5, <2>1, ClaimsLast DEF CutOff, Fault, rowVars, histVars
<1>6. CASE Written
  <2>1. req' = req /\ granted' = granted
    BY <1>6, WrittenBase
  <2>2. OwnersKept
    <3>1. asg' = asg \/ \E c \in Convs : asg' = Append(asg, Queued(c))
      BY <1>6 DEF Written, AddMember, Remap, AddAssignment
    <3> QED BY <1>1, <1>2, <3>1, QueueEffect DEF OwnersKept
  <2> QED BY <2>1, <2>2, ClaimsLast
<1> QED BY <1>3, <1>4, <1>5, <1>6, ClaimsWork DEF Next, Written

LEMMA ClaimsInit == Init => ClaimsInv
<1> SUFFICES ASSUME Init PROVE ClaimsInv
  OBVIOUS
<1>1. \A i \in DOMAIN asg : asg[i].status = "queued" => asg[i].who = Key
  BY SeedsAssumption DEF Init
<1> QED BY <1>1, IdleType DEF Init, ClaimsInv

(* However claims, closes and crashes interleave, at most one operator is  *)
(* ever told that an assignment is theirs: the row answers the claim, and  *)
(* it keeps its owner (domain/assignment.go, ClaimAssignment).             *)
THEOREM OneClaimWinsHolds == Spec => []OneClaimWins
<1>1. DeskBase /\ ClaimsInv => OneClaimWins
  BY DEF ClaimsInv, OneClaimWins
<1> QED BY <1>1, BaseInit, BaseStep, ClaimsInit, ClaimsStep, PTL DEF Spec

-----------------------------------------------------------------------------
(* Closings.                                                               *)

\* the steps that do not close or announce
LEMMA ClosesLast ==
    ASSUME NEW c \in Convs, ClosesAt(c), closings'[c] = closings[c], raced \subseteq raced',
           conv'[c].status = "closed" <=> conv[c].status = "closed",
           conv[c].status = "closed" => conv'[c].queue = conv[c].queue,
           \A q \in Reqs : Firing(q, c)' <=> Firing(q, c)
    PROVE  ClosesAt(c)'
BY DEF ClosesAt

LEMMA ClosesWork ==
    ASSUME DeskBase, ClosesInv, NEW q \in Reqs, Work(q)
    PROVE  ClosesInv'
<1>1. DeskTypes /\ req[q] \in Request /\ ReqHolds(req[q]) /\ req[q].c \in Convs
  BY DEF DeskBase, DeskTypes, Request
<1>2. /\ \A o \in Reqs \ {q} : req'[o] = req[o]
      /\ (req'[q] = Idle \/ Continues(q)) /\ raced \subseteq raced'
  BY <1>1, WorkEffect
<1>3. \A o \in Reqs \ {q}, c \in Convs : Firing(o, c)' <=> Firing(o, c)
  BY <1>2 DEF Firing
<1>0. PICK d \in Convs : d = req[q].c
  BY <1>1
<1>4. CASE Close(q)
  <2>1. /\ \A c \in Convs \ {d} : conv'[c] = conv[c]
        /\ conv'[d].status = "closed" /\ conv'[d].queue = conv[d].queue
        /\ closings' = closings /\ req[q].op = "close" /\ req[q].pc = "close"
    BY <1>0, <1>1, <1>4 DEF Close, histVars, DeskTypes, ConvRow
  <2>2. CASE conv[d].status = "closed"
    <3>1. ~Firing(q, d)' /\ \A c \in Convs : ~Firing(q, c)' /\ ~Firing(q, c)
      BY <1>0, <1>1, <1>4, <2>1, <2>2, DoneEffect DEF Close, DeskTypes, Firing
    <3> QED BY <1>2, <1>3, <2>1, <2>2, <3>1, ClosesLast DEF ClosesInv
  <2>3. CASE conv[d].status # "closed"
    <3>1. /\ Firing(q, d)' /\ \A c \in Convs \ {d} : ~Firing(q, c)'
          /\ \A c \in Convs : ~Firing(q, c)
      BY <1>0, <1>1, <1>4, <2>1, <2>3, GotoEffect DEF Close, DeskTypes, Firing, Continues
    <3>2. closings[d] = 0 /\ \A o \in Reqs : ~Firing(o, d)
      BY <1>0, <1>1, <2>3 DEF ClosesInv, ClosesAt
    <3>3. \A c \in Convs \ {d} : ClosesAt(c)'
      BY <1>2, <1>3, <2>1, <3>1, ClosesLast DEF ClosesInv
    <3>4. ClosesAt(d)'
      BY <1>0, <1>1, <1>3, <2>1, <3>1, <3>2 DEF ClosesAt
    <3> QED BY <3>3, <3>4 DEF ClosesInv
  <2> QED BY <2>2, <2>3
<1>5. CASE FireClosed(q) \/ FireUnread(q)
  <2>1. /\ conv' = conv /\ \A c \in Convs \ {d} : closings'[c] = closings[c]
        /\ \/ closings'[d] = closings[d] /\ conv[d].queue \in Silent
           \/ closings'[d] = closings[d] + 1 /\ (conv[d].queue \notin Silent \/ <<"settings", d>> \in raced')
    <3>1. CASE FireClosed(q)
      BY <1>0, <1>1, <3>1 DEF FireClosed, rowVars, DeskTypes
    <3>2. CASE FireUnread(q)
      BY <1>0, <1>1, <3>2 DEF FireUnread, Fault, rowVars, DeskTypes
    <3> QED BY <1>5, <3>1, <3>2
  <2>2. Firing(q, d) /\ \A c \in Convs : ~Firing(q, c)' /\ (Firing(q, c) => c = d)
    BY <1>0, <1>1, <1>5, DoneEffect DEF FireClosed, FireUnread, DeskTypes, Firing
  <2>3. conv[d].status = "closed" /\ closings[d] = 0 /\ \A o \in Reqs : Firing(o, d) => o = q
    BY <1>0, <1>1, <2>2 DEF ClosesInv, ClosesAt
  <2>4. \/ closings'[d] = 0 /\ conv[d].queue \in Silent
        \/ closings'[d] = 1 /\ (conv[d].queue \notin Silent \/ <<"settings", d>> \in raced')
    BY <2>1, <2>3
  <2>5. \A c \in Convs \ {d} : ClosesAt(c)'
    BY <1>2, <1>3, <2>1, <2>2, ClosesLast DEF ClosesInv
  <2>6. ClosesAt(d)'
    BY <1>0, <1>1, <1>3, <2>1, <2>2, <2>3, <2>4 DEF ClosesAt
  <2> QED BY <2>5, <2>6 DEF ClosesInv
<1>6. CASE ~Close(q) /\ ~FireClosed(q) /\ ~FireUnread(q)
  <2>1. closings' = closings /\ req[q].op # "close"
    BY <1>6 DEF Work, CountOpen, CreateConversation, CountMembers, RemoveMember, AnswerClaim,
         ClaimAssignment, CloseAssignment, SendMessage, requeueOnReply, requeueUnread, Requeue,
         PeerAgentSend, agentJoinPeer, JoinNote, SendPeer, FindRead, SaveRead, histVars
  <2>2. \A c \in Convs : ~Firing(q, c) /\ ~Firing(q, c)'
    BY <1>2, <2>1, IdleType DEF Firing, Continues
  <2>3. \A c \in Convs : /\ conv'[c].status = "closed" <=> conv[c].status = "closed"
                         /\ conv[c].status = "closed" => conv'[c].queue = conv[c].queue
    <3>1. CASE CreateConversation(q)
      <4>1. conv'[d] = req[q].row /\ req[q].row.status = "open" /\ conv[d].status = "none"
            /\ \A c \in Convs \ {d} : conv'[c] = conv[c]
        BY <1>0, <1>1, <3>1 DEF CreateConversation, ReqHolds, DeskTypes
      <4> QED BY <1>0, <4>1
    <3>2. CASE conv' = conv
      BY <3>2
    <3> QED BY <1>6, <3>1, <3>2 DEF Work, CountOpen, CountMembers, RemoveMember, AnswerClaim,
         ClaimAssignment, CloseAssignment, SendMessage, requeueOnReply, requeueUnread, Requeue,
         PeerAgentSend, agentJoinPeer, JoinNote, SendPeer, FindRead, SaveRead, rowVars
  <2> QED BY <1>2, <1>3, <2>1, <2>2, <2>3, ClosesLast DEF ClosesInv
<1> QED BY <1>4, <1>5, <1>6

LEMMA ClosesStep == DeskBase /\ ClosesInv /\ [Next]_vars => ClosesInv'
<1> SUFFICES ASSUME DeskBase, ClosesInv, [Next]_vars PROVE ClosesInv'
  OBVIOUS
<1>1. req \in [Reqs -> Request]
  BY DEF DeskBase, DeskTypes
<1>2. CASE UNCHANGED vars
  BY <1>2, ClosesLast DEF ClosesInv, vars, rowVars, histVars, Firing
<1>3. ASSUME NEW q \in Reqs, Start(q) PROVE ClosesInv'
  <2>1. PICK r \in Request : req[q].op = "idle" /\ Begin(q, r) /\ <<r.op, r.pc>> \in FirstStages
    BY <1>3, StartEffect
  <2>2. /\ req'[q] = r /\ \A o \in Reqs \ {q} : req'[o] = req[o]
        /\ UNCHANGED <<rowVars, histVars, faults>> /\ raced \subseteq raced'
    BY <1>1, <2>1, BeginEffect
  <2>3. \A o \in Reqs, c \in Convs : Firing(o, c)' <=> Firing(o, c)
    BY <2>1, <2>2 DEF Firing, FirstStages
  <2> QED BY <2>2, <2>3, ClosesLast DEF ClosesInv, rowVars, histVars
<1>4. ASSUME NEW q \in Reqs, CutOff(q) PROVE ClosesInv'
  <2>1. /\ req'[q].op = "idle" /\ \A o \in Reqs \ {q} : req'[o] = req[o]
        /\ UNCHANGED <<conv, closings>> /\ raced' = raced \cup {<<"cut", req[q].c>>}
    BY <1>1, <1>4, DoneEffect DEF CutOff, Fault, rowVars, histVars
  <2>2. /\ \A o \in Reqs \ {q}, c \in Convs : Firing(o, c)' <=> Firing(o, c)
        /\ \A c \in Convs : ~Firing(q, c)' /\ (Firing(q, c) => <<"cut", c>> \in raced')
    BY <2>1 DEF Firing
  <2> QED BY <2>1, <2>2 DEF ClosesInv, ClosesAt
<1>5. CASE Written
  BY <1>5, WrittenBase, ClosesLast DEF ClosesInv, Firing
<1> QED BY <1>2, <1>3, <1>4, <1>5, ClosesWork DEF Next, Written

LEMMA ClosesInit == Init => ClosesInv
<1> SUFFICES ASSUME Init PROVE ClosesInv
  OBVIOUS
<1>1. \A c \in Convs : conv[c].status # "closed"
  BY SeedsAssumption DEF Init
<1> QED BY <1>1, IdleType DEF Init, ClosesInv, ClosesAt, Firing

(* However closes race, a closed conversation is announced at most once, a *)
(* silent queue only when its settings could not be read, and any other    *)
(* exactly once unless the request was cut off between the close and its   *)
(* event (domain/conversation.go, CloseConversation; fireConvWebhook).     *)
THEOREM CloseAnnouncedHolds == Spec => []CloseAnnounced
<1>1. DeskBase /\ ClosesInv => CloseAnnounced
  <2> SUFFICES ASSUME DeskBase, ClosesInv, NEW c \in Convs
               PROVE  /\ closings[c] <= 1
                      /\ closings[c] = 1 =>
                            /\ conv[c].status = "closed"
                            /\ conv[c].queue \notin Silent \/ <<"settings", c>> \in raced
                      /\ conv[c].status = "closed" /\ conv[c].queue \notin Silent /\ Resting(c) =>
                            closings[c] = 1 \/ <<"cut", c>> \in raced
    BY DEF CloseAnnounced
  <2>1. closings[c] \in Nat /\ ClosesAt(c)
    BY DEF DeskBase, DeskTypes, ClosesInv
  <2>2. Resting(c) => \A q \in Reqs : ~Firing(q, c)
    BY DEF Resting, Firing
  <2> QED BY <2>1, <2>2 DEF ClosesAt
<1> QED BY <1>1, BaseInit, BaseStep, ClosesInit, ClosesStep, PTL DEF Spec

-----------------------------------------------------------------------------
(* Operators who join peer conversations.                                  *)

\* the steps that neither add the row nor post the note
LEMMA JoinsLast ==
    ASSUME NEW c \in Convs, NEW a \in Admins, JoinsAt(c, a),
           rows'[c][a] = rows[c][a], notes'[c][a] = notes[c][a], raced \subseteq raced',
           conv'[c].kind = conv[c].kind, conv'[c].status = "none" => conv[c].status = "none",
           \A q \in Reqs : Noting(q, c, a)' <=> Noting(q, c, a)
    PROVE  JoinsAt(c, a)'
BY DEF JoinsAt

LEMMA JoinsWork ==
    ASSUME DeskBase, JoinsInv, NEW q \in Reqs, Work(q)
    PROVE  JoinsInv'
<1>1. DeskTypes /\ req[q] \in Request /\ ReqHolds(req[q]) /\ req[q].c \in Convs /\ req[q].by \in Callers
  BY DEF DeskBase, DeskTypes, Request
<1>2. /\ \A o \in Reqs \ {q} : req'[o] = req[o]
      /\ (req'[q] = Idle \/ Continues(q)) /\ raced \subseteq raced'
  BY <1>1, WorkEffect
<1>3. \A o \in Reqs \ {q}, c \in Convs, a \in Admins : Noting(o, c, a)' <=> Noting(o, c, a)
  BY <1>2 DEF Noting
<1>4. PICK d \in Convs, b \in Callers : d = req[q].c /\ b = req[q].by
  BY <1>1
<1>5. /\ conv \in [Convs -> ConvRow] /\ rows \in [Convs -> [People -> Nat]]
      /\ notes \in [Convs -> [Admins -> Nat]] /\ \A a \in Admins : a \in People /\ a \notin Users
  BY <1>1, DeskAssumption DEF DeskTypes, People
<1>6. CASE CreateConversation(q)
  <2>1. /\ conv[d].status = "none" /\ conv'[d] = req[q].row /\ req[q].row.status = "open"
        /\ NewMembers(req[q]) /\ \A c \in Convs \ {d} : conv'[c] = conv[c]
        /\ \A p \in People : rows'[d][p] > 0 => p \in req[q].members
        /\ rows' \in [Convs -> [People -> Nat]] /\ \A c \in Convs \ {d} : rows'[c] = rows[c]
        /\ notes' = notes /\ req[q].op = "create"
    BY <1>1, <1>4, <1>5, <1>6, CreateRows DEF CreateConversation, ReqHolds, histVars
  <2>2. \A c \in Convs, a \in Admins : ~Noting(q, c, a) /\ ~Noting(q, c, a)'
    BY <1>2, <2>1, IdleType DEF Noting, Continues
  <2>3. \A c \in Convs \ {d}, a \in Admins : JoinsAt(c, a)'
    BY <1>2, <1>3, <2>1, <2>2, JoinsLast DEF JoinsInv
  <2>4. \A o \in Reqs, a \in Admins : ~Noting(o, d, a)
    BY <1>4, <2>1 DEF DeskBase, ReqHolds, Noting
  <2>5. ASSUME NEW a \in Admins PROVE JoinsAt(d, a)'
    <3>1. notes'[d][a] = 0
      BY <2>1 DEF JoinsInv, JoinsAt
    <3>2. conv'[d].kind = "peer" => rows'[d][a] = 0
      BY <1>5, <2>1 DEF NewMembers
    <3>3. \A o \in Reqs : ~Noting(o, d, a)'
      BY <1>3, <2>2, <2>4
    <3> QED BY <3>1, <3>2, <3>3 DEF JoinsAt
  <2> QED BY <2>3, <2>5 DEF JoinsInv
<1>7. CASE agentJoinPeer(q) /\ rows[d][b] = 0
  <2>1. /\ b \in Admins /\ conv[d].kind = "peer" /\ conv[d].status # "none"
        /\ UNCHANGED <<conv, notes>> /\ req[q].op = "peer" /\ req[q].pc = "join"
    BY <1>1, <1>4, <1>7 DEF agentJoinPeer, ReqHolds, histVars
  <2>2. rows' = [rows EXCEPT ![d] = [rows[d] EXCEPT ![b] = 1]]
    BY <1>4, <1>7 DEF agentJoinPeer
  <2>3. /\ rows'[d][b] = 1 /\ \A c \in Convs, a \in Admins : c # d \/ a # b => rows'[c][a] = rows[c][a]
    BY <1>5, <2>1, <2>2
  <2>4. /\ Noting(q, d, b)' /\ \A c \in Convs, a \in Admins : c # d \/ a # b => ~Noting(q, c, a)'
        /\ \A c \in Convs, a \in Admins : ~Noting(q, c, a)
    BY <1>1, <1>4, <1>7, <2>1, GotoEffect DEF agentJoinPeer, DeskTypes, Noting, Continues
  <2>5. \A c \in Convs, a \in Admins : c # d \/ a # b => JoinsAt(c, a)'
    BY <1>2, <1>3, <2>1, <2>3, <2>4, JoinsLast DEF JoinsInv
  <2>6. JoinsAt(d, b)'
    <3>1. notes[d][b] = 0 /\ \A o \in Reqs : ~Noting(o, d, b)
      <4>1. JoinsAt(d, b) /\ notes[d][b] \in Nat
        BY <1>5, <2>1 DEF JoinsInv
      <4> QED BY <1>7, <2>1, <4>1 DEF JoinsAt
    <3> QED BY <1>3, <2>1, <2>3, <2>4, <3>1 DEF JoinsAt
  <2> QED BY <2>5, <2>6 DEF JoinsInv
<1>8. CASE JoinNote(q)
  <2>1. /\ b \in Admins /\ conv[d].kind = "peer" /\ conv[d].status # "none"
        /\ UNCHANGED <<conv, rows>> /\ Noting(q, d, b) /\ req[q].op = "peer" /\ req[q].pc = "note"
    BY <1>1, <1>4, <1>8 DEF JoinNote, ReqHolds, Noting
  <2>2. notes' = [notes EXCEPT ![d] = [notes[d] EXCEPT ![b] = notes[d][b] + 1]]
    BY <1>4, <1>8 DEF JoinNote
  <2>3. notes'[d][b] = notes[d][b] + 1
        /\ \A c \in Convs, a \in Admins : c # d \/ a # b => notes'[c][a] = notes[c][a]
    BY <1>5, <2>1, <2>2
  <2>4. \A c \in Convs, a \in Admins : ~Noting(q, c, a)' /\ (Noting(q, c, a) => c = d /\ a = b)
    BY <1>1, <1>4, <1>8, GotoEffect DEF JoinNote, DeskTypes, Noting
  <2>5. \A c \in Convs, a \in Admins : c # d \/ a # b => JoinsAt(c, a)'
    BY <1>2, <1>3, <2>1, <2>3, <2>4, JoinsLast DEF JoinsInv
  <2>6. JoinsAt(d, b)'
    <3>1. rows[d][b] = 1 /\ notes[d][b] = 0 /\ \A o \in Reqs : Noting(o, d, b) => o = q
      BY <2>1 DEF JoinsInv, JoinsAt
    <3> QED BY <1>3, <2>1, <2>3, <2>4, <3>1 DEF JoinsAt
  <2> QED BY <2>5, <2>6 DEF JoinsInv
<1>9. CASE ~CreateConversation(q) /\ ~(agentJoinPeer(q) /\ rows[d][b] = 0) /\ ~JoinNote(q)
  <2>1. notes' = notes
    BY <1>9 DEF Work, CountOpen, CountMembers, RemoveMember, Close, FireClosed, FireUnread, AnswerClaim,
         ClaimAssignment, CloseAssignment, SendMessage, requeueOnReply, requeueUnread, Requeue,
         PeerAgentSend, agentJoinPeer, SendPeer, FindRead, SaveRead, histVars
  <2>2. \A c \in Convs, a \in Admins : rows'[c][a] = rows[c][a]
    <3>1. CASE RemoveMember(q)
      <4>1. rows' = [rows EXCEPT ![d] = [rows[d] EXCEPT ![req[q].who] = 0]] /\ req[q].who \in Users
        BY <1>1, <1>4, <3>1 DEF RemoveMember, ReqHolds
      <4> QED BY <1>5, <4>1
    <3>2. CASE rows' = rows
      BY <3>2
    <3> QED BY <1>4, <1>9, <3>1, <3>2 DEF Work, CountOpen, CountMembers, Close, FireClosed, FireUnread, AnswerClaim,
         ClaimAssignment, CloseAssignment, SendMessage, requeueOnReply, requeueUnread, Requeue,
         PeerAgentSend, agentJoinPeer, SendPeer, FindRead, SaveRead, rowVars
  <2>3. \A c \in Convs : conv'[c].kind = conv[c].kind /\ (conv'[c].status = "none" => conv[c].status = "none")
    <3>1. CASE conv' = conv
      BY <3>1
    <3>2. CASE Close(q)
      <4>1. conv[d].status # "none"
        BY <1>1, <1>4, <3>2 DEF Close, ReqHolds
      <4>2. \A c \in Convs \ {d} : conv'[c] = conv[c]
        BY <1>4, <1>5, <3>2 DEF Close
      <4> QED BY <4>1, <4>2, WorkGrows DEF Grows
    <3> QED BY <1>9, <3>1, <3>2 DEF Work, CountOpen, CountMembers, RemoveMember, FireClosed, FireUnread, AnswerClaim,
         ClaimAssignment, CloseAssignment, SendMessage, requeueOnReply, requeueUnread, Requeue,
         PeerAgentSend, agentJoinPeer, SendPeer, FindRead, SaveRead, rowVars
  <2>4. \A c \in Convs, a \in Admins : ~Noting(q, c, a) /\ ~Noting(q, c, a)'
    <3>1. CASE PeerAgentSend(q) \/ agentJoinPeer(q) \/ SendPeer(q)
      <4>1. req[q].pc # "note"
        BY <3>1 DEF PeerAgentSend, agentJoinPeer, SendPeer
      <4>2. Done(q) \/ Goto(q, "insert") \/ Goto(q, "join")
        BY <1>4, <1>9, <3>1 DEF PeerAgentSend, agentJoinPeer, SendPeer
      <4>3. req'[q].op = "idle" \/ req'[q].pc # "note"
        BY <1>1, <4>2, DoneEffect, GotoEffect DEF DeskTypes
      <4> QED BY <4>1, <4>3 DEF Noting
    <3>2. CASE req[q].op # "peer"
      BY <1>2, <3>2, IdleType DEF Noting, Continues
    <3> QED BY <1>9, <3>1, <3>2 DEF Work, CountOpen, CountMembers, RemoveMember, Close, FireClosed, FireUnread,
         AnswerClaim, ClaimAssignment, CloseAssignment, SendMessage, requeueOnReply, requeueUnread, Requeue,
         FindRead, SaveRead
  <2> QED BY <1>2, <1>3, <2>1, <2>2, <2>3, <2>4, JoinsLast DEF JoinsInv
<1> QED BY <1>6, <1>7, <1>8, <1>9

LEMMA JoinsStep == DeskBase /\ JoinsInv /\ [Next]_vars => JoinsInv'
<1> SUFFICES ASSUME DeskBase, JoinsInv, [Next]_vars PROVE JoinsInv'
  OBVIOUS
<1>1. /\ DeskTypes /\ req \in [Reqs -> Request] /\ rows \in [Convs -> [People -> Nat]]
      /\ \A a \in Admins : a \in People /\ a \notin Users
  BY DeskAssumption DEF DeskBase, DeskTypes, People
<1>2. CASE UNCHANGED vars
  BY <1>2, JoinsLast DEF JoinsInv, vars, rowVars, histVars, Noting
<1>3. ASSUME NEW q \in Reqs, Start(q) PROVE JoinsInv'
  <2>1. PICK r \in Request : req[q].op = "idle" /\ Begin(q, r) /\ <<r.op, r.pc>> \in FirstStages
    BY <1>3, StartEffect
  <2>2. /\ req'[q] = r /\ \A o \in Reqs \ {q} : req'[o] = req[o]
        /\ UNCHANGED <<rowVars, histVars, faults>> /\ raced \subseteq raced'
    BY <1>1, <2>1, BeginEffect
  <2>3. \A o \in Reqs, c \in Convs, a \in Admins : Noting(o, c, a)' <=> Noting(o, c, a)
    BY <2>1, <2>2 DEF Noting, FirstStages
  <2> QED BY <2>2, <2>3, JoinsLast DEF JoinsInv, rowVars, histVars
<1>4. ASSUME NEW q \in Reqs, CutOff(q) PROVE JoinsInv'
  <2>1. /\ req'[q].op = "idle" /\ \A o \in Reqs \ {q} : req'[o] = req[o]
        /\ UNCHANGED <<conv, rows, notes>> /\ raced' = raced \cup {<<"cut", req[q].c>>}
    BY <1>1, <1>4, DoneEffect DEF CutOff, Fault, rowVars, histVars
  <2>2. /\ \A o \in Reqs \ {q}, c \in Convs, a \in Admins : Noting(o, c, a)' <=> Noting(o, c, a)
        /\ \A c \in Convs, a \in Admins : ~Noting(q, c, a)' /\ (Noting(q, c, a) => <<"cut", c>> \in raced')
    BY <2>1 DEF Noting
  <2> SUFFICES ASSUME NEW c \in Convs, NEW a \in Admins PROVE JoinsAt(c, a)'
    BY DEF JoinsInv
  <2>3. JoinsAt(c, a)
    BY DEF JoinsInv
  <2> QED BY <2>1, <2>2, <2>3 DEF JoinsAt
<1>5. CASE Written
  <2>1. UNCHANGED <<conv, notes, req>> /\ raced \subseteq raced'
    BY <1>5, WrittenBase
  <2>2. \A c \in Convs, a \in Admins : rows'[c][a] = rows[c][a]
    BY <1>1, <1>5, WrittenAdmins
  <2> QED BY <2>1, <2>2, JoinsLast DEF JoinsInv, Noting
<1> QED BY <1>2, <1>3, <1>4, <1>5, JoinsWork DEF Next, Written

LEMMA JoinsInit == Init => JoinsInv
<1> SUFFICES ASSUME Init, NEW c \in Convs, NEW a \in Admins PROVE JoinsAt(c, a)
  BY DEF JoinsInv
<1>1. a \in People /\ a \notin Users /\ notes[c][a] = 0
  BY DeskAssumption DEF Init, People
<1>2. conv[c].kind = "peer" => rows[c][a] = 0
  BY <1>1, SeedsAssumption DEF Init
<1> QED BY <1>1, <1>2, IdleType DEF Init, JoinsAt, Noting

(* An operator's row in a peer conversation is inserted once and announced *)
(* once, from however many tabs they send; a note is missing only where    *)
(* the process died (domain/peer.go, PeerAgentSend).                       *)
THEOREM JoinNotedOnceHolds == Spec => []JoinNotedOnce
<1>1. DeskBase /\ JoinsInv => JoinNotedOnce
  <2> SUFFICES ASSUME DeskBase, JoinsInv, NEW c \in Convs, NEW a \in Admins, conv[c].kind = "peer"
               PROVE  /\ notes[c][a] <= rows[c][a] /\ rows[c][a] <= 1
                      /\ Resting(c) /\ <<"cut", c>> \notin raced => notes[c][a] = rows[c][a]
    BY DEF JoinNotedOnce
  <2>1. JoinsAt(c, a) /\ notes[c][a] \in Nat /\ rows[c][a] \in Nat
    BY DEF DeskBase, DeskTypes, JoinsInv, People
  <2>2. Resting(c) => \A q \in Reqs : ~Noting(q, c, a)
    BY DEF Resting, Noting
  <2> QED BY <2>1, <2>2 DEF JoinsAt
<1> QED BY <1>1, BaseInit, BaseStep, JoinsInit, JoinsStep, PTL DEF Spec

-----------------------------------------------------------------------------
(* The queue.                                                              *)

\* a set with no two members counts at most one
LEMMA AtMostOne ==
    ASSUME NEW S, \A x, y \in S : x = y
    PROVE  Cardinality(S) \in {0, 1} /\ (Cardinality(S) > 0 => S # {})
<1>1. CASE S = {}
  BY <1>1, FS_EmptySet
<1>2. ASSUME NEW x \in S PROVE Cardinality(S) = 1
  <2>1. S = {x}
    OBVIOUS
  <2> QED BY <2>1, FS_Singleton
<1> QED BY <1>1, <1>2

\* GetByConversation is the latest
LEMMA LatestFound ==
    ASSUME asg \in Seq(Assignment), NEW c, OfConv(c) # {}
    PROVE  /\ GetByConversation(c) \in OfConv(c) /\ GetByConversation(c) # 0
           /\ \A j \in OfConv(c) : j <= GetByConversation(c)
<1>1. Len(asg) \in Nat /\ OfConv(c) \subseteq 1..Len(asg)
  BY DEF OfConv
<1> DEFINE S == {Len(asg) - i : i \in OfConv(c)}
<1>2. S \in SUBSET Nat /\ S # {}
  BY <1>1
<1>3. PICK k \in S : \A l \in S : k <= l
  BY <1>2, LeastOf
<1>4. PICK m \in OfConv(c) : k = Len(asg) - m
  BY <1>3
<1>5. \A j \in OfConv(c) : j <= m
  <2> SUFFICES ASSUME NEW j \in OfConv(c) PROVE j <= m
    OBVIOUS
  <2>1. Len(asg) - j \in S
    OBVIOUS
  <2>2. Len(asg) - m <= Len(asg) - j
    BY <1>3, <1>4, <2>1
  <2> QED BY <1>1, <2>2
<1>6. GetByConversation(c) = CHOOSE i \in OfConv(c) : \A j \in OfConv(c) : j <= i
  BY DEF GetByConversation
<1> QED BY <1>1, <1>5, <1>6

\* the steps that do not queue the conversation
LEMMA QueuesLast ==
    ASSUME NEW c \in Convs, QueuesAt(c), raced \subseteq raced', OfConv(c)' \subseteq OfConv(c),
           \A i \in OfConv(c) : asg[i].status = "closed" => asg'[i].status = "closed",
           \A q \in Reqs : Requeuing(q, c)' => Requeuing(q, c)
    PROVE  QueuesAt(c)'
BY DEF QueuesAt

\* a conversation is queued: the others do not notice
LEMMA QueueOther ==
    ASSUME asg \in Seq(Assignment), NEW d, asg' = Append(asg, Queued(d)), NEW c
    PROVE  /\ c # d => OfConv(c)' = OfConv(c)
           /\ c = d => OfConv(c)' = OfConv(c) \cup {Len(asg) + 1}
           /\ \A i \in OfConv(c) : asg'[i] = asg[i] /\ i < Len(asg) + 1
BY QueueEffect DEF OfConv

LEMMA QueuesWork ==
    ASSUME DeskBase, QueuesInv, NEW q \in Reqs, Work(q)
    PROVE  QueuesInv'
<1>1. /\ DeskTypes /\ req[q] \in Request /\ ReqHolds(req[q]) /\ req[q].c \in Convs
      /\ asg \in Seq(Assignment) /\ req \in [Reqs -> Request]
  BY DEF DeskBase, DeskTypes, Request
<1>2. /\ \A o \in Reqs \ {q} : req'[o] = req[o]
      /\ (req'[q] = Idle \/ Continues(q)) /\ raced \subseteq raced'
  BY <1>1, WorkEffect
<1>3. \A o \in Reqs \ {q}, c \in Convs : Requeuing(o, c)' <=> Requeuing(o, c)
  BY <1>2 DEF Requeuing
<1>4. PICK d \in Convs : d = req[q].c
  BY <1>1
<1>5. CASE CreateConversation(q) /\ asg' = Append(asg, Queued(req[q].c))
  <2>1. conv[d].status = "none" /\ req[q].op = "create" /\ asg' = Append(asg, Queued(d))
    BY <1>1, <1>4, <1>5 DEF CreateConversation, ReqHolds
  <2>2. OfConv(d) = {} /\ \A o \in Reqs : ~Requeuing(o, d)
    BY <1>4, <2>1 DEF DeskBase, AssignedExists, OfConv, ReqHolds, Requeuing
  <2>3. \A c \in Convs : ~Requeuing(q, c)'
    BY <1>2, <2>1, IdleType DEF Requeuing, Continues
  <2>4. \A c \in Convs \ {d} : QueuesAt(c)'
    BY <1>1, <1>2, <1>3, <2>1, <2>3, QueueOther, QueuesLast DEF QueuesInv
  <2>5. OfConv(d)' = {Len(asg) + 1}
    BY <1>1, <2>1, <2>2, QueueOther
  <2>6. \A o \in Reqs : ~Requeuing(o, d)'
    BY <1>3, <2>2, <2>3
  <2>7. QueuesAt(d)'
    BY <1>1, <2>5, <2>6 DEF QueuesAt
  <2> QED BY <2>4, <2>7 DEF QueuesInv
<1>6. CASE Requeue(q)
  <2>1. Requeuing(q, d) /\ asg' = Append(asg, Queued(d)) /\ req[q].op = "send"
    BY <1>4, <1>6 DEF Requeue, Requeuing
  <2>2. \A c \in Convs : ~Requeuing(q, c)'
    BY <1>1, <1>6, DoneEffect DEF Requeue, Requeuing
  <2>3. \A c \in Convs \ {d} : QueuesAt(c)'
    BY <1>1, <1>2, <1>3, <2>1, <2>2, QueueOther, QueuesLast DEF QueuesInv
  <2>4. ASSUME <<"queue", d>> \notin raced', <<"send", d>> \notin raced', <<"lookup", d>> \notin raced'
        PROVE  /\ \A i, j \in OfConv(d)' : i < j => asg'[i].status = "closed"
               /\ \A o \in Reqs : ~Requeuing(o, d)'
    <3>1. \A i \in OfConv(d) : asg[i].status = "closed"
      BY <1>2, <2>1, <2>4 DEF QueuesInv, QueuesAt
    <3>2. \A o \in Reqs \ {q} : ~Requeuing(o, d)
      BY <1>2, <1>4, <2>1, <2>4 DEF DeskBase, OverlapKnown, Requeuing
    <3>3. /\ OfConv(d)' = OfConv(d) \cup {Len(asg) + 1}
          /\ \A i \in OfConv(d) : asg'[i] = asg[i] /\ i < Len(asg) + 1
      BY <1>1, <2>1, QueueOther
    <3>4. OfConv(d) \subseteq Nat /\ Len(asg) \in Nat
      BY <1>1 DEF OfConv
    <3> QED BY <1>3, <2>2, <3>1, <3>2, <3>3, <3>4
  <2>5. QueuesAt(d)'
    BY <2>4 DEF QueuesAt
  <2> QED BY <2>3, <2>5 DEF QueuesInv
<1>7. CASE ClaimAssignment(q) \/ CloseAssignment(q)
  <2>1. /\ req[q].n \in DOMAIN asg
        /\ \/ Transition(req[q].n, {"queued"}, "assigned", req[q].by)
           \/ Transition(req[q].n, {"queued", "assigned"}, "closed", asg[req[q].n].who)
        /\ req[q].op # "send"
    BY <1>1, <1>7 DEF ClaimAssignment, CloseAssignment, ReqHolds
  <2>2. /\ DOMAIN asg' = DOMAIN asg /\ \A j \in DOMAIN asg : asg'[j].conv = asg[j].conv
        /\ \A j \in DOMAIN asg : asg[j].status = "closed" => asg'[j].status = "closed"
    BY <1>1, <2>1, TransitionEffect
  <2>3. \A c \in Convs : OfConv(c)' = OfConv(c)
    BY <2>2 DEF OfConv
  <2>4. \A c \in Convs : ~Requeuing(q, c)'
    BY <1>2, <2>1, IdleType DEF Requeuing, Continues
  <2>5. \A c \in Convs : \A i \in OfConv(c) : asg[i].status = "closed" => asg'[i].status = "closed"
    BY <2>2 DEF OfConv
  <2> QED BY <1>2, <1>3, <2>3, <2>4, <2>5, QueuesLast DEF QueuesInv
<1>8. CASE asg' = asg
  <2>1. \A c \in Convs : OfConv(c)' = OfConv(c)
    BY <1>8 DEF OfConv
  <2>2. CASE requeueOnReply(q)
    <3>1. \A c \in Convs \ {d} : ~Requeuing(q, c)'
      BY <1>2, <1>4, IdleType DEF Requeuing, Continues
    <3>2. \A c \in Convs \ {d} : QueuesAt(c)'
      BY <1>2, <1>3, <1>8, <2>1, <3>1, QueuesLast DEF QueuesInv
    <3>3. ~Requeuing(q, d)
      BY <2>2 DEF requeueOnReply, Requeuing
    <3>4. CASE Done(q)
      <4>1. ~Requeuing(q, d)'
        BY <1>1, <3>4, DoneEffect DEF Requeuing
      <4>2. QueuesAt(d)'
        BY <1>2, <1>3, <1>8, <2>1, <4>1, QueuesLast DEF QueuesInv
      <4> QED BY <3>2, <4>2 DEF QueuesInv
    <3>5. CASE ~Done(q)
      <4> DEFINE i == GetByConversation(d)
      <4>1. i = 0 \/ asg[i].status = "closed"
        BY <1>4, <2>2, <3>5 DEF requeueOnReply
      <4>2. ASSUME <<"queue", d>> \notin raced, <<"send", d>> \notin raced, <<"lookup", d>> \notin raced,
                   NEW j \in OfConv(d)
            PROVE  asg[j].status = "closed"
        <5>1. i \in OfConv(d) /\ i # 0 /\ j <= i /\ i \in Nat /\ j \in Nat
          BY <1>1, <4>2, LatestFound DEF OfConv
        <5>2. j < i => asg[j].status = "closed"
          BY <4>2, <5>1 DEF QueuesInv, QueuesAt
        <5> QED BY <4>1, <5>1, <5>2
      <4>3. QueuesAt(d)
        BY DEF QueuesInv
      <4>4. QueuesAt(d)'
        BY <1>2, <1>8, <2>1, <4>2, <4>3 DEF QueuesAt
      <4> QED BY <3>2, <4>4 DEF QueuesInv
    <3> QED BY <3>4, <3>5
  <2>4. CASE requeueUnread(q)
    <3>1. <<"lookup", d>> \in raced' /\ QueuesAt(d)'
      BY <1>4, <2>4 DEF requeueUnread, Fault, QueuesAt
    <3>2. \A c \in Convs \ {d} : ~Requeuing(q, c)'
      BY <1>2, <1>4, IdleType DEF Requeuing, Continues
    <3>3. \A c \in Convs \ {d} : QueuesAt(c)'
      BY <1>2, <1>3, <1>8, <2>1, <3>2, QueuesLast DEF QueuesInv
    <3> QED BY <3>1, <3>3 DEF QueuesInv
  <2>3. CASE ~requeueOnReply(q) /\ ~requeueUnread(q) /\ ~Requeue(q)
    <3>1. \A c \in Convs : ~Requeuing(q, c)'
      <4>1. CASE SendMessage(q)
        <5>1. Done(q) \/ Goto(q, "look")
          BY <4>1 DEF SendMessage
        <5> QED BY <1>1, <5>1, DoneEffect, GotoEffect DEF Requeuing
      <4>2. CASE req[q].op # "send"
        BY <1>2, <4>2, IdleType DEF Requeuing, Continues
      <4> QED BY <2>3, <4>1, <4>2 DEF Work, CountOpen, CreateConversation, CountMembers, RemoveMember,
           Close, FireClosed, FireUnread, AnswerClaim, ClaimAssignment, CloseAssignment, PeerAgentSend,
           agentJoinPeer, JoinNote, SendPeer, FindRead, SaveRead
    <3> QED BY <1>2, <1>3, <1>8, <2>1, <3>1, QueuesLast DEF QueuesInv
  <2> QED BY <1>6, <2>2, <2>3, <2>4
<1> QED BY <1>5, <1>6, <1>7, <1>8, WorkAsg

LEMMA QueuesStep == DeskBase /\ QueuesInv /\ [Next]_vars => QueuesInv'
<1> SUFFICES ASSUME DeskBase, QueuesInv, [Next]_vars PROVE QueuesInv'
  OBVIOUS
<1>1. req \in [Reqs -> Request] /\ asg \in Seq(Assignment)
  BY DEF DeskBase, DeskTypes
<1>2. ASSUME asg' = asg, raced \subseteq raced',
             \A q \in Reqs, c \in Convs : Requeuing(q, c)' => Requeuing(q, c)
      PROVE  QueuesInv'
  <2>1. \A c \in Convs : OfConv(c)' = OfConv(c)
    BY <1>2 DEF OfConv
  <2> QED BY <1>2, <2>1, QueuesLast DEF QueuesInv
<1>3. CASE UNCHANGED vars
  BY <1>2, <1>3 DEF vars, rowVars, Requeuing
<1>4. ASSUME NEW q \in Reqs, Start(q) PROVE QueuesInv'
  <2>1. PICK r \in Request : Begin(q, r) /\ <<r.op, r.pc>> \in FirstStages
    BY <1>4, StartEffect
  <2>2. /\ req'[q] = r /\ \A o \in Reqs \ {q} : req'[o] = req[o]
        /\ UNCHANGED <<rowVars, histVars, faults>> /\ raced \subseteq raced'
    BY <1>1, <2>1, BeginEffect
  <2>3. \A o \in Reqs, c \in Convs : Requeuing(o, c)' => Requeuing(o, c)
    BY <2>1, <2>2 DEF Requeuing, FirstStages
  <2> QED BY <1>2, <2>2, <2>3 DEF rowVars
<1>5. ASSUME NEW q \in Reqs, CutOff(q) PROVE QueuesInv'
  <2>1. /\ req'[q].op = "idle" /\ \A o \in Reqs \ {q} : req'[o] = req[o]
        /\ asg' = asg /\ raced \subseteq raced'
    BY <1>1, <1>5, DoneEffect DEF CutOff, Fault, rowVars
  <2> QED BY <1>2, <2>1 DEF Requeuing
<1>6. CASE Written
  <2>1. req' = req /\ raced \subseteq raced'
    BY <1>6, WrittenBase
  <2>2. CASE asg' = asg
    BY <1>2, <2>1, <2>2 DEF Requeuing
  <2>3. ASSUME NEW b \in Callers, NEW d \in Convs, AddAssignment(b, d) PROVE QueuesInv'
    <3>1. asg' = Append(asg, Queued(d)) /\ <<"queue", d>> \in raced'
      BY <2>3 DEF AddAssignment
    <3>2. \A c \in Convs \ {d} : QueuesAt(c)'
      BY <1>1, <2>1, <3>1, QueueOther, QueuesLast DEF QueuesInv, Requeuing
    <3> QED BY <3>1, <3>2 DEF QueuesInv, QueuesAt
  <2> QED BY <1>6, <2>2, <2>3 DEF Written, AddMember, Remap
<1> QED BY <1>3, <1>4, <1>5, <1>6, QueuesWork DEF Next, Written

LEMMA QueuesInit == Init => QueuesInv
<1> SUFFICES ASSUME Init, NEW c \in Convs PROVE QueuesAt(c)
  BY DEF QueuesInv
<1>1. \A i, j \in OfConv(c) : i < j => asg[i].status = "closed"
  BY SeedsAssumption DEF Init, OfConv
<1> QED BY <1>1, IdleType DEF Init, QueuesAt, Requeuing

(* A conversation waits in the queue once: only the latest assignment of a *)
(* conversation is not closed, unless the assignments endpoint added one,  *)
(* two replies looked at once, or a reply could not read the latest one    *)
(* (domain/message.go, requeueOnReply).                                    *)
THEOREM QueuedOnceHolds == Spec => []QueuedOnce
<1>1. DeskBase /\ QueuesInv => QueuedOnce
  <2> SUFFICES ASSUME DeskBase, QueuesInv, NEW c \in Convs,
                      <<"queue", c>> \notin raced, <<"send", c>> \notin raced, <<"lookup", c>> \notin raced
               PROVE  ~(Cardinality({i \in OfConv(c) : asg[i].status # "closed"}) > 1)
    BY DEF QueuedOnce
  <2> DEFINE S == {i \in OfConv(c) : asg[i].status # "closed"}
  <2>1. OfConv(c) \subseteq Nat
    BY DEF OfConv, DeskBase, DeskTypes
  <2>2. \A i, j \in S : i = j
    BY <2>1 DEF QueuesInv, QueuesAt
  <2> HIDE DEF S
  <2>3. Cardinality(S) \in {0, 1}
    BY <2>2, AtMostOne
  <2> QED BY <2>3 DEF S
<1> QED BY <1>1, BaseInit, BaseStep, QueuesInit, QueuesStep, PTL DEF Spec

-----------------------------------------------------------------------------
(* The requests of the team's own members.                                 *)

\* the steps that open no conversation for a requester
LEMMA RequestsLast ==
    ASSUME RequestsInv, raced \subseteq raced',
           \A a \in Admins, x \in Queues : RequesterOnly(Caller(a)) =>
               /\ OpenFor(a, x)' \subseteq OpenFor(a, x)
               /\ \A q \in Reqs : Inserting(q, a, x)' => Inserting(q, a, x)
    PROVE  RequestsInv'
<1> SUFFICES ASSUME NoCreateRace', NEW a \in Admins, NEW x \in Queues, RequesterOnly(Caller(a))
             PROVE  RequestsAt(a, x)'
  BY DEF RequestsInv
<1>1. NoCreateRace
  BY DEF NoCreateRace
<1> QED BY <1>1 DEF RequestsInv, RequestsAt

LEMMA CountOpenEmpty ==
    ASSUME NEW a, NEW x, ~(CountOpenForActor(a, x) > 0)
    PROVE  OpenFor(a, x) = {}
<1>1. IsFiniteSet(OpenFor(a, x))
  <2>1. OpenFor(a, x) \subseteq Convs
    BY DEF OpenFor
  <2> QED BY <2>1, FS_Subset, DeskAssumption
<1>2. CountOpenForActor(a, x) = Cardinality(OpenFor(a, x))
  BY DEF CountOpenForActor, OpenFor
<1>3. Cardinality(OpenFor(a, x)) \in Nat
  BY <1>1, FS_CardinalityType
<1> QED BY <1>1, <1>2, <1>3, FS_EmptySet

LEMMA RequestsWork ==
    ASSUME DeskBase, RequestsInv, NEW q \in Reqs, Work(q)
    PROVE  RequestsInv'
<1>1. /\ DeskTypes /\ req[q] \in Request /\ ReqHolds(req[q]) /\ req[q].c \in Convs
      /\ req \in [Reqs -> Request] /\ OverlapKnown
      /\ conv \in [Convs -> ConvRow] /\ rows \in [Convs -> [People -> Nat]]
      /\ \A a \in Admins : a \in People /\ a \notin Users
  BY DeskAssumption DEF DeskBase, DeskTypes, Request, People
<1>2. /\ \A o \in Reqs \ {q} : req'[o] = req[o]
      /\ (req'[q] = Idle \/ Continues(q)) /\ raced \subseteq raced'
  BY <1>1, WorkEffect
<1>3. \A o \in Reqs \ {q}, a \in Admins, x \in Queues : Inserting(o, a, x)' <=> Inserting(o, a, x)
  BY <1>2 DEF Inserting
<1>4. PICK d \in Convs : d = req[q].c
  BY <1>1
<1>5. CASE CountOpen(q)
  <2>1. \A a \in Admins, x \in Queues : OpenFor(a, x)' = OpenFor(a, x) /\ ~Inserting(q, a, x)
    BY <1>5 DEF CountOpen, rowVars, OpenFor, Inserting
  <2>2. CASE Done(q)
    <3>1. \A a \in Admins, x \in Queues : ~Inserting(q, a, x)'
      BY <1>1, <2>2, DoneEffect DEF Inserting
    <3> QED BY <1>2, <1>3, <2>1, <3>1, RequestsLast
  <2>3. CASE ~Done(q)
    <3>1. /\ Goto(q, "insert") /\ ~(req[q].limit /\ CountOpenForActor(req[q].by, req[q].row.queue) > 0)
      BY <1>5, <2>3 DEF CountOpen
    <3>2. Continues(q)
      BY <1>1, <3>1, GotoEffect
    <3>3. \A a \in Admins, x \in Queues : Inserting(q, a, x)' => OpenFor(a, x) = {}
      BY <3>1, <3>2, CountOpenEmpty DEF Continues, Inserting
    <3> SUFFICES ASSUME NoCreateRace', NEW a \in Admins, NEW x \in Queues, RequesterOnly(Caller(a))
                 PROVE  RequestsAt(a, x)'
      BY DEF RequestsInv
    <3>4. NoCreateRace
      BY <1>2 DEF NoCreateRace
    <3>5. RequestsAt(a, x)
      BY <3>4 DEF RequestsInv
    <3> QED BY <1>3, <2>1, <3>3, <3>5 DEF RequestsAt
  <2> QED BY <2>2, <2>3
<1>6. CASE CreateConversation(q)
  <2>1. /\ conv[d].status = "none" /\ conv'[d] = req[q].row /\ req[q].row.status = "open"
        /\ NewMembers(req[q]) /\ \A c \in Convs \ {d} : conv'[c] = conv[c]
        /\ \A p \in People : rows'[d][p] > 0 => p \in req[q].members
        /\ \A c \in Convs \ {d} : rows'[c] = rows[c]
        /\ req[q].op = "create" /\ req[q].pc = "insert"
    BY <1>1, <1>4, <1>6, CreateRows DEF CreateConversation, ReqHolds, DeskTypes
  <2>2. \A a \in Admins, x \in Queues : ~Inserting(q, a, x)'
    BY <1>1, <1>6, DoneEffect DEF CreateConversation, Inserting
  <2>3. ASSUME NEW a \in Admins, NEW x \in Queues
        PROVE  /\ OpenFor(a, x)' \subseteq OpenFor(a, x) \cup {d}
               /\ d \in OpenFor(a, x)' => Inserting(q, a, x)
    <3>1. d \in OpenFor(a, x)' => a \in req[q].members /\ req[q].row.queue = x
      BY <1>1, <2>1 DEF OpenFor
    <3>2. a \in req[q].members => req[q].limit /\ req[q].by = a
      BY <1>1, <2>1 DEF NewMembers
    <3>3. OpenFor(a, x)' \subseteq OpenFor(a, x) \cup {d}
      BY <2>1 DEF OpenFor
    <3> QED BY <2>1, <3>1, <3>2, <3>3 DEF Inserting
  <2> SUFFICES ASSUME NoCreateRace', NEW a \in Admins, NEW x \in Queues, RequesterOnly(Caller(a))
               PROVE  RequestsAt(a, x)'
    BY DEF RequestsInv
  <2>4. NoCreateRace
    BY <1>2 DEF NoCreateRace
  <2>5. RequestsAt(a, x)
    BY <2>4 DEF RequestsInv
  <2>6. \A o \in Reqs \ {q} : ~Inserting(o, a, x)
    <3>1. OverlapKnown /\ req[q].op = "create"
      BY <1>1, <2>1
    <3>2. \A o \in Reqs \ {q} : req[o].op # "create"
      BY <2>4, <3>1 DEF OverlapKnown, NoCreateRace
    <3> QED BY <3>2 DEF Inserting
  <2>7. \A o \in Reqs : ~Inserting(o, a, x)'
    BY <1>3, <2>2, <2>6
  <2>8. \A c, e \in OpenFor(a, x)' : c = e
    <3>1. CASE d \in OpenFor(a, x)'
      BY <2>3, <2>5, <3>1 DEF RequestsAt
    <3>2. CASE d \notin OpenFor(a, x)'
      BY <2>3, <2>5, <3>2 DEF RequestsAt
    <3> QED BY <3>1, <3>2
  <2> QED BY <2>7, <2>8 DEF RequestsAt
<1>7. CASE ~CountOpen(q) /\ ~CreateConversation(q)
  <2>1. req[q].op # "create"
    BY <1>7 DEF Work, CountMembers, RemoveMember, Close, FireClosed, FireUnread, AnswerClaim,
       ClaimAssignment, CloseAssignment, SendMessage, requeueOnReply, requeueUnread, Requeue,
       PeerAgentSend, agentJoinPeer, JoinNote, SendPeer, FindRead, SaveRead
  <2>2. \A a \in Admins, x \in Queues : ~Inserting(q, a, x)'
    BY <1>2, <2>1, IdleType DEF Inserting, Continues
  <2>3. \A a \in Admins, x \in Queues : RequesterOnly(Caller(a)) => OpenFor(a, x)' \subseteq OpenFor(a, x)
    <3>1. CASE Close(q)
      <4>1. rows' = rows /\ \A c \in Convs \ {d} : conv'[c] = conv[c]
        BY <1>1, <1>4, <3>1 DEF Close
      <4>2. conv'[d].status = "closed"
        BY <1>1, <1>4, <3>1 DEF Close, ConvRow
      <4> QED BY <4>1, <4>2 DEF OpenFor
    <3>2. CASE RemoveMember(q)
      <4>1. conv' = conv /\ rows' = [rows EXCEPT ![d] = [rows[d] EXCEPT ![req[q].who] = 0]] /\ req[q].who \in Users
        BY <1>1, <1>4, <3>2 DEF RemoveMember, ReqHolds
      <4>2. \A c \in Convs, a \in Admins : rows'[c][a] = rows[c][a]
        BY <1>1, <4>1
      <4> QED BY <4>1, <4>2 DEF OpenFor
    <3>3. CASE agentJoinPeer(q)
      <4>1. conv' = conv /\ ~RequesterOnly(Caller(req[q].by)) /\ req[q].by \in Admins
        BY <1>1, <3>3 DEF agentJoinPeer, ReqHolds
      <4>2. rows' = rows \/ rows' = [rows EXCEPT ![d] = [rows[d] EXCEPT ![req[q].by] = 1]]
        BY <1>4, <3>3 DEF agentJoinPeer
      <4>3. \A c \in Convs, a \in Admins : a # req[q].by => rows'[c][a] = rows[c][a]
        BY <1>1, <4>1, <4>2
      <4> QED BY <4>1, <4>3 DEF OpenFor
    <3>4. CASE conv' = conv /\ rows' = rows
      BY <3>4 DEF OpenFor
    <3> QED BY <1>7, <3>1, <3>2, <3>3, <3>4 DEF Work, CountMembers, FireClosed, FireUnread, AnswerClaim,
       ClaimAssignment, CloseAssignment, SendMessage, requeueOnReply, requeueUnread, Requeue,
       PeerAgentSend, JoinNote, SendPeer, FindRead, SaveRead, rowVars
  <2> QED BY <1>2, <1>3, <2>2, <2>3, RequestsLast
<1> QED BY <1>5, <1>6, <1>7

LEMMA RequestsStep == DeskBase /\ RequestsInv /\ [Next]_vars => RequestsInv'
<1> SUFFICES ASSUME DeskBase, RequestsInv, [Next]_vars PROVE RequestsInv'
  OBVIOUS
<1>1. /\ DeskTypes /\ req \in [Reqs -> Request] /\ rows \in [Convs -> [People -> Nat]]
      /\ \A a \in Admins : a \in People /\ a \notin Users
  BY DeskAssumption DEF DeskBase, DeskTypes, People
<1>2. CASE UNCHANGED vars
  <2>1. UNCHANGED <<conv, rows, raced, req>>
    BY <1>2 DEF vars, rowVars
  <2> QED BY <2>1, RequestsLast DEF OpenFor, Inserting
<1>3. ASSUME NEW q \in Reqs, Start(q) PROVE RequestsInv'
  <2>1. PICK r \in Request : Begin(q, r) /\ <<r.op, r.pc>> \in FirstStages
    BY <1>3, StartEffect
  <2>2. /\ req'[q] = r /\ \A o \in Reqs \ {q} : req'[o] = req[o]
        /\ UNCHANGED <<rowVars, histVars, faults>> /\ raced \subseteq raced'
    BY <1>1, <2>1, BeginEffect
  <2>3. \A o \in Reqs, a \in Admins, x \in Queues : Inserting(o, a, x)' => Inserting(o, a, x)
    BY <2>1, <2>2 DEF Inserting, FirstStages
  <2> QED BY <2>2, <2>3, RequestsLast DEF rowVars, OpenFor
<1>4. ASSUME NEW q \in Reqs, CutOff(q) PROVE RequestsInv'
  <2>1. /\ req'[q].op = "idle" /\ \A o \in Reqs \ {q} : req'[o] = req[o]
        /\ UNCHANGED <<conv, rows>> /\ raced \subseteq raced'
    BY <1>1, <1>4, DoneEffect DEF CutOff, Fault, rowVars
  <2> QED BY <2>1, RequestsLast DEF Inserting, OpenFor
<1>5. CASE Written
  <2>1. UNCHANGED <<conv, req>> /\ raced \subseteq raced'
    BY <1>5, WrittenBase
  <2>2. \A c \in Convs, a \in Admins : rows'[c][a] = rows[c][a]
    BY <1>1, <1>5, WrittenAdmins
  <2> QED BY <2>1, <2>2, RequestsLast DEF Inserting, OpenFor
<1> QED BY <1>2, <1>3, <1>4, <1>5, RequestsWork DEF Next, Written

LEMMA RequestsInit == Init => RequestsInv
<1> SUFFICES ASSUME Init, NEW a \in Admins, NEW x \in Queues PROVE RequestsAt(a, x)
  BY DEF RequestsInv
<1>1. PICK s \in Seeds :
        /\ conv = s.conv
        /\ rows = [c \in Convs |-> [p \in People |-> IF p \in s.members[c] THEN 1 ELSE 0]]
  BY DEF Init
<1>2. \A c, d \in Convs :
        /\ a \in s.members[c] \cap s.members[d] /\ s.conv[c].queue = s.conv[d].queue
        /\ s.conv[c].status = "open" /\ s.conv[d].status = "open"
        => c = d
  BY SeedsAssumption
<1>3. \A c \in OpenFor(a, x) : /\ c \in Convs /\ a \in s.members[c] /\ s.conv[c].queue = x
                               /\ s.conv[c].status = "open"
  BY <1>1 DEF OpenFor, People
<1>4. \A c, d \in OpenFor(a, x) : c = d
  BY <1>2, <1>3
<1> QED BY <1>4, IdleType DEF Init, RequestsAt, Inserting

(* A requester has one open request per queue: the count inside the        *)
(* transaction keeps it so unless two creates overlapped                   *)
(* (domain/conversation.go, CreateConversation).                           *)
THEOREM OneOpenRequestHolds == Spec => []OneOpenRequest
<1>1. DeskBase /\ RequestsInv => OneOpenRequest
  <2> SUFFICES ASSUME RequestsInv, NEW a \in Admins, NEW x \in Queues, RequesterOnly(Caller(a)), NoCreateRace
               PROVE  ~(CountOpenForActor(a, x) > 1)
    BY DEF OneOpenRequest, NoCreateRace
  <2>1. \A c, d \in OpenFor(a, x) : c = d
    BY DEF RequestsInv, RequestsAt
  <2>2. Cardinality(OpenFor(a, x)) \in {0, 1}
    BY <2>1, AtMostOne
  <2>3. CountOpenForActor(a, x) = Cardinality(OpenFor(a, x))
    BY DEF CountOpenForActor, OpenFor
  <2> QED BY <2>2, <2>3
<1> QED BY <1>1, BaseInit, BaseStep, RequestsInit, RequestsStep, PTL DEF Spec

-----------------------------------------------------------------------------
(* Members.                                                                *)

\* the steps that take nobody out of a conversation
LEMMA MembersLast ==
    ASSUME NEW c \in Convs, MembersAt(c), raced \subseteq raced',
           conv'[c].status = "open" => conv[c].status = "open",
           \A p \in People : rows[c][p] > 0 => rows'[c][p] > 0,
           \A p \in People : rows'[c][p] > 1 => <<"twice", c>> \in raced',
           \A q \in Reqs : Removing(q, c)' => Removing(q, c)
    PROVE  MembersAt(c)'
<1>1. ListActive(c) # {} => ListActive(c)' # {}
  BY DEF ListActive
<1>2. TwoMembers(c) => TwoMembers(c)'
  BY DEF TwoMembers
<1> QED BY <1>1, <1>2 DEF MembersAt

LEMMA MembersSame ==
    ASSUME NEW c \in Convs, MembersAt(c), raced \subseteq raced',
           conv'[c].status = "open" => conv[c].status = "open", rows'[c] = rows[c],
           \A q \in Reqs : Removing(q, c)' => Removing(q, c)
    PROVE  MembersAt(c)'
BY MembersLast DEF MembersAt

\* two rows are two people, unless somebody has two
LEMMA TwoRows ==
    ASSUME rows \in [Convs -> [People -> Nat]], NEW c \in Convs, ~(CountActive(c) <= 1),
           \A p \in People : ~(rows[c][p] > 1)
    PROVE  TwoMembers(c)
<1> SUFFICES ASSUME ~TwoMembers(c) PROVE FALSE
  OBVIOUS
<1>1. \A x \in MemberRows(c) : \E p \in People : rows[c][p] > 0 /\ x = <<p, 1>>
  BY DEF MemberRows
<1>2. \A x, y \in MemberRows(c) : x = y
  BY <1>1 DEF TwoMembers
<1>3. Cardinality(MemberRows(c)) \in {0, 1}
  BY <1>2, AtMostOne
<1> QED BY <1>3 DEF CountActive

LEMMA MembersWork ==
    ASSUME DeskBase, MembersInv, NEW q \in Reqs, Work(q)
    PROVE  MembersInv'
<1>1. /\ DeskTypes /\ req[q] \in Request /\ ReqHolds(req[q]) /\ req[q].c \in Convs
      /\ req \in [Reqs -> Request] /\ OverlapKnown
      /\ conv \in [Convs -> ConvRow] /\ rows \in [Convs -> [People -> Nat]]
  BY DEF DeskBase, DeskTypes, Request
<1>2. /\ \A o \in Reqs \ {q} : req'[o] = req[o]
      /\ (req'[q] = Idle \/ Continues(q)) /\ raced \subseteq raced'
  BY <1>1, WorkEffect
<1>3. \A o \in Reqs \ {q}, c \in Convs : Removing(o, c)' <=> Removing(o, c)
  BY <1>2 DEF Removing
<1>4. PICK d \in Convs : d = req[q].c
  BY <1>1
<1>5. CASE CreateConversation(q)
  <2>1. /\ conv[d].status = "none" /\ NewMembers(req[q]) /\ \A c \in Convs \ {d} : conv'[c] = conv[c]
        /\ \A p \in People : /\ p \in req[q].members => rows'[d][p] > 0
                             /\ rows'[d][p] > 1 => <<"twice", d>> \in raced'
        /\ \A c \in Convs \ {d} : rows'[c] = rows[c]
        /\ req[q].op = "create" /\ req[q].members \subseteq People
    BY <1>1, <1>4, <1>5, CreateRows DEF CreateConversation, ReqHolds, Request
  <2>2. \A c \in Convs : ~Removing(q, c)'
    BY <1>2, <2>1, IdleType DEF Removing, Continues
  <2>3. \A c \in Convs \ {d} : MembersAt(c)'
    BY <1>2, <1>3, <2>1, <2>2, MembersSame DEF MembersInv
  <2>4. \A o \in Reqs : ~Removing(o, d)
    BY <2>1 DEF DeskBase, ReqHolds, Removing
  <2>5. \A o \in Reqs : ~Removing(o, d)'
    BY <1>3, <2>2, <2>4
  <2>6. ListActive(d)' # {} /\ \A p \in People : rows'[d][p] > 1 => <<"twice", d>> \in raced'
    BY <2>1 DEF ListActive, NewMembers
  <2> QED BY <2>3, <2>5, <2>6 DEF MembersInv, MembersAt
<1>6. CASE CountMembers(q)
  <2>1. UNCHANGED <<conv, rows>> /\ req[q].op = "remove" /\ \A c \in Convs : ~Removing(q, c)
    BY <1>6 DEF CountMembers, rowVars, Removing
  <2>2. CASE Done(q)
    <3>1. \A c \in Convs : ~Removing(q, c)'
      BY <1>1, <2>2, DoneEffect DEF Removing
    <3> QED BY <1>2, <1>3, <2>1, <3>1, MembersSame DEF MembersInv
  <2>3. CASE ~Done(q)
    <3>1. conv[d].status = "open" => ~(CountActive(d) <= 1)
      BY <1>4, <1>6, <2>3 DEF CountMembers
    <3>2. \A c \in Convs \ {d} : ~Removing(q, c)'
      BY <1>2, <1>4, IdleType DEF Removing, Continues
    <3>3. \A c \in Convs \ {d} : MembersAt(c)'
      BY <1>2, <1>3, <2>1, <3>2, MembersSame DEF MembersInv
    <3>4. <<"twice", d>> \notin raced /\ conv[d].status = "open" => TwoMembers(d)
      BY <1>1, <3>1, TwoRows DEF MembersInv, MembersAt
    <3>5. TwoMembers(d)' <=> TwoMembers(d)
      BY <2>1 DEF TwoMembers
    <3>6. ListActive(d)' = ListActive(d)
      BY <2>1 DEF ListActive
    <3>7. MembersAt(d)
      BY DEF MembersInv
    <3>8. MembersAt(d)'
      BY <1>2, <2>1, <3>4, <3>5, <3>6, <3>7 DEF MembersAt
    <3> QED BY <3>3, <3>8 DEF MembersInv
  <2> QED BY <2>2, <2>3
<1>7. CASE RemoveMember(q)
  <2>1. /\ conv' = conv /\ rows' = [rows EXCEPT ![d] = [rows[d] EXCEPT ![req[q].who] = 0]]
        /\ Removing(q, d) /\ req[q].op = "remove" /\ req[q].who \in Users
    BY <1>1, <1>4, <1>7 DEF RemoveMember, Removing, ReqHolds
  <2>2. \A c \in Convs : ~Removing(q, c)'
    BY <1>1, <1>7, DoneEffect DEF RemoveMember, Removing
  <2>3. /\ \A c \in Convs \ {d} : rows'[c] = rows[c]
        /\ \A p \in People : p # req[q].who => rows'[d][p] = rows[d][p]
        /\ rows'[d][req[q].who] = 0
    BY <1>1, <2>1 DEF People
  <2>4. \A c \in Convs \ {d} : MembersAt(c)'
    BY <1>2, <1>3, <2>1, <2>2, <2>3, MembersSame DEF MembersInv
  <2>5. MembersAt(d)
    BY DEF MembersInv
  <2>6. ASSUME <<"remove", d>> \notin raced, <<"twice", d>> \notin raced, conv[d].status = "open"
        PROVE  ListActive(d)' # {} /\ \A o \in Reqs : ~Removing(o, d)'
    <3>1. TwoMembers(d)
      BY <2>1, <2>5, <2>6 DEF MembersAt
    <3>2. \E p \in People : p # req[q].who /\ rows[d][p] > 0
      BY <3>1 DEF TwoMembers
    <3>3. ListActive(d)' # {}
      BY <2>3, <3>2 DEF ListActive
    <3>4. \A o \in Reqs \ {q} : ~Removing(o, d)
      BY <1>1, <1>4, <2>1, <2>6 DEF OverlapKnown, Removing
    <3> QED BY <1>3, <2>2, <3>3, <3>4
  <2>7. \A p \in People : rows'[d][p] > 1 => <<"twice", d>> \in raced
    BY <2>3, <2>5 DEF MembersAt
  <2>8. MembersAt(d)'
    BY <1>2, <2>1, <2>6, <2>7 DEF MembersAt
  <2> QED BY <2>4, <2>8 DEF MembersInv
<1>8. CASE ~CreateConversation(q) /\ ~CountMembers(q) /\ ~RemoveMember(q)
  <2>1. req[q].op # "remove"
    BY <1>8 DEF Work, CountOpen, Close, FireClosed, FireUnread, AnswerClaim, ClaimAssignment, CloseAssignment,
       SendMessage, requeueOnReply, requeueUnread, Requeue, PeerAgentSend, agentJoinPeer, JoinNote, SendPeer,
       FindRead, SaveRead
  <2>2. \A c \in Convs : ~Removing(q, c)'
    BY <1>2, <2>1, IdleType DEF Removing, Continues
  <2>3. CASE agentJoinPeer(q) /\ rows[d][req[q].by] = 0
    <3>1. conv' = conv /\ rows' = [rows EXCEPT ![d] = [rows[d] EXCEPT ![req[q].by] = 1]] /\ req[q].by \in Admins
      BY <1>1, <1>4, <2>3 DEF agentJoinPeer, ReqHolds
    <3>2. /\ \A c \in Convs \ {d} : rows'[c] = rows[c]
          /\ \A p \in People : p # req[q].by => rows'[d][p] = rows[d][p]
          /\ rows'[d][req[q].by] = 1
      BY <1>1, <3>1 DEF People
    <3>3. \A c \in Convs \ {d} : MembersAt(c)'
      BY <1>2, <1>3, <2>2, <3>1, <3>2, MembersSame DEF MembersInv
    <3>4. MembersAt(d)
      BY DEF MembersInv
    <3>5. \A p \in People : rows'[d][p] > 1 => <<"twice", d>> \in raced'
      BY <1>2, <3>2, <3>4 DEF MembersAt
    <3>6. \A p \in People : rows[d][p] > 0 => rows'[d][p] > 0
      BY <3>2
    <3>7. MembersAt(d)'
      BY <1>2, <1>3, <2>2, <3>1, <3>4, <3>5, <3>6, MembersLast
    <3> QED BY <3>3, <3>7 DEF MembersInv
  <2>4. CASE Close(q)
    <3>1. rows' = rows /\ conv'[d].status = "closed" /\ \A c \in Convs \ {d} : conv'[c] = conv[c]
      BY <1>1, <1>4, <2>4 DEF Close, ConvRow
    <3> QED BY <1>2, <1>3, <2>2, <3>1, MembersSame DEF MembersInv
  <2>5. CASE conv' = conv /\ rows' = rows
    BY <1>2, <1>3, <2>2, <2>5, MembersSame DEF MembersInv
  <2> QED BY <1>4, <1>8, <2>3, <2>4, <2>5 DEF Work, CountOpen, FireClosed, FireUnread, AnswerClaim, ClaimAssignment,
       CloseAssignment, SendMessage, requeueOnReply, requeueUnread, Requeue, PeerAgentSend, agentJoinPeer, JoinNote,
       SendPeer, FindRead, SaveRead, rowVars
<1> QED BY <1>5, <1>6, <1>7, <1>8

LEMMA MembersStep == DeskBase /\ MembersInv /\ [Next]_vars => MembersInv'
<1> SUFFICES ASSUME DeskBase, MembersInv, [Next]_vars PROVE MembersInv'
  OBVIOUS
<1>1. DeskTypes /\ req \in [Reqs -> Request] /\ rows \in [Convs -> [People -> Nat]]
  BY DEF DeskBase, DeskTypes
<1>2. CASE UNCHANGED vars
  <2>1. UNCHANGED <<conv, rows, raced, req>>
    BY <1>2 DEF vars, rowVars
  <2> QED BY <2>1, MembersSame DEF MembersInv, Removing
<1>3. ASSUME NEW q \in Reqs, Start(q) PROVE MembersInv'
  <2>1. PICK r \in Request : Begin(q, r) /\ <<r.op, r.pc>> \in FirstStages
    BY <1>3, StartEffect
  <2>2. /\ req'[q] = r /\ \A o \in Reqs \ {q} : req'[o] = req[o]
        /\ UNCHANGED <<rowVars, histVars, faults>> /\ raced \subseteq raced'
    BY <1>1, <2>1, BeginEffect
  <2>3. \A o \in Reqs, c \in Convs : Removing(o, c)' => Removing(o, c)
    BY <2>1, <2>2 DEF Removing, FirstStages
  <2> QED BY <2>2, <2>3, MembersSame DEF MembersInv, rowVars
<1>4. ASSUME NEW q \in Reqs, CutOff(q) PROVE MembersInv'
  <2>1. /\ req'[q].op = "idle" /\ \A o \in Reqs \ {q} : req'[o] = req[o]
        /\ UNCHANGED <<conv, rows>> /\ raced \subseteq raced'
    BY <1>1, <1>4, DoneEffect DEF CutOff, Fault, rowVars
  <2> QED BY <2>1, MembersSame DEF MembersInv, Removing
<1>5. CASE Written
  <2>1. UNCHANGED <<conv, req>> /\ raced \subseteq raced'
    BY <1>5, WrittenBase
  <2>2. \A o \in Reqs, c \in Convs : Removing(o, c)' => Removing(o, c)
    BY <2>1 DEF Removing
  <2>3. ASSUME NEW d \in Convs, NEW u \in Users, AddMember(d, u) PROVE MembersInv'
    <3>1. rows' = [rows EXCEPT ![d] = [rows[d] EXCEPT ![u] = rows[d][u] + 1]]
          /\ (rows[d][u] > 0 => <<"twice", d>> \in raced')
      BY <2>3 DEF AddMember
    <3>2. /\ \A c \in Convs \ {d} : rows'[c] = rows[c]
          /\ \A p \in People : p # u => rows'[d][p] = rows[d][p]
          /\ rows'[d][u] = rows[d][u] + 1 /\ rows[d][u] \in Nat
      BY <1>1, <3>1 DEF People
    <3>3. \A c \in Convs \ {d} : MembersAt(c)'
      BY <2>1, <2>2, <3>2, MembersSame DEF MembersInv
    <3>4. MembersAt(d)
      BY DEF MembersInv
    <3>5. \A p \in People : rows'[d][p] > 1 => <<"twice", d>> \in raced'
      BY <2>1, <3>1, <3>2, <3>4 DEF MembersAt
    <3>6. \A p \in People : rows[d][p] > 0 => rows'[d][p] > 0
      BY <3>2
    <3>7. MembersAt(d)'
      BY <2>1, <2>2, <3>4, <3>5, <3>6, MembersLast
    <3> QED BY <3>3, <3>7 DEF MembersInv
  <2>4. ASSUME NEW d \in Convs, NEW u \in Users, NEW v \in Users, Remap(d, u, v) PROVE MembersInv'
    <3>1. /\ \A c \in Convs \ {d} : rows'[c] = rows[c]
          /\ \A p \in People \ {u, v} : rows'[d][p] = rows[d][p]
          /\ u # v /\ rows'[d][u] = 0 /\ rows[d][u] > 0 /\ rows'[d][v] = rows[d][v] + rows[d][u]
          /\ rows[d][u] \in Nat /\ rows[d][v] \in Nat /\ u \in People /\ v \in People
          /\ (rows[d][v] > 0 => <<"twice", d>> \in raced')
      BY <1>1, <2>4, RemapEffect DEF Remap, People
    <3>2. \A c \in Convs \ {d} : MembersAt(c)'
      BY <2>1, <2>2, <3>1, MembersSame DEF MembersInv
    <3>3. MembersAt(d)
      BY DEF MembersInv
    <3>4. \A p \in People : rows'[d][p] > 1 => <<"twice", d>> \in raced'
      BY <2>1, <3>1, <3>3 DEF MembersAt
    <3>5. rows'[d][v] > 0
      BY <3>1
    <3>6. ListActive(d)' # {}
      BY <3>1, <3>5 DEF ListActive
    <3>7. rows[d][v] = 0 /\ TwoMembers(d) => TwoMembers(d)'
      BY <3>1, <3>5 DEF TwoMembers
    <3>8. MembersAt(d)'
      BY <2>1, <2>2, <3>1, <3>3, <3>4, <3>6, <3>7 DEF MembersAt
    <3> QED BY <3>2, <3>8 DEF MembersInv
  <2>5. ASSUME NEW b \in Callers, NEW d \in Convs, AddAssignment(b, d) PROVE MembersInv'
    BY <2>1, <2>2, <2>5, MembersSame DEF MembersInv, AddAssignment
  <2> QED BY <1>5, <2>3, <2>4, <2>5 DEF Written
<1> QED BY <1>2, <1>3, <1>4, <1>5, MembersWork DEF Next, Written

LEMMA MembersInit == Init => MembersInv
<1> SUFFICES ASSUME Init, NEW c \in Convs PROVE MembersAt(c)
  BY DEF MembersInv
<1>1. PICK s \in Seeds :
        /\ conv = s.conv
        /\ rows = [d \in Convs |-> [p \in People |-> IF p \in s.members[d] THEN 1 ELSE 0]]
  BY DEF Init
<1>2. s.members \in [Convs -> SUBSET People] /\ (conv[c].status = "open" => s.members[c] # {})
  BY <1>1, SeedsAssumption
<1>3. \A p \in People : ~(rows[c][p] > 1)
  BY <1>1
<1>4. conv[c].status = "open" => ListActive(c) # {}
  BY <1>1, <1>2 DEF ListActive
<1> QED BY <1>3, <1>4, IdleType DEF Init, MembersAt, Removing

(* The tables keep their types, and RemoveMember never takes the last      *)
(* member of an open conversation: one without members comes of two        *)
(* removals at once or of a person with two rows                           *)
(* (domain/conversation.go, RemoveMember).                                 *)
THEOREM DeskInvHolds == Spec => []DeskInv
<1>1. DeskBase => DeskTypeOK
  <2> SUFFICES ASSUME DeskBase PROVE DeskTypeOK
    OBVIOUS
  <2>1. DeskTypes /\ AssignedExists
    BY DEF DeskBase
  <2>2. \A i \in DOMAIN asg : asg[i] \in Assignment /\ conv[asg[i].conv].status # "none"
    BY <2>1 DEF DeskTypes, AssignedExists
  <2>3. \A i \in DOMAIN receipts : receipts[i] \in Receipt
    BY <2>1 DEF DeskTypes
  <2> QED BY <2>1, <2>2, <2>3 DEF DeskTypes, DeskTypeOK
<1>2. MembersInv => LastMemberStays
  BY DEF MembersInv, MembersAt, LastMemberStays
<1>3. DeskBase /\ MembersInv => DeskInv
  BY <1>1, <1>2 DEF DeskInv
<1> QED BY <1>3, BaseInit, BaseStep, MembersInit, MembersStep, PTL DEF Spec

-----------------------------------------------------------------------------
(* Read receipts.                                                          *)

LEMMA LeastChosen ==
    ASSUME NEW S \in SUBSET Nat, S # {}
    PROVE  LET i == CHOOSE i \in S : \A j \in S : i <= j IN i \in S /\ \A j \in S : i <= j
BY LeastOf

\* a participant's first receipt stays the first when others only come after it
LEMMA ReadForward ==
    ASSUME receipts \in Seq(Receipt), receipts' \in Seq(Receipt), NEW c, NEW u,
           FindReceipt(c, u) \subseteq FindReceipt(c, u)',
           \A i \in FindReceipt(c, u), j \in FindReceipt(c, u)' \ FindReceipt(c, u) : i < j,
           \A i \in FindReceipt(c, u) : receipts'[i].last >= receipts[i].last
    PROVE  ReadUpToNext(c, u) >= ReadUpTo(c, u)
<1> DEFINE S == FindReceipt(c, u)
           T == FindReceipt(c, u)'
           i == CHOOSE i \in S : \A j \in S : i <= j
           k == CHOOSE k \in T : \A j \in T : k <= j
<1>1. /\ S \subseteq DOMAIN receipts /\ S \subseteq Nat \ {0}
      /\ T \subseteq DOMAIN receipts' /\ T \subseteq Nat \ {0}
  BY DEF FindReceipt
<1>2. /\ \A j \in DOMAIN receipts : receipts[j] \in Receipt
      /\ \A j \in DOMAIN receipts' : receipts'[j] \in Receipt
  OBVIOUS
<1>3. /\ \A j \in S : receipts[j].last \in Nat
      /\ \A j \in T : receipts'[j].last \in Nat
  BY <1>1, <1>2 DEF Receipt
<1>4. S # {} => i \in S /\ \A j \in S : i <= j
  BY <1>1, LeastChosen
<1>5. T # {} => k \in T /\ \A j \in T : k <= j
  BY <1>1, LeastChosen
<1>6. ReadUpTo(c, u) = IF S = {} THEN 0 ELSE receipts[i].last
  <2>1. CASE S = {}
    BY <2>1 DEF ReadUpTo, FirstReceipt
  <2>2. CASE S # {}
    <3>1. FirstReceipt(c, u) = i
      BY <2>2 DEF FirstReceipt
    <3> HIDE DEF i
    <3> QED BY <1>1, <1>4, <2>2, <3>1 DEF ReadUpTo
  <2> QED BY <2>1, <2>2
<1>7. ReadUpToNext(c, u) = IF T = {} THEN 0 ELSE receipts'[k].last
  <2>1. CASE T = {}
    BY <2>1 DEF ReadUpToNext, ReadUpTo, FirstReceipt
  <2>2. CASE T # {}
    <3>1. FirstReceipt(c, u)' = k
      BY <2>2 DEF FirstReceipt
    <3> HIDE DEF k
    <3> QED BY <1>1, <1>5, <2>2, <3>1 DEF ReadUpToNext, ReadUpTo
  <2> QED BY <2>1, <2>2
<1> HIDE DEF S, T, i, k
<1>8. S \subseteq T /\ (\A x \in S, y \in T \ S : x < y) /\ \A x \in S : receipts'[x].last >= receipts[x].last
  BY DEF S, T
<1>9. CASE S = {}
  BY <1>3, <1>5, <1>6, <1>7, <1>9
<1>10. CASE S # {}
  <2>1. i \in S /\ i \in T /\ k \in T /\ k <= i /\ i \in Nat /\ k \in Nat
    BY <1>1, <1>4, <1>5, <1>8, <1>10
  <2>2. k \in S
    BY <1>8, <2>1
  <2>3. k = i
    BY <1>4, <2>1, <2>2
  <2> QED BY <1>6, <1>7, <1>8, <1>10, <2>1, <2>3
<1> QED BY <1>9, <1>10

LEMMA ReceiptsLast ==
    ASSUME NEW q \in Reqs, NEW c \in Convs, ReceiptsAt(q, c), raced \subseteq raced', req'[q] = req[q],
           Saving(q, c) /\ <<"read", c>> \notin raced /\ <<"remap", c>> \notin raced' =>
               receipts'[req[q].seen] = receipts[req[q].seen]
    PROVE  ReceiptsAt(q, c)'
BY DEF ReceiptsAt, Saving

LEMMA SaveEffect ==
    ASSUME DeskBase, NEW q \in Reqs, SaveRead(q)
    PROVE  /\ receipts \in Seq(Receipt) /\ receipts' \in Seq(Receipt)
           /\ req[q].op = "read" /\ req[q].pc = "save"
           /\ \/ /\ req[q].seen = 0 /\ DOMAIN receipts' = DOMAIN receipts \cup {Len(receipts) + 1}
                 /\ \A i \in DOMAIN receipts : receipts'[i] = receipts[i] /\ i < Len(receipts) + 1
              \/ /\ req[q].seen # 0 /\ req[q].seen \in DOMAIN receipts /\ DOMAIN receipts' = DOMAIN receipts
                 /\ receipts[req[q].seen].conv = req[q].c
                 /\ \A i \in DOMAIN receipts \ {req[q].seen} : receipts'[i] = receipts[i]
                 /\ receipts'[req[q].seen] = [conv |-> req[q].c, who |-> req[q].who, last |-> req[q].n]
<1> DEFINE row == [conv |-> req[q].c, who |-> req[q].who, last |-> req[q].n]
<1>1. /\ receipts \in Seq(Receipt) /\ req[q].op = "read" /\ req[q].pc = "save"
      /\ receipts' = IF req[q].seen = 0 THEN Append(receipts, row) ELSE [receipts EXCEPT ![req[q].seen] = row]
      /\ req[q].seen # 0 => req[q].seen \in DOMAIN receipts /\ receipts[req[q].seen].conv = req[q].c
  BY DEF SaveRead, DeskBase, DeskTypes, ReqHolds
<1>2. receipts' \in Seq(Receipt)
  BY WorkTables DEF Work, TableTypes
<1> HIDE DEF row
<1>3. CASE req[q].seen = 0
  BY <1>1, <1>2, <1>3, AppendEffect
<1>4. CASE req[q].seen # 0
  <2>1. receipts' = [receipts EXCEPT ![req[q].seen] = row] /\ req[q].seen \in DOMAIN receipts
    BY <1>1, <1>4
  <2>2. DOMAIN receipts' = DOMAIN receipts /\ receipts'[req[q].seen] = row
        /\ \A i \in DOMAIN receipts \ {req[q].seen} : receipts'[i] = receipts[i]
    BY <1>1, <2>1
  <2> QED BY <1>1, <1>2, <1>4, <2>2 DEF row
<1> QED BY <1>3, <1>4

LEMMA ReceiptsWork ==
    ASSUME DeskBase, ReceiptsInv, NEW q \in Reqs, Work(q)
    PROVE  ReceiptsInv'
<1>1. /\ DeskTypes /\ req[q] \in Request /\ req[q].c \in Convs
      /\ req \in [Reqs -> Request] /\ OverlapKnown /\ receipts \in Seq(Receipt)
      /\ \A o \in Reqs, c \in Convs : Saving(o, c) =>
            req[o].seen \in DOMAIN receipts /\ receipts[req[o].seen].conv = c
  BY DEF DeskBase, DeskTypes, Request, ReqHolds, Saving
<1>2. /\ \A o \in Reqs \ {q} : req'[o] = req[o]
      /\ (req'[q] = Idle \/ Continues(q)) /\ raced \subseteq raced'
  BY <1>1, WorkEffect
<1>3. CASE SaveRead(q)
  <2>1. \A c \in Convs : ReceiptsAt(q, c)'
    BY <1>1, <1>3, DoneEffect DEF SaveRead, ReceiptsAt, Saving
  <2>2. ASSUME NEW o \in Reqs \ {q}, NEW c \in Convs, Saving(o, c), <<"read", c>> \notin raced
        PROVE  receipts'[req[o].seen] = receipts[req[o].seen]
    <3>1. req[o].c = c /\ req[o].op = "read" /\ req[q].op = "read"
      BY <1>3, <2>2 DEF Saving, SaveRead
    <3>2. req[q].c # c
      BY <1>1, <2>2, <3>1 DEF OverlapKnown
    <3>3. req[o].seen \in DOMAIN receipts /\ receipts[req[o].seen].conv # req[q].c
      BY <1>1, <2>2, <3>2
    <3> QED BY <1>3, <3>3, SaveEffect
  <2>3. \A o \in Reqs \ {q}, c \in Convs : ReceiptsAt(o, c)'
    BY <1>2, <2>2, ReceiptsLast DEF ReceiptsInv
  <2> QED BY <2>1, <2>3 DEF ReceiptsInv
<1>4. CASE FindRead(q)
  <2> DEFINE i == FirstReceipt(req[q].c, req[q].by)
  <2>1. receipts' = receipts /\ req[q].pc = "find"
    BY <1>4 DEF FindRead, rowVars
  <2>2. \A o \in Reqs \ {q}, c \in Convs : ReceiptsAt(o, c)'
    BY <1>2, <2>1, ReceiptsLast DEF ReceiptsInv
  <2>3. \A c \in Convs : ReceiptsAt(q, c)'
    <3>1. CASE req'[q] = Idle
      BY <3>1, IdleType DEF ReceiptsAt, Saving
    <3>2. CASE req'[q] # Idle
      <4>1. /\ Continues(q) /\ req'[q].pc = "save" /\ req'[q].seen = i
            /\ req'[q].who = (IF i = 0 THEN req[q].by ELSE receipts[i].who)
            /\ i = 0 \/ ~(receipts[i].last >= req[q].n)
        BY <1>1, <1>4, <3>2, FindEffect
      <4>2. i # 0 => i \in DOMAIN receipts
        BY <1>1, FirstFound
      <4>3. i # 0 => receipts[i] \in Receipt
        BY <1>1, <4>2
      <4>4. i # 0 => receipts[i].last \in Nat /\ req[q].n \in Nat
        BY <1>1, <4>3 DEF Receipt, Request
      <4> HIDE DEF i
      <4> QED BY <2>1, <4>1, <4>4 DEF ReceiptsAt, Saving, Continues
    <3> QED BY <3>1, <3>2
  <2> QED BY <2>2, <2>3 DEF ReceiptsInv
<1>5. CASE ~SaveRead(q) /\ ~FindRead(q)
  <2>1. receipts' = receipts /\ req[q].op # "read"
    BY <1>5 DEF Work, CountOpen, CreateConversation, CountMembers, RemoveMember, Close, FireClosed, FireUnread,
       AnswerClaim, ClaimAssignment, CloseAssignment, SendMessage, requeueOnReply, requeueUnread, Requeue,
       PeerAgentSend, agentJoinPeer, JoinNote, SendPeer, rowVars
  <2>2. req'[q].op # "read"
    BY <1>2, <2>1, IdleType DEF Continues
  <2>3. \A o \in Reqs \ {q}, c \in Convs : ReceiptsAt(o, c)'
    BY <1>2, <2>1, ReceiptsLast DEF ReceiptsInv
  <2> QED BY <2>2, <2>3 DEF ReceiptsInv, ReceiptsAt, Saving
<1> QED BY <1>3, <1>4, <1>5

LEMMA ReceiptsStep == DeskBase /\ ReceiptsInv /\ [Next]_vars => ReceiptsInv'
<1> SUFFICES ASSUME DeskBase, ReceiptsInv, [Next]_vars PROVE ReceiptsInv'
  OBVIOUS
<1>1. /\ DeskTypes /\ req \in [Reqs -> Request]
      /\ \A o \in Reqs, c \in Convs : Saving(o, c) =>
            req[o].seen \in DOMAIN receipts /\ receipts[req[o].seen].conv = c
  BY DEF DeskBase, DeskTypes, ReqHolds, Saving
<1>2. CASE UNCHANGED vars
  <2>1. UNCHANGED <<receipts, raced, req>>
    BY <1>2 DEF vars, rowVars
  <2> QED BY <2>1, ReceiptsLast DEF ReceiptsInv
<1>3. ASSUME NEW q \in Reqs, Start(q) PROVE ReceiptsInv'
  <2>1. PICK r \in Request : Begin(q, r) /\ <<r.op, r.pc>> \in FirstStages
    BY <1>3, StartEffect
  <2>2. /\ req'[q] = r /\ \A o \in Reqs \ {q} : req'[o] = req[o]
        /\ receipts' = receipts /\ raced \subseteq raced'
    BY <1>1, <2>1, BeginEffect DEF rowVars
  <2>3. \A o \in Reqs \ {q}, c \in Convs : ReceiptsAt(o, c)'
    BY <2>2, ReceiptsLast DEF ReceiptsInv
  <2> QED BY <2>1, <2>2, <2>3 DEF ReceiptsInv, ReceiptsAt, Saving, FirstStages
<1>4. ASSUME NEW q \in Reqs, CutOff(q) PROVE ReceiptsInv'
  <2>1. /\ req'[q].op = "idle" /\ \A o \in Reqs \ {q} : req'[o] = req[o]
        /\ receipts' = receipts /\ raced \subseteq raced'
    BY <1>1, <1>4, DoneEffect DEF CutOff, Fault, rowVars
  <2>2. \A o \in Reqs \ {q}, c \in Convs : ReceiptsAt(o, c)'
    BY <2>1, ReceiptsLast DEF ReceiptsInv
  <2> QED BY <2>1, <2>2 DEF ReceiptsInv, ReceiptsAt, Saving
<1>5. CASE Written
  <2>1. req' = req /\ raced \subseteq raced'
    BY <1>5, WrittenBase
  <2>2. CASE receipts' = receipts
    BY <2>1, <2>2, ReceiptsLast DEF ReceiptsInv
  <2>3. ASSUME NEW d \in Convs, NEW u \in Users, NEW v \in Users, Remap(d, u, v) PROVE ReceiptsInv'
    <3>1. <<"remap", d>> \in raced' /\ \A i \in DOMAIN receipts : receipts[i].conv # d => receipts'[i] = receipts[i]
      BY <1>1, <2>3, RemapEffect DEF Remap
    <3>2. \A o \in Reqs, c \in Convs : Saving(o, c) /\ <<"remap", c>> \notin raced' =>
             receipts'[req[o].seen] = receipts[req[o].seen]
      BY <1>1, <3>1
    <3> QED BY <2>1, <3>2, ReceiptsLast DEF ReceiptsInv
  <2> QED BY <1>5, <2>2, <2>3 DEF Written, AddMember, AddAssignment
<1> QED BY <1>2, <1>3, <1>4, <1>5, ReceiptsWork DEF Next, Written

LEMMA ReceiptsInit == Init => ReceiptsInv
BY IdleType DEF Init, ReceiptsInv, ReceiptsAt, Saving

\* a step moves a receipt forward only
ReceiptStep ==
    \A c \in Convs, u \in Users :
        <<"read", c>> \notin raced /\ <<"remap", c>> \notin raced' =>
            ReadUpToNext(c, u) >= ReadUpTo(c, u)

LEMMA ReceiptStepHolds ==
    ASSUME DeskBase, DeskTypes', ReceiptsInv, [Next]_vars
    PROVE  ReceiptStep
<1> SUFFICES ASSUME NEW c \in Convs, NEW u \in Users, <<"read", c>> \notin raced, <<"remap", c>> \notin raced'
             PROVE  ReadUpToNext(c, u) >= ReadUpTo(c, u)
  BY DEF ReceiptStep
<1>1. receipts \in Seq(Receipt) /\ receipts' \in Seq(Receipt) /\ u # Key /\ DeskTypes
  BY DeskAssumption DEF DeskBase, DeskTypes
<1>2. \A i \in DOMAIN receipts : receipts[i] \in Receipt /\ receipts[i].last \in Nat
  <2>1. \A i \in DOMAIN receipts : receipts[i] \in Receipt
    BY <1>1
  <2> QED BY <2>1 DEF Receipt
<1>3. CASE receipts' = receipts
  <2>1. FindReceipt(c, u)' = FindReceipt(c, u) /\ FindReceipt(c, u) \subseteq DOMAIN receipts
    BY <1>3 DEF FindReceipt
  <2> QED BY <1>1, <1>2, <1>3, <2>1, ReadForward
<1>4. ASSUME NEW q \in Reqs, SaveRead(q) PROVE ReadUpToNext(c, u) >= ReadUpTo(c, u)
  <2>1. CASE req[q].seen = 0
    <3>1. /\ DOMAIN receipts' = DOMAIN receipts \cup {Len(receipts) + 1}
          /\ \A i \in DOMAIN receipts : receipts'[i] = receipts[i] /\ i < Len(receipts) + 1
      BY <1>4, <2>1, SaveEffect
    <3>2. /\ FindReceipt(c, u) \subseteq FindReceipt(c, u)' /\ FindReceipt(c, u) \subseteq DOMAIN receipts
          /\ \A i \in FindReceipt(c, u), j \in FindReceipt(c, u)' \ FindReceipt(c, u) : i < j
      BY <3>1 DEF FindReceipt
    <3> QED BY <1>1, <1>2, <3>1, <3>2, ReadForward
  <2>2. CASE req[q].seen # 0
    <3> DEFINE k == req[q].seen
    <3>1. /\ k \in DOMAIN receipts /\ DOMAIN receipts' = DOMAIN receipts
          /\ receipts[k].conv = req[q].c /\ req[q].op = "read" /\ req[q].pc = "save"
          /\ \A i \in DOMAIN receipts \ {k} : receipts'[i] = receipts[i]
          /\ receipts'[k].conv = req[q].c /\ receipts'[k].who = req[q].who /\ receipts'[k].last = req[q].n
      <4>1. /\ k \in DOMAIN receipts /\ DOMAIN receipts' = DOMAIN receipts
            /\ receipts[k].conv = req[q].c /\ req[q].op = "read" /\ req[q].pc = "save"
            /\ \A i \in DOMAIN receipts \ {k} : receipts'[i] = receipts[i]
            /\ receipts'[k] = [conv |-> req[q].c, who |-> req[q].who, last |-> req[q].n]
        BY <1>4, <2>2, SaveEffect
      <4> QED BY <4>1
    <3>2. raced' = raced /\ req[q].n \in Nat
      BY <1>4, <1>1 DEF SaveRead, Unstarted, DeskTypes, Request
    <3>3. req[q].c = c => receipts[k].who = req[q].who /\ receipts[k].last < req[q].n
      BY <2>2, <3>1, <3>2 DEF ReceiptsInv, ReceiptsAt, Saving
    <3>4. FindReceipt(c, u)' = FindReceipt(c, u) /\ FindReceipt(c, u) \subseteq DOMAIN receipts
      BY <3>1, <3>3 DEF FindReceipt
    <3>5. \A i \in FindReceipt(c, u) : receipts[i].conv = c
      BY DEF FindReceipt
    <3>6. \A i \in FindReceipt(c, u) : receipts'[i].last >= receipts[i].last
      BY <1>2, <3>1, <3>2, <3>3, <3>4, <3>5
    <3> QED BY <1>1, <3>4, <3>6, ReadForward
  <2> QED BY <2>1, <2>2
<1>5. ASSUME NEW d \in Convs, NEW v \in Users, NEW w \in Users, Remap(d, v, w)
      PROVE  ReadUpToNext(c, u) >= ReadUpTo(c, u)
  <2>1. /\ c # d /\ DOMAIN receipts' = DOMAIN receipts
        /\ \A i \in DOMAIN receipts : /\ receipts[i].conv # d => receipts'[i] = receipts[i]
                                      /\ receipts'[i].conv = receipts[i].conv
    BY <1>1, <1>5, RemapEffect DEF Remap
  <2>2. FindReceipt(c, u)' = FindReceipt(c, u) /\ FindReceipt(c, u) \subseteq DOMAIN receipts
        /\ \A i \in FindReceipt(c, u) : receipts'[i] = receipts[i]
    BY <2>1 DEF FindReceipt
  <2> QED BY <1>1, <1>2, <2>2, ReadForward
<1>6. CASE UNCHANGED vars
  BY <1>3, <1>6 DEF vars, rowVars
<1>7. ASSUME NEW q \in Reqs, Start(q) \/ CutOff(q) \/ (Work(q) /\ ~SaveRead(q)) PROVE receipts' = receipts
  <2>1. CASE Start(q)
    BY <2>1, StartEffect DEF Begin, rowVars
  <2>2. CASE CutOff(q)
    BY <2>2 DEF CutOff, Fault, rowVars
  <2>3. CASE Work(q) /\ ~SaveRead(q)
    BY <2>3 DEF Work, CountOpen, CreateConversation, CountMembers, RemoveMember, Close, FireClosed, FireUnread,
       AnswerClaim, ClaimAssignment, CloseAssignment, SendMessage, requeueOnReply, requeueUnread, Requeue,
       PeerAgentSend, agentJoinPeer, JoinNote, SendPeer, FindRead, rowVars
  <2> QED BY <1>7, <2>1, <2>2, <2>3
<1>8. CASE Written
  BY <1>3, <1>5, <1>8 DEF Written, AddMember, AddAssignment
<1> QED BY <1>3, <1>4, <1>6, <1>7, <1>8 DEF Next, Written

(* What a user has read never goes back: a receipt that arrives late       *)
(* leaves the stored one alone, unless two are saved at once or a remap    *)
(* brings in another (domain/receipt.go, MarkRead).                        *)
THEOREM ReceiptForwardHolds == Spec => ReceiptForward
<1>1. DeskBase /\ DeskBase' /\ ReceiptsInv /\ [Next]_vars => [ReceiptStep]_vars
  BY ReceiptStepHolds DEF DeskBase
<1>2. Spec => [][ReceiptStep]_vars
  BY <1>1, BaseInit, BaseStep, ReceiptsInit, ReceiptsStep, PTL DEF Spec
<1> QED BY <1>2 DEF ReceiptForward, ReceiptStep

=============================================================================
