------------------------------- MODULE Thread -------------------------------
(***************************************************************************)
(* One support conversation: SendMessage on the server (domain/message.go) *)
(* and the web widget that has the conversation open                       *)
(* (web/src/core/client.ts). The widget hears of messages in three ways:   *)
(* from the socket, which guarantees nothing, from the answers to its own  *)
(* sends, and from the catch-up it runs after a reconnect.                 *)
(*                                                                         *)
(* A message is its id. Ids are ULIDs, drawn before the transaction, and   *)
(* sort by the time they were drawn: here they count up. created_at is     *)
(* read next to the id, so sorting by it is sorting by the id.             *)
(* The thread stays open: opening another one, and older pages, are left   *)
(* out.                                                                    *)
(***************************************************************************)
EXTENDS Naturals, Sequences, SequencesExt, FiniteSets

CONSTANTS
    Sends,     \* requests to send a message
    Key,       \* their client_msg_id; a retry has the key of the original
    Own,       \* the requests made by the widget
    CatchUps,  \* catch-ups that may be under way at once
    Limit,     \* page size of ?since=
    Loaded     \* the last message when the thread was loaded: NoId for none, or 1

ASSUME ThreadConstants ==
    /\ IsFiniteSet(Sends)
    /\ Own \subseteq Sends /\ DOMAIN Key = Sends
    /\ Limit \in Nat \ {0} /\ Loaded \subseteq {0, 1}

VARIABLES
    \* the server
    rows,      \* the messages table
    hooks,     \* the webhook outbox: how many events there are for a message
    nudges,    \* the push outbox: the messages that have a nudge
    lastId,    \* the latest id drawn
    req,       \* what each SendMessage is doing, and its message
    \* the socket
    up, wire,  \* whether it is connected, and the publications under way
    \* the widget
    messages,  \* state.messages
    sync,      \* what each catchUp is doing
    \* history
    owed,      \* what no event will announce any more when the widget reconnects
    behind     \* of this, what the widget lacked although it was not after `since`

serverVars == <<rows, hooks, nudges, lastId, req>>
socketVars == <<up, wire>>
widgetVars == <<messages, sync, owed, behind>>
vars == <<serverVars, socketVars, widgetVars>>

MaxId == 1 + Cardinality(Sends)
Ids == 1..MaxId
NoId == 0
Keys == {Key[s] : s \in Sends}
FirstKey == "first"   \* the client_msg_id of the message the conversation starts with

Request == [stage : {"new", "tx", "refind", "emit", "answer", "done", "failed"},
            id : Ids \cup {NoId}]
Sync == [stage : {"idle", "list", "fetch", "apply", "done"},
         after : Ids \cup {NoId}, page : SUBSET Ids, more : BOOLEAN]

NoSync == [stage |-> "idle", after |-> NoId, page |-> {}, more |-> FALSE]

Committed == {r.id : r \in rows}
Held == ToSet(messages)

(* The types of the tables, the requests and the widget's state. *)
ThreadTypeOK ==
    /\ rows \subseteq [id : Ids, key : Keys \cup {FirstKey}]
    /\ hooks \in [Ids -> Nat] /\ nudges \subseteq Ids
    /\ lastId \in Ids \cup {NoId}
    /\ req \in [Sends -> Request]
    /\ up \in BOOLEAN /\ wire \subseteq Ids
    /\ messages \in Seq(Ids)
    /\ sync \in [CatchUps -> Sync]
    /\ owed \in [CatchUps -> SUBSET Ids] /\ behind \in [CatchUps -> SUBSET Ids]

\* the thread is loaded and the socket connected; it may be empty
Init ==
    /\ lastId \in Loaded
    /\ rows = {[id |-> i, key |-> FirstKey] : i \in 1..lastId}
    /\ messages = [i \in 1..lastId |-> i]
    /\ hooks = [i \in Ids |-> IF i \in Committed THEN 1 ELSE 0]
    /\ nudges = Committed
    /\ req = [s \in Sends |-> [stage |-> "new", id |-> NoId]]
    /\ up = TRUE /\ wire = {}
    /\ sync = [c \in CatchUps |-> NoSync]
    /\ owed = [c \in CatchUps |-> {}] /\ behind = [c \in CatchUps |-> {}]

-----------------------------------------------------------------------------
(* SendMessage: a participant's message in the support queue, which never  *)
(* re-queues on a reply.                                                   *)

Goto(s, stage, id) == req' = [req EXCEPT ![s] = [stage |-> stage, id |-> id]]

\* findByClientMsgID; an error counts as not found
Original(s) == {r.id : r \in {x \in rows : x.key = Key[s]}}

\* the idempotency lookup, and the id of a message that is new
Find(s) ==
    /\ req[s].stage = "new"
    /\ \/ \E i \in Original(s) : Goto(s, "answer", i) /\ UNCHANGED lastId
       \/ Goto(s, "tx", lastId + 1) /\ lastId' = lastId + 1
    /\ UNCHANGED <<rows, hooks, nudges, socketVars, widgetVars>>

\* the rows the transaction writes: message, nudge and webhook event
Write(s) ==
    /\ rows' = rows \cup {[id |-> req[s].id, key |-> Key[s]]}
    /\ nudges' = nudges \cup {req[s].id}
    /\ hooks' = [hooks EXCEPT ![req[s].id] = @ + 1]

\* mutant: no unique index on the key
CommitUnchecked(s) ==
    /\ req[s].stage = "tx"
    /\ Write(s) /\ Goto(s, "emit", req[s].id)
    /\ UNCHANGED <<lastId, socketVars, widgetVars>>

\* the transaction: committed, committed without the server hearing of it, or not
Commit(s) ==
    /\ req[s].stage = "tx"
    /\ \/ /\ Original(s) = {} /\ Write(s)
          /\ Goto(s, "emit", req[s].id) \/ Goto(s, "refind", NoId)
       \/ Goto(s, "refind", NoId) /\ UNCHANGED <<rows, hooks, nudges>>
    /\ UNCHANGED <<lastId, socketVars, widgetVars>>

\* after an error: the winner's message, or the error
Refind(s) ==
    /\ req[s].stage = "refind"
    /\ \/ \E i \in Original(s) : Goto(s, "answer", i)
       \/ Goto(s, "failed", NoId)
    /\ UNCHANGED <<rows, hooks, nudges, lastId, socketVars, widgetVars>>

\* best effort: a failure to publish is swallowed, a socket that is down hears nothing
Publish(i) == wire' \in {wire, IF up THEN wire \cup {i} ELSE wire}

\* emitMessage, after the commit
Emit(s) ==
    /\ req[s].stage = "emit"
    /\ Goto(s, "answer", req[s].id)
    /\ Publish(req[s].id)
    /\ UNCHANGED <<rows, hooks, nudges, lastId, up, widgetVars>>

\* the answer to a request of somebody else, or one that is lost
AnswerElsewhere(s) ==
    /\ req[s].stage = "answer"
    /\ Goto(s, "done", req[s].id)
    /\ UNCHANGED <<rows, hooks, nudges, lastId, socketVars, widgetVars>>

\* the server dies, the request is cancelled, or it is refused as invalid
Die(s) ==
    /\ req[s].stage \notin {"done", "failed"}
    /\ Goto(s, "failed", NoId)
    /\ UNCHANGED <<rows, hooks, nudges, lastId, socketVars, widgetVars>>

-----------------------------------------------------------------------------
(* The widget *)

\* a set of messages, oldest first
InOrder(S) ==
    CHOOSE f \in [1..Cardinality(S) -> S] :
        /\ ToSet(f) = S
        /\ \A i, j \in DOMAIN f : i < j => f[i] < f[j]

\* freshMessages: what the thread does not hold yet, sorted, goes to its end
Fresh(page) == InOrder(page \ Held)
Show(page) == messages' = messages \o Fresh(page)

\* send: the answer to a request of the widget
Answered(s) ==
    /\ s \in Own /\ req[s].stage = "answer"
    /\ Goto(s, "done", req[s].id)
    /\ Show({req[s].id})
    /\ UNCHANGED <<rows, hooks, nudges, lastId, socketVars, sync, owed, behind>>

\* mutant: the echo of an own message is shown again
OnEventTwice(i) ==
    /\ i \in wire
    /\ wire' = wire \ {i}
    /\ messages' = Append(messages, i)
    /\ UNCHANGED <<serverVars, up, sync, owed, behind>>

\* onEvent: message.created
OnEvent(i) ==
    /\ i \in wire
    /\ wire' = wire \ {i}
    /\ Show({i})
    /\ UNCHANGED <<serverVars, up, sync, owed, behind>>

Disconnect ==
    /\ up
    /\ up' = FALSE /\ wire' = {}
    /\ UNCHANGED <<serverVars, widgetVars>>

\* committed, and still to be published
Pending == {req[s].id : s \in {t \in Sends : req[t].stage = "emit"}}

\* onConnected after a reconnect: catchUp starts with loadConversations
Reconnect(c) ==
    /\ ~up
    /\ up' = TRUE
    /\ sync[c].stage \in {"idle", "done"}
    /\ sync' = [sync EXCEPT ![c] = [NoSync EXCEPT !.stage = "list"]]
    /\ owed' = [owed EXCEPT ![c] = Committed \ Pending]
    /\ behind' = [behind EXCEPT ![c] = {}]
    /\ UNCHANGED <<serverVars, wire, messages>>

\* catchUpActiveThread: `since` is the last message of the thread by now, if any
ReadSince(c) ==
    LET since == Last(messages) IN
    /\ sync[c].stage = "list"
    /\ \/ /\ messages = <<>>
          /\ sync' = [sync EXCEPT ![c].stage = "done"]
          /\ behind' = [behind EXCEPT ![c] = owed[c]]
       \/ /\ messages # <<>>
          /\ sync' = [sync EXCEPT ![c].stage = "fetch", ![c].after = since]
          /\ behind' = [behind EXCEPT ![c] = {i \in owed[c] \ Held : i < since}]
    /\ UNCHANGED <<serverVars, socketVars, messages, owed>>

\* ListAfter: the messages after an id; CatchUpMessages: the oldest Limit of them
After(i) == {j \in Committed : j > i}
Oldest(S) == {j \in S : Cardinality({k \in S : k <= j}) <= Limit}

Fetch(c) ==
    LET found == After(sync[c].after) IN
    /\ sync[c].stage = "fetch"
    /\ sync' = [sync EXCEPT ![c].stage = "apply",
                            ![c].page = Oldest(found),
                            ![c].more = Cardinality(found) > Limit]
    /\ UNCHANGED <<serverVars, socketVars, messages, owed, behind>>

Ended(c) == sync' = [sync EXCEPT ![c] = [NoSync EXCEPT !.stage = "done"]]

\* mutant: one page and no more
ApplyOnePage(c) ==
    /\ sync[c].stage = "apply"
    /\ Show(sync[c].page)
    /\ Ended(c)
    /\ UNCHANGED <<serverVars, socketVars, owed, behind>>

\* mutant: the next page is asked for with the original id
ApplyFromTheStart(c) ==
    /\ sync[c].stage = "apply"
    /\ Show(sync[c].page)
    /\ IF sync[c].more THEN sync' = [sync EXCEPT ![c].stage = "fetch"] ELSE Ended(c)
    /\ UNCHANGED <<serverVars, socketVars, owed, behind>>

\* a page of sincePages is shown; the last id received asks for the next one
Apply(c) ==
    /\ sync[c].stage = "apply"
    /\ Show(sync[c].page)
    /\ \/ /\ sync[c].more
          /\ sync' = [sync EXCEPT ![c].stage = "fetch", ![c].after = Max(sync[c].page),
                                  ![c].page = {}]
       \/ ~sync[c].more /\ Ended(c)
    /\ UNCHANGED <<serverVars, socketVars, owed, behind>>

\* a page that cannot be had: left to the next reconnect
FetchFails(c) ==
    /\ sync[c].stage = "fetch"
    /\ sync' = [sync EXCEPT ![c] = NoSync]
    /\ owed' = [owed EXCEPT ![c] = {}]
    /\ behind' = [behind EXCEPT ![c] = {}]
    /\ UNCHANGED <<serverVars, socketVars, messages>>

-----------------------------------------------------------------------------
SendStep(s) ==
    \/ Find(s) \/ Commit(s) \/ Refind(s) \/ Emit(s)
    \/ AnswerElsewhere(s) \/ Answered(s) \/ Die(s)

SyncStep(c) == ReadSince(c) \/ Fetch(c) \/ Apply(c) \/ FetchFails(c)

Next ==
    \/ \E s \in Sends : SendStep(s)
    \/ \E i \in Ids : OnEvent(i)
    \/ Disconnect
    \/ \E c \in CatchUps : Reconnect(c) \/ SyncStep(c)

Spec == Init /\ [][Next]_vars

(* The requests of a catch-up are answered or fail. *)
FairSpec == Spec /\ \A c \in CatchUps : WF_vars(SyncStep(c))

-----------------------------------------------------------------------------
(* Requests with the same client_msg_id that get an answer get the same    *)
(* message, whoever won the race to the unique index (message.go: "the     *)
(* winner's message is the answer both callers must get").                 *)
AnswersAgree ==
    \A s, t \in Sends :
        (Key[s] = Key[t] /\ {req[s].stage, req[t].stage} \subseteq {"emit", "answer", "done"})
        => req[s].id = req[t].id

(* A message has one webhook event and one nudge, and nothing is announced *)
(* that is not in the table: a retry that loses takes its outbox rows with *)
(* it.                                                                     *)
AnnouncedOnce ==
    /\ nudges = Committed
    /\ \A i \in Ids : hooks[i] = IF i \in Committed THEN 1 ELSE 0

(* The thread shows no message twice, although it may come from the socket,*)
(* as an answer and with several catch-ups.                                *)
NoDuplicates == \A i, j \in DOMAIN messages : messages[i] = messages[j] => i = j

(* Both ends keep their types; SendMessage announces a message once and    *)
(* the thread of the widget shows it once, over all retries and reorders.  *)
ThreadInv == ThreadTypeOK /\ AnnouncedOnce /\ NoDuplicates

(* A catch-up that ends has fetched all there was after its `since` when   *)
(* the widget reconnected, over however many pages and whatever was shown  *)
(* in the meantime.                                                        *)
CaughtUpFromSince ==
    \A c \in CatchUps : sync[c].stage = "done" => owed[c] \ behind[c] \subseteq Held

(* A catch-up ends, while messages keep coming. *)
CatchUpEnds ==
    \A c \in CatchUps : sync[c].stage = "list" ~> sync[c].stage \in {"idle", "done"}

(* A catch-up that ends has closed the gap: the thread shows everything    *)
(* that was committed and published by when the widget reconnected         *)
(* (client.ts: "A publication missed while the socket was down is never    *)
(* replayed, so read the gap back").                                       *)
GapClosed ==
    \A c \in CatchUps : sync[c].stage = "done" => owed[c] \subseteq Held
=============================================================================
