----------------------------- MODULE Assistant ------------------------------
(***************************************************************************)
(* What passes between the assistant that holds a conversation and the     *)
(* member who asks in it: the steps the assistant shows and edits in its   *)
(* messages (domain/parts.go, UpdateMessageParts), the requester's         *)
(* approval of the data access they wait for, and the assertions the       *)
(* assistant has signed for data adapters (domain/requester_assertion.go). *)
(*                                                                         *)
(* A message and an edit carry the time at which they were made out, which *)
(* is before they are written: others read and write in between.  The      *)
(* replicas share one clock, and the conversation has no more messages     *)
(* than awaitingApproval reads (the latest 100).                           *)
(***************************************************************************)
EXTENDS Naturals, FiniteSets

CONSTANTS
    Labels,         \* what a step checks, as the requester reads it
    StepStates,     \* the states of a step, needs_approval among them
    Slots,          \* messages of the assistant's
    Turns, Approvers, Minters,  \* slots for requests in flight
    MaxApproved,    \* items an approval may hold
    MaxAssertions,  \* maxAssertionsPerConversation
    MaxTime, MaxMade \* bounds: the clock, messages and approvals made out

ASSUME AssistantAssumption ==
    /\ {MaxApproved, MaxAssertions, MaxTime, MaxMade} \subseteq Nat /\ MaxAssertions # 0
    /\ "needs_approval" \in StepStates /\ IsFiniteSet(Minters)

VARIABLES
    open,        \* the conversation is open
    entitled,    \* the assistant is its assignee, and the requester has an
                 \* identity at the integrator
    steps,       \* of each message: when it was sent and last changed, and the
                 \* state of each step
    showing,     \* messages and edits of the assistant's in flight
    approvals,   \* system messages: when, and the items they name
    approving,   \* approvals in flight
    minting,     \* assertions in flight
    assertions,  \* assertions recorded
    time, made,  \* the clock, messages and approvals made out
    crossed      \* history: messages of which an approval that is no older had
                 \* read nothing, or that had more steps than it could name

assistantVars ==
    <<open, entitled, steps, showing, approvals, approving, minting, assertions, time, made, crossed>>

NoSteps == [sent |-> 0, at |-> 0, of |-> [l \in {} |-> "done"]]
NotShowing == [pc |-> "idle"]
NotApproving == [pc |-> "idle", at |-> 0, items |-> {}]

AssistantTypeOK ==
    /\ \A s \in Slots : steps[s].at \in 0..time /\ DOMAIN steps[s].of \subseteq Labels
    /\ \A a \in approvals : a.items \subseteq Labels /\ a.at \in 1..time
    /\ assertions \in Nat

AssistantInit ==
    /\ open = TRUE /\ entitled \in BOOLEAN
    /\ steps = [s \in Slots |-> NoSteps] /\ approvals = {}
    /\ showing = [w \in Turns |-> NotShowing]
    /\ approving = [a \in Approvers |-> NotApproving]
    /\ minting = [m \in Minters |-> "idle"] /\ assertions = 0
    /\ time = 1 /\ made = 0 /\ crossed = {}

Make == made < MaxMade /\ made' = made + 1

-----------------------------------------------------------------------------
(* The assistant's messages.                                               *)

\* the kinds of part each sender may attach
partsBySender == [bot |-> {"steps", "diagnosis"}, system |-> {"approval"}, agent |-> {}, user |-> {}]

\* a parts document: known kinds of part, each step named and in a known state
validateParts(sender, kind, of) ==
    /\ kind \in partsBySender[sender]
    /\ kind = "steps" => DOMAIN of # {} /\ \A l \in DOMAIN of : of[l] \in StepStates

Documents == UNION {[ls -> StepStates] : ls \in SUBSET Labels}

\* the message or the edit is made out, with its time
Show(w, s, of) ==
    /\ Make /\ showing[w].pc = "idle"
    /\ validateParts("bot", "steps", of)
    /\ showing' = [showing EXCEPT ![w] = [pc |-> "write", to |-> s, at |-> time, of |-> of]]
    /\ UNCHANGED <<open, entitled, steps, approvals, approving, minting, assertions, time, crossed>>

\* the assistant sends a message with steps, or replaces those of its own message
\* while the conversation is open
SendSteps(w) ==
    \E s \in Slots, of \in Documents :
        /\ steps[s].at = 0 /\ ~\E o \in Turns : showing[o].pc = "write" /\ showing[o].to = s
        /\ Show(w, s, of)
UpdateMessageParts(w) ==
    \E s \in Slots, of \in Documents : steps[s].at # 0 /\ open /\ Show(w, s, of)

\* an approval that counts as no older and had read before this was written
Overtaken(t) ==
    \/ \E b \in approvals : b.at >= t
    \/ \E a \in Approvers : approving[a].pc = "stamp" \/ (approving[a].pc = "send" /\ approving[a].at >= t)

\* the write, which looks at nothing
WriteSteps(w) ==
    LET m == showing[w] IN
    /\ m.pc = "write"
    /\ steps' = [steps EXCEPT ![m.to] = [sent |-> IF @.at = 0 THEN m.at ELSE @.sent, at |-> m.at, of |-> m.of]]
    /\ crossed' = IF Overtaken(m.at) THEN crossed \cup {m.to} ELSE crossed \ {m.to}
    /\ showing' = [showing EXCEPT ![w] = NotShowing]
    /\ UNCHANGED <<open, entitled, approvals, approving, minting, assertions, time, made>>

-----------------------------------------------------------------------------
(* Approval.                                                               *)

ApprovedAt == IF approvals = {} THEN 0 ELSE CHOOSE t \in {a.at : a \in approvals} : \A a \in approvals : a.at <= t

\* mutant: a message counts from when it was sent, edits or not
FreshBySent(s) == steps[s].sent > ApprovedAt

\* a message that changed after the latest approval
Fresh(s) == steps[s].at > ApprovedAt

Waits(s, l) == l \in DOMAIN steps[s].of /\ steps[s].of[l] = "needs_approval"

\* the steps that wait for the requester, by label
awaitingApproval == {l \in Labels : \E s \in Slots : Fresh(s) /\ Waits(s, l)}

\* the first maxApproved of them, in the order of the messages
Named == {S \in SUBSET awaitingApproval :
            IF Cardinality(awaitingApproval) <= MaxApproved THEN S = awaitingApproval
            ELSE Cardinality(S) = MaxApproved}

\* the requester's own request; nothing to approve is refused
ApproveDataAccess(a) ==
    /\ Make /\ approving[a].pc = "idle" /\ open
    /\ awaitingApproval # {}
    /\ \E S \in Named :
          /\ approving' = [approving EXCEPT ![a] = [pc |-> "stamp", at |-> 0, items |-> S]]
          /\ crossed' = crossed \cup {s \in Slots : Fresh(s) /\ \E l \in Labels \ S : Waits(s, l)}
    /\ UNCHANGED <<open, entitled, steps, showing, approvals, minting, assertions, time>>

\* SendMessage makes out the system message
StampApproval(a) ==
    /\ approving[a].pc = "stamp"
    /\ approving' = [approving EXCEPT ![a].pc = "send", ![a].at = time]
    /\ UNCHANGED <<open, entitled, steps, showing, approvals, minting, assertions, time, made, crossed>>

SendApproval(a) ==
    /\ approving[a].pc = "send"
    /\ approvals' = approvals \cup {[at |-> approving[a].at, items |-> approving[a].items]}
    /\ approving' = [approving EXCEPT ![a] = NotApproving]
    /\ UNCHANGED <<open, entitled, steps, showing, minting, assertions, time, made, crossed>>

-----------------------------------------------------------------------------
(* Assertions.                                                             *)

\* only for the assistant that holds the open conversation, and its requester
mayMint == open /\ entitled

\* CountByConversation, below the limit
MintRequesterAssertion(m) ==
    /\ minting[m] = "idle" /\ mayMint
    /\ assertions < MaxAssertions
    /\ minting' = [minting EXCEPT ![m] = "record"]
    /\ UNCHANGED <<open, entitled, steps, showing, approvals, approving, assertions, time, made, crossed>>

RecordAssertion(m) ==
    /\ minting[m] = "record"
    /\ assertions' = assertions + 1
    /\ minting' = [minting EXCEPT ![m] = "idle"]
    /\ UNCHANGED <<open, entitled, steps, showing, approvals, approving, time, made, crossed>>

\* time passes; the conversation closes, is handed on or taken; the requester is
\* linked or not
Around ==
    /\ \/ time < MaxTime /\ time' = time + 1 /\ UNCHANGED <<open, entitled>>
       \/ open /\ open' = FALSE /\ UNCHANGED <<entitled, time>>
       \/ entitled' = ~entitled /\ UNCHANGED <<open, time>>
    /\ UNCHANGED <<steps, showing, approvals, approving, minting, assertions, made, crossed>>

AssistantNext ==
    \/ \E w \in Turns : SendSteps(w) \/ UpdateMessageParts(w) \/ WriteSteps(w)
    \/ \E a \in Approvers : ApproveDataAccess(a) \/ StampApproval(a) \/ SendApproval(a)
    \/ \E m \in Minters : MintRequesterAssertion(m) \/ RecordAssertion(m)
    \/ Around

AssistantSpec == AssistantInit /\ [][AssistantNext]_assistantVars

-----------------------------------------------------------------------------
(* A step that waits for the requester is one they can approve, or one an  *)
(* approval no older than its message has named: no approval passes over   *)
(* a step, or the assistant would wait for an answer nobody is asked for.  *)
(* Left out are a message written after an approval that is no older had   *)
(* read (a message is made out before it is written, so that the two need  *)
(* only overlap), and more steps than an approval can name; both until the *)
(* message is edited again.  Assertions exceed their limit by fewer than   *)
(* the requests that counted at the same time.                             *)
ApprovalCovers ==
    /\ AssistantTypeOK
    /\ \A s \in Slots \ crossed, l \in Labels : Waits(s, l) =>
          \/ l \in awaitingApproval
          \/ \E a \in approvals : a.at >= steps[s].at /\ l \in a.items
    /\ assertions < MaxAssertions + Cardinality(Minters)
=============================================================================
