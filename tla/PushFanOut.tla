----------------------------- MODULE PushFanOut -----------------------------
(***************************************************************************)
(* The push fan-out (push/fanout.go) on top of the claim protocol of       *)
(* DeliveryQueue, next to the tenant's administration of its push          *)
(* credential and the users' registration of devices (domain/push.go).     *)
(* A row is the nudge of one message; all rows belong to one tenant.       *)
(***************************************************************************)
EXTENDS DeliveryQueue

CONSTANTS
    Creds, NoCred,   \* credentials the tenant may upload
    Devices,
    Users,           \* who may be a recipient: user members but the sender
    Owner            \* whose device it is

ASSUME PushConstants == NoCred \notin Creds /\ Owner \in [Devices -> Users]

VARIABLES
    cred, verified,  \* TenantPushConfig
    tokens,          \* device tokens that are registered
    tp,              \* tenantPush: what the pass resolved, or none yet
    nudge,           \* what deliverRow() is doing with the row of each worker
    \* history
    proved,          \* credentials a nudge was delivered with
    dead,            \* devices the provider has given up
    listed,          \* devices the latest attempt at a row found
    reached,         \* devices that got the nudge of a row
    rejected         \* rows for which the provider refused the credential

configVars == <<cred, verified>>
historyVars == <<proved, dead, listed, reached, rejected>>
pushVars == <<configVars, tokens, tp, nudge, historyVars>>
fanOutVars == <<queueVars, pushVars>>

Unresolved == [known |-> FALSE, cred |-> NoCred, verified |-> FALSE]
TenantPush == [known : BOOLEAN, cred : Creds \cup {NoCred}, verified : BOOLEAN]

Nudge == [stage : {"none", "resolve", "load", "user", "check", "notify", "verify", "settle"},
        users : SUBSET Users,
        devices : SUBSET Devices,
        sent : BOOLEAN,
        failed : {"no", "credential", "other"}]

NoNudge == [stage |-> "none", users |-> {}, devices |-> {}, sent |-> FALSE, failed |-> "no"]

(* The types of the configuration, of deliver()'s local variables and of   *)
(* the history variables, on top of the queue's.                           *)
PushTypeOK ==
    /\ TypeOK
    /\ cred \in Creds \cup {NoCred} /\ verified \in BOOLEAN
    /\ tokens \subseteq Devices
    /\ tp \in [Workers -> TenantPush]
    /\ nudge \in [Workers -> Nudge]
    /\ proved \subseteq Creds /\ dead \subseteq Devices
    /\ listed \in [Rows -> SUBSET Devices] /\ reached \in [Rows -> SUBSET Devices]
    /\ rejected \subseteq Rows

PushInit ==
    /\ QueueInit
    /\ cred = NoCred /\ verified = FALSE
    /\ tokens = Devices
    /\ tp = [w \in Workers |-> Unresolved]
    /\ nudge = [w \in Workers |-> NoNudge]
    /\ proved = {} /\ dead = {} /\ rejected = {}
    /\ listed = [r \in Rows |-> {}] /\ reached = [r \in Rows |-> {}]

-----------------------------------------------------------------------------
(* The tenant and its users *)

\* the provider has checked the credential; verified is cleared
SetPushCredential(c) ==
    /\ cred' = c /\ verified' = FALSE
    /\ UNCHANGED <<queueVars, tokens, tp, nudge, historyVars>>

DeletePushCredential ==
    /\ cred # NoCred
    /\ cred' = NoCred /\ verified' = FALSE
    /\ UNCHANGED <<queueVars, tokens, tp, nudge, historyVars>>

DeregisterPush(d) ==
    /\ d \in tokens
    /\ tokens' = tokens \ {d}
    /\ UNCHANGED <<queueVars, configVars, tp, nudge, historyVars>>

\* a token the provider has retired is never issued again
RegisterPush(d) ==
    /\ d \notin tokens \cup dead
    /\ tokens' = tokens \cup {d}
    /\ UNCHANGED <<queueVars, configVars, tp, nudge, historyVars>>

-----------------------------------------------------------------------------
(* deliverRow *)

Goto(w, stage) == nudge' = [nudge EXCEPT ![w].stage = stage]
GiveUp(w, err) == nudge' = [nudge EXCEPT ![w].stage = "settle", ![w].failed = err]

\* the loop head passes the row to deliverRow; `resolved` may know the tenant already
DeliverRow(w) ==
    /\ TakeRow(w)
    /\ nudge' = [nudge EXCEPT ![w] = [NoNudge EXCEPT !.stage = IF tp[w].known THEN "load" ELSE "resolve"]]
    /\ UNCHANGED <<configVars, tokens, tp, historyVars>>

\* resolve: once per pass; a read or a decryption that fails reschedules the row
Resolve(w) ==
    /\ nudge[w].stage = "resolve"
    /\ \/ /\ tp' = [tp EXCEPT ![w] = [known |-> TRUE, cred |-> cred, verified |-> verified]]
          /\ Goto(w, "load")
       \/ GiveUp(w, "other") /\ UNCHANGED tp
    /\ UNCHANGED <<queueVars, configVars, tokens, historyVars>>

\* recipients: members of the moment who have not opted out, other than the sender
Recipients == SUBSET Users

\* deliver up to its loop: no credential is success, and any read may fail
Load(w) ==
    /\ nudge[w].stage = "load"
    /\ \/ tp[w].cred = NoCred /\ Goto(w, "settle")
       \/ /\ tp[w].cred # NoCred
          /\ \E us \in Recipients : nudge' = [nudge EXCEPT ![w].stage = "user", ![w].users = us]
       \/ tp[w].cred # NoCred /\ GiveUp(w, "other")
    /\ listed' = [listed EXCEPT ![row[w]] = {}]
    /\ UNCHANGED <<queueVars, configVars, tokens, tp, proved, dead, reached, rejected>>

\* the head of the loop over recipients: ListForUser, or the end of the loop
NextUser(w) ==
    /\ nudge[w].stage = "user"
    /\ \/ /\ nudge[w].users = {}
          /\ Goto(w, IF nudge[w].sent /\ ~tp[w].verified THEN "verify" ELSE "settle")
          /\ UNCHANGED listed
       \/ \E u \in nudge[w].users :
            LET found == {d \in tokens : Owner[d] = u} IN
            /\ nudge' = [nudge EXCEPT ![w].users = @ \ {u},
                                      ![w].devices = found,
                                      ![w].stage = IF found = {} THEN "user" ELSE "check"]
            /\ listed' = [listed EXCEPT ![row[w]] = @ \cup found]
       \/ nudge[w].users # {} /\ GiveUp(w, "other") /\ UNCHANGED listed
    /\ UNCHANGED <<queueVars, configVars, tokens, tp, proved, dead, reached, rejected>>

\* stillOurs: a claim found lost ends in errClaimLost, a failed re-lock in its own error
StillOurs(w) ==
    /\ nudge[w].stage = "check"
    /\ \/ Recheck(w) /\ Goto(w, "notify")
       \/ LoseRow(w) /\ nudge' = [nudge EXCEPT ![w] = NoNudge]
       \/ ~Fresh(w) /\ GiveUp(w, "other") /\ UNCHANGED queueVars
    /\ UNCHANGED <<configVars, tokens, tp, historyVars>>

\* the devices of the recipient are done, or there is another one
AfterDevice(w, d, sent, failed) ==
    nudge' = [nudge EXCEPT ![w].devices = @ \ {d},
                           ![w].sent = sent,
                           ![w].failed = failed,
                           ![w].stage = IF nudge[w].devices = {d} THEN "user" ELSE "check"]

\* mutant: a device that gets through clears the error of the one before
NotifyForgetsFailure(w) ==
    /\ nudge[w].stage = "notify"
    /\ \E d \in nudge[w].devices :
         \/ /\ d \notin dead
            /\ AfterDevice(w, d, TRUE, "no")
            /\ proved' = proved \cup {tp[w].cred}
            /\ reached' = [reached EXCEPT ![row[w]] = @ \cup {d}]
            /\ UNCHANGED <<tokens, dead, rejected>>
         \/ /\ AfterDevice(w, d, nudge[w].sent, "other")
            /\ UNCHANGED <<tokens, dead, proved, reached, rejected>>
    /\ UNCHANGED <<queueVars, configVars, tp, listed>>

\* Notify: delivered, device dead (Prune, whose error is ignored), credential refused,
\* or no answer
Notify(w) ==
    /\ nudge[w].stage = "notify"
    /\ \E d \in nudge[w].devices :
         \/ /\ d \notin dead
            /\ AfterDevice(w, d, TRUE, nudge[w].failed)
            /\ proved' = proved \cup {tp[w].cred}
            /\ reached' = [reached EXCEPT ![row[w]] = @ \cup {d}]
            /\ UNCHANGED <<tokens, dead, rejected>>
         \/ /\ AfterDevice(w, d, nudge[w].sent, nudge[w].failed)
            /\ dead' = dead \cup {d}
            /\ tokens' \in {tokens, tokens \ {d}}
            /\ UNCHANGED <<proved, reached, rejected>>
         \/ /\ AfterDevice(w, d, nudge[w].sent, "credential")
            /\ rejected' = rejected \cup {row[w]}
            /\ UNCHANGED <<tokens, dead, proved, reached>>
         \/ /\ AfterDevice(w, d, nudge[w].sent, "other")
            /\ UNCHANGED <<tokens, dead, proved, reached, rejected>>
    /\ UNCHANGED <<queueVars, configVars, tp, listed>>

\* UPDATE .. WHERE tenant_id = ? AND verified = false, whatever the credential is by now
SetVerified == verified' = (cred # NoCred)

\* MarkVerified after the loop; its error is ignored
MarkVerified(w) ==
    /\ nudge[w].stage = "verify"
    /\ \/ /\ SetVerified
          /\ tp' = [tp EXCEPT ![w].verified = TRUE]
       \/ UNCHANGED <<verified, tp>>
    /\ Goto(w, "settle")
    /\ UNCHANGED <<queueVars, cred, tokens, historyVars>>

\* mutant: whatever went wrong, the nudge is dropped
SettleDropsFailed(w) ==
    /\ nudge[w].stage = "settle"
    /\ \/ nudge[w].failed = "no" /\ MarkDelivered(w)
       \/ nudge[w].failed # "no" /\ MarkFailed(w)
    /\ nudge' = [nudge EXCEPT ![w] = NoNudge]
    /\ UNCHANGED <<configVars, tokens, tp, historyVars>>

\* the switch at the end of deliverRow; the error of the write is ignored
SettleNudge(w) ==
    /\ nudge[w].stage = "settle"
    /\ \/ nudge[w].failed = "no" /\ MarkDelivered(w)
       \/ nudge[w].failed = "credential" /\ MarkFailed(w)
       \/ nudge[w].failed = "other" /\ Retry(w)
       \/ LeaveRow(w)
    /\ nudge' = [nudge EXCEPT ![w] = NoNudge]
    /\ UNCHANGED <<configVars, tokens, tp, historyVars>>

-----------------------------------------------------------------------------
\* the steps of ProcessOnce outside deliverRow; `resolved` goes with the pass
WalkFanOut(w) ==
    /\ \/ (Claim(w) \/ StartPass(w) \/ SkipRow(w)) /\ UNCHANGED tp
       \/ (EndPass(w) \/ AbortPass(w)) /\ tp' = [tp EXCEPT ![w] = Unresolved]
    /\ UNCHANGED <<configVars, tokens, nudge, historyVars>>

DieInFanOut(w) ==
    /\ Crash(w)
    /\ tp' = [tp EXCEPT ![w] = Unresolved]
    /\ nudge' = [nudge EXCEPT ![w] = NoNudge]
    /\ UNCHANGED <<configVars, tokens, historyVars>>

WorkFanOut(w) ==
    \/ WalkFanOut(w) \/ DeliverRow(w) \/ Resolve(w) \/ Load(w) \/ NextUser(w)
    \/ StillOurs(w) \/ Notify(w) \/ MarkVerified(w) \/ SettleNudge(w)

PushNext ==
    \/ \E r \in Rows : Enqueue(r) /\ UNCHANGED pushVars
    \/ \E c \in Creds : SetPushCredential(c)
    \/ DeletePushCredential
    \/ \E d \in Devices : RegisterPush(d) \/ DeregisterPush(d)
    \/ \E w \in Workers : WorkFanOut(w) \/ DieInFanOut(w)
    \/ Tick /\ UNCHANGED pushVars

PushSpec == PushInit /\ [][PushNext]_fanOutVars

-----------------------------------------------------------------------------
(* A nudge counts as delivered only when every device its last attempt     *)
(* found has it, or is gone: no failure is lost among the devices.         *)
DeliveredMeansReached ==
    \A r \in Rows : status[r] = "delivered" => listed[r] \subseteq reached[r] \cup dead

(* A nudge is dropped only for a rejected credential or an exhausted       *)
(* schedule (fanout.go: "Only a rejected credential is terminal").         *)
DroppedMeansHopeless ==
    \A r \in Rows : status[r] = "failed" => r \in rejected \/ attempts[r] = Len(Backoff) - 1

(* The fan-out's state keeps its types, and settle (fanout.go) drops no    *)
(* nudge that a later attempt could still have delivered.                  *)
PushInv == PushTypeOK /\ DroppedMeansHopeless

(* The fan-out implements the claim protocol, and so has its properties. *)
PushUsesQueue == QueueSpec

(* A credential is verified only once a nudge has been delivered with it   *)
(* (domain/push.go: "Replacing it clears Verified: a new project has       *)
(* proved nothing yet").                                                   *)
VerifiedMeansProved == verified => cred \in proved
=============================================================================
