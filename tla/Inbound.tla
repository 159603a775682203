------------------------------ MODULE Inbound -------------------------------
(***************************************************************************)
(* Mail that becomes messages: the SMTP receiver (mail/smtpd.go) and the   *)
(* provider's webhook (api/email.go), the ingest behind both               *)
(* (domain/email.go), its claims (gormstore/email.go) and the email        *)
(* channel's settings (domain/channel.go).                                 *)
(*                                                                         *)
(* The sender's server keeps a mail until it has heard an acknowledgement, *)
(* and tries again when it has not: attempts for one mail follow and       *)
(* overlap each other, on any replica, and a process may die in the middle *)
(* of one.                                                                 *)
(***************************************************************************)
EXTENDS Naturals, FiniteSets

CONSTANTS
    Mails,       \* mails
    Letter,      \* of each: does it carry a Message-ID, is it an autoresponder's,
                 \* the sender-and-subject key, the thread whose token it
                 \* carries (0: none), how it arrives
    Attempts,    \* slots for deliveries under way
    ClaimStale,  \* ingestClaimStale
    MaxMailClock, MaxDeliveries  \* bounds: the clock, deliveries

ASSUME InboundAssumption ==
    /\ {ClaimStale, MaxMailClock, MaxDeliveries} \subseteq Nat
    /\ Mails # {} /\ DOMAIN Letter = Mails
    /\ \A m \in Mails : Letter[m].mid \in BOOLEAN /\ Letter[m].auto \in BOOLEAN
                         /\ Letter[m].token \in Nat /\ Letter[m].via \in {"smtp", "webhook"}

VARIABLES
    spool,       \* mails the sender's server has not heard an acknowledgement for
    emailConfig, \* the settings of the channel
    ingests,     \* claims by mail
    threads,     \* conversations that email opened, by number
    try,         \* deliveries under way
    deliveries,  \* so far
    mailClock,
    acked,       \* history: mails that were acknowledged
    dropped,     \* history: mails dropped as an autoresponder's or for an address nobody has
    excused      \* history: mails stored by an attempt that then died, could not
                 \* complete its claim, or was still running when its claim went stale

inboundVars ==
    <<spool, emailConfig, ingests, threads, try, deliveries, mailClock, acked, dropped, excused>>

NoClaim == [owner |-> "", at |-> 0, done |-> FALSE]
NoTry == [mail |-> CHOOSE m \in Mails : TRUE, pc |-> "idle",
          cfg |-> [spam |-> TRUE, verified |-> FALSE], claimed |-> FALSE,
          thread |-> 0, created |-> FALSE]

InboundTypeOK ==
    /\ {spool, acked, dropped, excused} \subseteq SUBSET Mails
    /\ emailConfig \in [spam : BOOLEAN, verified : BOOLEAN]
    /\ DOMAIN ingests \subseteq Mails /\ DOMAIN try = Attempts
    /\ \A t \in threads : t.n \in 1..Cardinality(threads) /\ t.open \in BOOLEAN /\ t.mails \subseteq Mails \X Nat

InboundInit ==
    /\ spool = Mails
    /\ emailConfig \in [spam : BOOLEAN, verified : {FALSE}]
    /\ ingests = [m \in {} |-> NoClaim]
    /\ threads = {} /\ try = [a \in Attempts |-> NoTry]
    /\ deliveries = 0 /\ mailClock = 0
    /\ acked = {} /\ dropped = {} /\ excused = {}

-----------------------------------------------------------------------------
(* Answers.                                                                *)

\* an acknowledgement, which the sender's server may not get to hear
Acknowledge(m) ==
    /\ acked' = acked \cup {m}
    /\ spool' \in {spool, spool \ {m}}

Done(a) == try' = [try EXCEPT ![a] = NoTry]
Go(a, pc) == try' = [try EXCEPT ![a].pc = pc]

Arrive(a, m, via) ==
    /\ try[a].pc = "idle" /\ m \in spool /\ Letter[m].via = via
    /\ deliveries < MaxDeliveries /\ deliveries' = deliveries + 1

Accept(a, m) ==
    /\ try' = [try EXCEPT ![a] = [NoTry EXCEPT !.mail = m, !.pc = "claim", !.cfg = emailConfig]]
    /\ UNCHANGED <<spool, acked, dropped>>

-----------------------------------------------------------------------------
(* The two ways in.                                                        *)

looksLikeAutoresponder(m) == Letter[m].auto

\* an address nobody has, and any error of the lookup, drop the mail; so does
\* the filter; both acknowledge
HandleForwarded(a, m) ==
    /\ Arrive(a, m, "smtp")
    /\ \/ /\ dropped' = dropped \cup {m} /\ Acknowledge(m) /\ UNCHANGED try
       \/ /\ emailConfig.spam /\ looksLikeAutoresponder(m)
          /\ dropped' = dropped \cup {m} /\ Acknowledge(m) /\ UNCHANGED try
       \/ ~(emailConfig.spam /\ looksLikeAutoresponder(m)) /\ Accept(a, m)
    /\ UNCHANGED <<emailConfig, ingests, threads, mailClock, excused>>

\* a known domain and a signature that verifies; anything else is an error to
\* the provider
HandleInbound(a, m) ==
    /\ Arrive(a, m, "webhook")
    /\ Accept(a, m)
    /\ UNCHANGED <<emailConfig, ingests, threads, mailClock, excused>>

-----------------------------------------------------------------------------
(* Claims.                                                                 *)

Stale(c) == c.at + ClaimStale < mailClock

Running(o, m) == \E a \in Attempts : a = o /\ try[a].mail = m /\ try[a].claimed

\* the insert that lands, or the takeover of an unfinished claim gone stale
Take(a, m) ==
    /\ ingests' = [x \in DOMAIN ingests \cup {m} |->
                     IF x = m THEN [owner |-> a, at |-> mailClock, done |-> FALSE] ELSE ingests[x]]
    /\ try' = [try EXCEPT ![a].pc = "upload", ![a].claimed = TRUE]
    /\ UNCHANGED <<spool, acked>>

\* mutant: a mail another attempt is storing is taken for a stored one
ClaimAcknowledges(a) ==
    LET m == try[a].mail IN
    /\ try[a].pc = "claim" /\ Letter[m].mid
    /\ IF m \notin DOMAIN ingests \/ (~ingests[m].done /\ Stale(ingests[m]))
       THEN Take(a, m) ELSE Acknowledge(m) /\ Done(a) /\ UNCHANGED ingests
    /\ UNCHANGED <<emailConfig, threads, deliveries, mailClock, dropped, excused>>

\* a finished claim acknowledges the redelivery; one under way asks for a retry
ClaimIngest(a) ==
    LET m == try[a].mail
        row == m \in DOMAIN ingests IN
    /\ try[a].pc = "claim" /\ Letter[m].mid
    /\ \/ ~row /\ Take(a, m) /\ UNCHANGED excused
       \/ /\ row /\ ~ingests[m].done /\ Stale(ingests[m])
          /\ Take(a, m)
          /\ excused' = IF Running(ingests[m].owner, m) /\ mailClock > ingests[m].at + ClaimStale
                         THEN excused \cup {m} ELSE excused
       \/ row /\ ingests[m].done /\ Acknowledge(m) /\ Done(a) /\ UNCHANGED <<ingests, excused>>
       \/ /\ row /\ ~ingests[m].done /\ ~Stale(ingests[m])
          /\ Done(a) /\ UNCHANGED <<spool, acked, ingests, excused>>
    /\ UNCHANGED <<emailConfig, threads, deliveries, mailClock, dropped>>

\* mail without a Message-ID is always ingested
SkipClaim(a) ==
    /\ try[a].pc = "claim" /\ ~Letter[try[a].mail].mid
    /\ Go(a, "upload")
    /\ UNCHANGED <<spool, emailConfig, ingests, threads, deliveries, mailClock, acked, dropped, excused>>

Owns(a) ==
    LET m == try[a].mail IN try[a].claimed /\ m \in DOMAIN ingests /\ ingests[m].owner = a

-----------------------------------------------------------------------------
(* The ingest.                                                             *)

\* every attachment is in the bucket before the message is; one that fails
\* fails the attempt
uploadInboundAttachments(a) ==
    /\ try[a].pc = "upload"
    /\ \E pc \in {"find", "release"} : Go(a, pc)
    /\ UNCHANGED <<spool, emailConfig, ingests, threads, deliveries, mailClock, acked, dropped, excused>>

OpenThreads(P(_)) == {t.n : t \in {t \in threads : t.open /\ P(t)}}
Newest(S) == IF S = {} THEN 0 ELSE CHOOSE n \in S : \A o \in S : o <= n

FindOpenByToken(m) == LET P(t) == t.n = Letter[m].token IN Newest(OpenThreads(P))
FindOpenBySenderSubject(m) == LET P(t) == t.key = Letter[m].key IN Newest(OpenThreads(P))

\* the thread whose token the mail carries, then the newest of its sender and
\* subject; a lookup that fails is one that finds nothing
ingest(a) ==
    LET m == try[a].mail
        found == IF FindOpenByToken(m) # 0 THEN FindOpenByToken(m) ELSE FindOpenBySenderSubject(m) IN
    /\ try[a].pc = "find"
    /\ \E n \in {found, 0} : try' = [try EXCEPT ![a].pc = "store", ![a].thread = n]
    /\ UNCHANGED <<spool, emailConfig, ingests, threads, deliveries, mailClock, acked, dropped, excused>>

\* a message is known by its mail and the delivery that stored it
Message(m) == <<m, Cardinality({x \in UNION {t.mails : t \in threads} : x[1] = m})>>

\* the message of a thread that was open when it was found
appendInbound(a) ==
    LET m == try[a].mail IN
    /\ try[a].pc = "store" /\ try[a].thread # 0
    /\ threads' = {IF t.n = try[a].thread THEN [t EXCEPT !.mails = @ \cup {Message(m)}] ELSE t : t \in threads}
    /\ Go(a, "complete")
    /\ UNCHANGED <<spool, emailConfig, ingests, deliveries, mailClock, acked, dropped, excused>>

\* conversation, member, assignment, thread and message, in one transaction
createFromInbound(a) ==
    LET m == try[a].mail IN
    /\ try[a].pc = "store" /\ try[a].thread = 0
    /\ threads' = threads \cup {[n |-> Cardinality(threads) + 1, key |-> Letter[m].key, open |-> TRUE,
                                  mails |-> {Message(m)}]}
    /\ try' = [try EXCEPT ![a].pc = "complete", ![a].created = TRUE]
    /\ UNCHANGED <<spool, emailConfig, ingests, deliveries, mailClock, acked, dropped, excused>>

StoreFails(a) ==
    /\ try[a].pc = "store" /\ Go(a, "release")
    /\ UNCHANGED <<spool, emailConfig, ingests, threads, deliveries, mailClock, acked, dropped, excused>>

\* only a finished claim refuses a redelivery; a failure to finish is logged
CompleteIngest(a) ==
    LET m == try[a].mail IN
    /\ try[a].pc = "complete"
    /\ \/ /\ ingests' = IF Owns(a) THEN [ingests EXCEPT ![m].done = TRUE] ELSE ingests
          /\ UNCHANGED excused
       \/ try[a].claimed /\ excused' = excused \cup {m} /\ UNCHANGED ingests
    /\ Go(a, "finish")
    /\ UNCHANGED <<spool, emailConfig, threads, deliveries, mailClock, acked, dropped>>

\* the claim must not outlive a failed attempt; a failure to release is ignored
ReleaseIngest(a) ==
    /\ try[a].pc = "release"
    /\ ingests' \in {ingests} \cup
          (IF Owns(a) THEN {[x \in DOMAIN ingests \ {try[a].mail} |-> ingests[x]]} ELSE {})
    /\ Done(a)
    /\ UNCHANGED <<spool, emailConfig, threads, deliveries, mailClock, acked, dropped, excused>>

\* the auto-reply goes out, the first forwarded mail marks the forwarding as
\* verified with the settings read at the start, and the mail is acknowledged
Finish(a) ==
    LET c == try[a] IN
    /\ c.pc = "finish"
    /\ emailConfig' = IF Letter[c.mail].via = "smtp" /\ ~c.cfg.verified
                       THEN [c.cfg EXCEPT !.verified = TRUE] ELSE emailConfig
    /\ Acknowledge(c.mail) /\ Done(a)
    /\ UNCHANGED <<ingests, threads, deliveries, mailClock, dropped, excused>>

\* the process dies
DieInDelivery(a) ==
    LET c == try[a] IN
    /\ c.pc # "idle"
    /\ excused' = IF c.pc = "complete" /\ c.claimed THEN excused \cup {c.mail} ELSE excused
    /\ Done(a)
    /\ UNCHANGED <<spool, emailConfig, ingests, threads, deliveries, mailClock, acked, dropped>>

-----------------------------------------------------------------------------
(* Around it.                                                              *)

\* UpdateEmailChannel: under the version the caller read, in one transaction
UpdateEmailChannel ==
    /\ emailConfig' = [emailConfig EXCEPT !.spam = ~@]
    /\ deliveries < MaxDeliveries /\ deliveries' = deliveries + 1
    /\ UNCHANGED <<spool, ingests, threads, try, mailClock, acked, dropped, excused>>

CloseThread ==
    \E t \in threads :
        /\ t.open
        /\ threads' = (threads \ {t}) \cup {[t EXCEPT !.open = FALSE]}
        /\ UNCHANGED <<spool, emailConfig, ingests, try, deliveries, mailClock, acked, dropped, excused>>

MailTick ==
    /\ mailClock < MaxMailClock /\ mailClock' = mailClock + 1
    /\ UNCHANGED <<spool, emailConfig, ingests, threads, try, deliveries, acked, dropped, excused>>

InboundNext ==
    \/ \E a \in Attempts :
         \/ \E m \in Mails : HandleForwarded(a, m) \/ HandleInbound(a, m)
         \/ ClaimIngest(a) \/ SkipClaim(a) \/ uploadInboundAttachments(a) \/ ingest(a)
         \/ appendInbound(a) \/ createFromInbound(a) \/ StoreFails(a)
         \/ CompleteIngest(a) \/ ReleaseIngest(a) \/ Finish(a) \/ DieInDelivery(a)
    \/ UpdateEmailChannel \/ CloseThread \/ MailTick

InboundSpec == InboundInit /\ [][InboundNext]_inboundVars

-----------------------------------------------------------------------------
Copies(m) == {x \in UNION {t.mails : t \in threads} : x[1] = m}

(* A mail that was acknowledged is in a conversation, unless the filter    *)
(* dropped it or no tenant was found for its address: the sender's server  *)
(* forgets it on the acknowledgement, so nobody may answer for another     *)
(* attempt that can still fail.                                            *)
MailKept == InboundTypeOK /\ \A m \in acked \ dropped : Copies(m) # {}

(* A mail with a Message-ID is stored once, however often and on however   *)
(* many replicas it is delivered; twice only when the attempt that stored  *)
(* it could not finish its claim or ran longer than a claim holds.         *)
StoredOnce == \A m \in Mails : Letter[m].mid /\ m \notin excused => Cardinality(Copies(m)) <= 1

(* Every mail that was taken over is in a conversation, and in one only:   *)
(* the claim (email.go, HandleInbound) neither loses a mail to an attempt  *)
(* that fails nor lets two attempts both append it.                        *)
MailInv == MailKept /\ StoredOnce
=============================================================================
