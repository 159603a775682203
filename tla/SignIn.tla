------------------------------- MODULE SignIn -------------------------------
(***************************************************************************)
(* How a member of the team gets in: cookie sessions (domain/admin.go),    *)
(* embedded sessions traded for a token of the tenant's own app, which the *)
(* tenant's validator vouches for (domain/identity.go), service keys, and  *)
(* the realtime token (auth/jwt.go); what middleware/auth.go makes of each *)
(* when it is used.                                                        *)
(*                                                                         *)
(* A provider is known by a version: it changes whenever the embed key,    *)
(* the validator's URL or its sealed token does, the three the code        *)
(* compares.  The exchange calls out to the validator between its reads    *)
(* and its writes, while owners replace, switch off or relink.             *)
(***************************************************************************)
EXTENDS Naturals, FiniteSets

CONSTANTS
    Staff,        \* people of the team
    Service,      \* a service account
    Subs,         \* identities at the tenant's app
    NoSub,        \* no identity
    Exchanges,    \* slots for exchanges
    Writers,      \* slots for writes of the provider
    EmbedTTL,     \* EmbedSessionTTL
    TokenTTL,     \* the lifetime of a realtime token
    MaxClock,     \* bound: the clock
    MaxSignIns    \* bound: requests

ASSUME SignInAssumption ==
    /\ {EmbedTTL, TokenTTL, MaxClock, MaxSignIns} \subseteq Nat
    /\ NoSub \notin Subs /\ Service \notin Staff

VARIABLES
    provider,  \* [ver, only]; version 0 is no provider
    vers,      \* versions so far
    link,      \* external_sub of each person
    embed,     \* embedded sessions
    cookies,   \* cookie sessions
    keys,      \* service keys that are not revoked
    tokens,    \* realtime tokens minted for embedded sessions
    xch,       \* exchanges in flight
    wr,        \* provider writes in flight
    clock, signIns,
    overlap    \* history: writes of the provider overlapped, a switch-off
               \* overlapped an exchange, or a process died in a write

signInVars ==
    <<provider, vers, link, embed, cookies, keys, tokens, xch, wr, clock, signIns, overlap>>

NoProvider == [ver |-> 0, only |-> FALSE]
NoExchange == [pc |-> "idle", ver |-> 0, sub |-> NoSub, until |-> 0, who |-> Service, exp |-> 0]
NoWrite == [pc |-> "idle", prev |-> 0, next |-> NoProvider, ends |-> FALSE, doomed |-> {}]

\* an embedded session: whose, for which identity, until when; `ver` and
\* `until` remember who vouched and for how long, `handed` that the bearer went out
Session == [who : Staff, sub : Subs, exp : Nat, ver : Nat, until : Nat, handed : BOOLEAN]

\* a cookie session: whose, until when
CookieSession == [who : Staff, exp : Nat]

SignInTypeOK ==
    /\ provider \in [ver : 0..vers, only : BOOLEAN]
    /\ link \in [Staff -> Subs \cup {NoSub}]
    /\ embed \subseteq Session
    /\ cookies \subseteq CookieSession
    /\ keys \in 0..MaxSignIns
    /\ DOMAIN xch = Exchanges /\ DOMAIN wr = Writers

SignInInit ==
    /\ provider = [ver |-> 1, only |-> FALSE] /\ vers = 1
    /\ \E m \in Staff, s \in Subs : link = [p \in Staff |-> IF p = m THEN s ELSE NoSub]
    /\ embed = {} /\ cookies = {} /\ keys = 0 /\ tokens = {}
    /\ xch = [x \in Exchanges |-> NoExchange]
    /\ wr = [w \in Writers |-> NoWrite]
    /\ clock = 0 /\ signIns = 0
    /\ overlap = FALSE

rest == <<cookies, keys, tokens, clock>>

Request == signIns < MaxSignIns /\ signIns' = signIns + 1

-----------------------------------------------------------------------------
(* The exchange (ExchangeEmbedToken).                                      *)

Least(a, b) == IF a <= b THEN a ELSE b

\* the provider that publishes the embed key, with the token to call it with
exchangeEmbedded(x) ==
    /\ xch[x].pc = "idle" /\ Request
    /\ provider.ver # 0
    /\ xch' = [xch EXCEPT ![x] = [NoExchange EXCEPT !.pc = "validate", !.ver = provider.ver]]
    /\ overlap' = (overlap \/ \E w \in Writers : wr[w].pc = "commit")
    /\ UNCHANGED <<provider, vers, link, embed, wr, rest>>

\* a session ends with whichever comes first
SessionEnd(until) == IF until = 0 THEN clock + EmbedTTL ELSE Least(clock + EmbedTTL, until)

\* the validator answers: an identity and perhaps until when; a session that
\* would be over is refused.  A refusal, or no usable answer, ends the exchange.
Validate(x) ==
    /\ xch[x].pc = "validate"
    /\ \/ \E s \in Subs, until \in 0..MaxClock :
            /\ SessionEnd(until) > clock
            /\ xch' = [xch EXCEPT ![x].pc = "member", ![x].sub = s, ![x].until = until,
                                   ![x].exp = SessionEnd(until)]
       \/ xch' = [xch EXCEPT ![x] = NoExchange]
    /\ UNCHANGED <<provider, vers, link, embed, wr, signIns, overlap, rest>>

\* AdminBySub finds the one member linked to the identity, who must hold a role
AdminBySub(x) ==
    /\ xch[x].pc = "member"
    /\ \/ \E m \in Staff : link[m] = xch[x].sub
                            /\ xch' = [xch EXCEPT ![x].pc = "create", ![x].who = m]
       \/ xch' = [xch EXCEPT ![x] = NoExchange]
    /\ UNCHANGED <<provider, vers, link, embed, wr, signIns, overlap, rest>>

Minted(c) == [who |-> c.who, sub |-> c.sub, exp |-> c.exp, ver |-> c.ver, until |-> c.until,
              handed |-> FALSE]

\* CreateSession also drops the member's expired ones
CreateSession(x) ==
    LET c == xch[x] IN
    /\ c.pc = "create"
    /\ embed' = {s \in embed : ~(s.who = c.who /\ s.exp < clock)} \cup {Minted(c)}
    /\ xch' = [xch EXCEPT ![x].pc = "check"]
    /\ UNCHANGED <<provider, vers, link, wr, signIns, overlap, rest>>

\* mutant: the provider is not read again
HandOver(x) ==
    LET c == xch[x] IN
    /\ c.pc = "check"
    /\ embed' = IF Minted(c) \in embed
                THEN (embed \ {Minted(c)}) \cup {[Minted(c) EXCEPT !.handed = TRUE]} ELSE embed
    /\ xch' = [xch EXCEPT ![x] = NoExchange]
    /\ UNCHANGED <<provider, vers, link, wr, signIns, overlap, rest>>

\* checked after the insert: the bearer goes out only while the provider is the same
Recheck(x) ==
    LET c == xch[x] IN
    /\ c.pc = "check"
    /\ embed' = IF Minted(c) \notin embed THEN embed
                ELSE (embed \ {Minted(c)}) \cup
                       (IF provider.ver = c.ver THEN {[Minted(c) EXCEPT !.handed = TRUE]} ELSE {})
    /\ xch' = [xch EXCEPT ![x] = NoExchange]
    /\ UNCHANGED <<provider, vers, link, wr, signIns, overlap, rest>>

-----------------------------------------------------------------------------
(* The provider.                                                           *)

Overlaps(w) == \E o \in Writers \ {w} : wr[o].pc # "idle"

\* the stored config is read; a new URL or token makes a new version, anything
\* else keeps the token of the version that was read
SetIdentityProvider(w) ==
    \E only \in BOOLEAN, rotate \in BOOLEAN :
        /\ wr[w].pc = "idle" /\ Request
        /\ rotate \/ provider.ver # 0
        /\ vers' = IF rotate THEN vers + 1 ELSE vers
        /\ wr' = [wr EXCEPT ![w] =
                    [pc |-> "upsert", prev |-> provider.ver, doomed |-> {},
                     next |-> [ver |-> IF rotate THEN vers + 1 ELSE provider.ver, only |-> only],
                     ends |-> rotate /\ provider.ver # 0]]
        /\ overlap' = (overlap \/ Overlaps(w))
        /\ UNCHANGED <<provider, link, embed, xch, rest>>

UpsertProvider(w) ==
    /\ wr[w].pc = "upsert"
    /\ provider' = wr[w].next
    /\ wr' = [wr EXCEPT ![w] = IF @.ends THEN [@ EXCEPT !.pc = "end"] ELSE NoWrite]
    /\ UNCHANGED <<vers, link, embed, xch, signIns, overlap, rest>>

\* after the new version has landed
EndTenantSessions(w) ==
    /\ wr[w].pc = "end"
    /\ embed' = {}
    /\ wr' = [wr EXCEPT ![w] = NoWrite]
    /\ UNCHANGED <<provider, vers, link, xch, signIns, overlap, rest>>

\* the columns of a session's row
Row(s) == [s EXCEPT !.handed = FALSE]

\* DeleteProvider, one transaction: the sessions of the moment, then the
\* provider; neither is seen by others before the commit
DeleteSessions(w) ==
    /\ wr[w].pc = "idle" /\ Request
    /\ provider.ver # 0
    /\ wr' = [wr EXCEPT ![w] = [NoWrite EXCEPT !.pc = "commit", !.doomed = {Row(s) : s \in embed}]]
    /\ overlap' = (overlap \/ Overlaps(w) \/ \E x \in Exchanges : xch[x].pc # "idle")
    /\ UNCHANGED <<provider, vers, link, embed, xch, rest>>

DeleteProvider(w) ==
    /\ wr[w].pc = "commit"
    /\ provider' = NoProvider
    /\ embed' = {s \in embed : Row(s) \notin wr[w].doomed}
    /\ wr' = [wr EXCEPT ![w] = NoWrite]
    /\ UNCHANGED <<vers, link, xch, signIns, overlap, rest>>

\* the process dies: a transaction is undone, what was committed stays
DieInExchange(x) ==
    /\ xch[x].pc # "idle"
    /\ xch' = [xch EXCEPT ![x] = NoExchange]
    /\ UNCHANGED <<provider, vers, link, embed, wr, signIns, overlap, rest>>

DieInWrite(w) ==
    /\ wr[w].pc # "idle"
    /\ wr' = [wr EXCEPT ![w] = NoWrite]
    /\ overlap' = TRUE
    /\ UNCHANGED <<provider, vers, link, embed, xch, signIns, rest>>

-----------------------------------------------------------------------------
(* Links, cookies, keys, tokens.                                           *)

\* SetExternalSub: one member per identity; a change ends the member's sessions
SetExternalSub(m, s) ==
    /\ Request
    /\ s \in Subs => \A o \in Staff \ {m} : link[o] # s
    /\ link' = [link EXCEPT ![m] = s]
    /\ embed' = {e \in embed : e.who # m}
    /\ UNCHANGED <<provider, vers, xch, wr, overlap, rest>>

\* does the tenant refuse this member every other way in
Refused(m) == link[m] # NoSub /\ provider.only

\* CreateSession, CreateSessionWithPassword: refused to those who must come embedded
mintSession(m) ==
    /\ Request
    /\ ~Refused(m)
    /\ cookies' = cookies \cup {[who |-> m, exp |-> MaxClock]}
    /\ UNCHANGED <<provider, vers, link, embed, keys, tokens, xch, wr, clock, overlap>>

Logout(c) ==
    /\ cookies' = cookies \ {c}
    /\ UNCHANGED <<provider, vers, link, embed, keys, tokens, xch, wr, clock, signIns, overlap>>

EndEmbedSession(s) ==
    /\ s.handed
    /\ embed' = embed \ {s}
    /\ UNCHANGED <<provider, vers, link, xch, wr, signIns, overlap, rest>>

CreateServiceKey ==
    /\ Request
    /\ keys' = keys + 1
    /\ UNCHANGED <<provider, vers, link, embed, cookies, tokens, xch, wr, clock, overlap>>

RevokeAPIKey ==
    /\ keys > 0 /\ keys' = keys - 1
    /\ UNCHANGED <<provider, vers, link, embed, cookies, tokens, xch, wr, clock, signIns, overlap>>

\* what the middleware resolves, at the time it is used
resolveAdmin(c) == clock <= c.exp /\ ~Refused(c.who)
resolveEmbedded(s) == s.handed /\ clock <= s.exp /\ link[s.who] = s.sub
resolveAPIKey == IF keys > 0 THEN {Service} ELSE {}

\* mutant: the token lives its own hour
TokenEndUncapped(s) == clock + TokenTTL

\* MintAgent: a token ends with the session it was minted for
TokenEnd(s) == Least(clock + TokenTTL, s.exp)

realtimeToken(s) ==
    /\ resolveEmbedded(s)
    /\ tokens' = tokens \cup {[who |-> s.who, exp |-> TokenEnd(s), until |-> s.until]}
    /\ UNCHANGED <<provider, vers, link, embed, cookies, keys, xch, wr, clock, signIns, overlap>>

Pass ==
    /\ clock < MaxClock
    /\ clock' = clock + 1
    /\ UNCHANGED <<provider, vers, link, embed, cookies, keys, tokens, xch, wr, signIns, overlap>>

-----------------------------------------------------------------------------
SignInNext ==
    \/ \E x \in Exchanges : \/ exchangeEmbedded(x) \/ Validate(x) \/ AdminBySub(x)
                             \/ CreateSession(x) \/ Recheck(x) \/ DieInExchange(x)
    \/ \E w \in Writers : \/ SetIdentityProvider(w) \/ UpsertProvider(w) \/ EndTenantSessions(w)
                           \/ DeleteSessions(w) \/ DeleteProvider(w) \/ DieInWrite(w)
    \/ \E m \in Staff, s \in Subs \cup {NoSub} : SetExternalSub(m, s)
    \/ \E m \in Staff : mintSession(m)
    \/ \E c \in cookies : Logout(c)
    \/ \E s \in embed : EndEmbedSession(s) \/ realtimeToken(s)
    \/ CreateServiceKey \/ RevokeAPIKey \/ Pass

SignInSpec == SignInInit /\ [][SignInNext]_signInVars

-----------------------------------------------------------------------------
(* The members a request can act as: whoever a credential in somebody's    *)
(* hands resolves to.                                                      *)
Actors ==
    {c.who : c \in {c \in cookies : resolveAdmin(c)}}
        \cup {s.who : s \in {s \in embed : resolveEmbedded(s)}} \cup resolveAPIKey

(* An embedded session that still gets its holder in was vouched for by    *)
(* the provider the tenant has now: a session minted while the provider    *)
(* changes is caught by the change or by the exchange's second look, and   *)
(* one inserted by an exchange that died is in nobody's hands.             *)
VouchedByCurrent ==
    (\A w \in Writers : wr[w].pc = "idle") /\ ~overlap =>
        \A s \in embed : resolveEmbedded(s) => s.ver = provider.ver

(* Switching a member off in the tenant's app switches them off here: the  *)
(* session and the realtime tokens minted for it end no later than the     *)
(* token the validator vouched for, and a member who must come embedded    *)
(* gets in no other way.                                                   *)
NeverOutlives ==
    /\ SignInTypeOK
    /\ \A t \in embed \cup tokens : t.until # 0 => t.exp <= t.until
    /\ \A m \in Staff : Refused(m) /\ m \in Actors =>
          \E s \in embed : s.who = m /\ resolveEmbedded(s) /\ (s.until # 0 => clock <= s.until)
=============================================================================
