------------------------------ MODULE MCTenant ------------------------------
(* The parts of a tenant that share no state, checked one per behaviour:   *)
(* `scene` names the part that moves, the others keep their first state.   *)
(* The assertions share nothing but `open` with the assistant's messages.  *)
EXTENDS Team, SignIn, WidgetText, Inbound, Listing, Contacts, Assistant, TLC

CONSTANTS o1, a1, vis, f1, m1, m2, pa, pb

VARIABLE scene

-----------------------------------------------------------------------------
Agent(qs, peer) == <<"agent", [NoScope EXCEPT !.queues = qs, !.peer = peer]>>
GrantTenant ==
    {Agent({"it"}, TRUE), <<"requester", [NoScope EXCEPT !.queues = {"it"}]>>, <<"owner", NoScope>>}

\* next to the owner an agent of every queue or of peers, an administrator, or
\* nobody; no queue or one; an end user's conversation, a peer one, or none yet
TeamSeed(rs, qs, row) ==
    [hired |-> {o1} \cup (IF rs = NoRoles THEN {} ELSE {a1}),
     roles |-> (o1 :> ("owner" :> NoScope)) @@ (a1 :> rs), defined |-> qs, chat |-> row]

SeedsTeam ==
    {TeamSeed("agent" :> [NoScope EXCEPT !.queues = {ScopeAll}], {}, [NoChat EXCEPT !.users = {vis}]),
     TeamSeed("agent" :> [NoScope EXCEPT !.peer = TRUE], {}, [NoChat EXCEPT !.users = {vis}, !.kind = "peer"]),
     TeamSeed("admin" :> NoScope, {"it"}, NoChat), TeamSeed(NoRoles, {"it"}, NoChat)}

\* an owner, and a translator of one language
EditorsTenant ==
    {ForAdmin(o1, "owner" :> NoScope),
     ForAdmin(a1, "translator" :> [NoScope EXCEPT !.projects = {ScopeAll}, !.locales = {"de"}])}
Catalog(ls) == [l \in ls |-> [k \in {"k"} |-> l]]
CatalogsTenant == {<<>>, Catalog({"en", "de"}), Catalog({"en"})}

\* a browser that names a language, and one that names none there is
PrefsTenant == {"de" :> 1, <<>>}

\* a forwarded mail with a Message-ID, and an autoresponder's answer without one
LetterTenant ==
    (m1 :> [mid |-> TRUE, auto |-> FALSE, key |-> "hi", token |-> 0, via |-> "smtp"]) @@
    (m2 :> [mid |-> FALSE, auto |-> TRUE, key |-> "re", token |-> 1, via |-> "webhook"])

\* three rows, with every pattern of ties; the second is one a filter leaves out
SeedsRows == {{[id |-> i, born |-> t[i], at |-> t[i]] : i \in 1..3} : t \in [1..3 -> {0, 1}]}
KindsTenant == [i \in 1..4 |-> IF i = 2 THEN "note" ELSE "plain"]

NamesTenant == (pa :> "Ann") @@ (pb :> "")

-----------------------------------------------------------------------------
Moves(s) == scene = s

\* of the server, only what makes releases next to the widget: one request at a
\* time, that changes the languages or writes a text and publishes it
ReleasesOnly ==
    /\ \/ SaveTranslationProject /\ project'.auto
       \/ \E e \in Edits :
            \/ PutTranslationOverride(e) /\ edit'[e].at[1] = "de"
            \/ WriteEdit(e) \/ publish(e) \/ commitRelease(e)
    /\ Cardinality({e \in Edits : edit'[e].op # "idle"}) <= 1

TenantInit ==
    /\ scene \in {"team", "signin", "translations", "widget", "inbound", "listing", "contacts", "assistant", "assertions"}
    /\ TeamInit /\ (Moves("team") \/ hired = {o1})
    /\ SignInInit /\ link[f1] # NoSub  \* whoever it is, the others are alike
    /\ TranslationsInit /\ WidgetFirst
    /\ IF Moves("widget") THEN shipped = Catalog({"en"}) /\ project.auto
       ELSE shipped # Catalog({"en"}) /\ (Moves("translations") \/ (~Own /\ ~project.row))
    /\ InboundInit /\ (Moves("inbound") \/ emailConfig.spam)
    /\ ListingInit /\ (Moves("listing") \/ (walk.res = "slice" /\ \A r \in rows : r.at = 0))
    /\ ContactsInit
    /\ AssistantInit /\ (Moves("assertions") \/ entitled)

TenantNext ==
    \/ /\ Moves("team") /\ TeamNext
       /\ UNCHANGED <<signInVars, translationVars, widgetVars, inboundVars, listVars, contactVars, assistantVars, scene>>
    \/ /\ Moves("signin") /\ SignInNext
       /\ UNCHANGED <<teamVars, translationVars, widgetVars, inboundVars, listVars, contactVars, assistantVars, scene>>
    \/ /\ Moves("translations") /\ TranslationsNext /\ UNCHANGED widgetVars
       /\ UNCHANGED <<teamVars, signInVars, inboundVars, listVars, contactVars, assistantVars, scene>>
    \/ /\ Moves("widget")
       /\ (PageNext /\ UNCHANGED translationVars) \/ (ReleasesOnly /\ UNCHANGED widgetVars)
       /\ UNCHANGED <<teamVars, signInVars, inboundVars, listVars, contactVars, assistantVars, scene>>
    \/ /\ Moves("inbound") /\ InboundNext
       /\ UNCHANGED <<teamVars, signInVars, translationVars, widgetVars, listVars, contactVars, assistantVars, scene>>
    \/ /\ Moves("listing") /\ ListingNext
       /\ UNCHANGED <<teamVars, signInVars, translationVars, widgetVars, inboundVars, contactVars, assistantVars, scene>>
    \/ /\ Moves("contacts") /\ ContactsNext
       /\ UNCHANGED <<teamVars, signInVars, translationVars, widgetVars, inboundVars, listVars, assistantVars, scene>>
    \/ /\ \/ Moves("assistant") /\ AssistantNext /\ UNCHANGED <<minting, entitled>>
          \/ Moves("assertions") /\ AssistantNext /\ UNCHANGED <<steps, showing, approving, time>>
       /\ UNCHANGED <<teamVars, signInVars, translationVars, widgetVars, inboundVars, listVars, contactVars, scene>>

tenantVars ==
    <<teamVars, signInVars, translationVars, widgetVars, inboundVars, listVars, contactVars, assistantVars, scene>>

TenantSpec == TenantInit /\ [][TenantNext]_tenantVars

\* slots of every part share their names, and so do words, labels and writers,
\* so that two swaps are the whole group
Symmetry == Permutations(Calls) \cup Permutations(Words)
=============================================================================
