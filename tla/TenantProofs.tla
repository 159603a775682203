---------------------------- MODULE TenantProofs ----------------------------
(***************************************************************************)
(* Proofs about the parts of a tenant that MCTenant checks: the contact    *)
(* record, the team and its sockets, sign-in, translations, mail, lists    *)
(* and the assistant.  The parts share no state, so each has its own       *)
(* inductive invariant and its own theorems about its own specification.   *)
(***************************************************************************)
EXTENDS Team, SignIn, WidgetText, Inbound, Listing, Contacts, Assistant,
        FiniteSetTheorems, WellFoundedInduction, TLAPS

-----------------------------------------------------------------------------
(* Contacts.  A request that will write carries a profile and the text the *)
(* searchable keys of some moment picked from it; a change nobody was told *)
(* of has a request about to tell it, or is one the history excuses.       *)

Texts == {<<w, v>> : w \in Profiles \cup {NoProfile}, v \in {0, 1}}
PutRow ==
    [pc : {"idle", "read", "narrow", "write", "tell", "lang"}, want : Profiles \cup {NoProfile},
     text : Texts \cup {<<>>}, changed : BOOLEAN, lang : Langs \cup {""}]
NarrowRow ==
    [text : Texts \cup {<<>>}, name : {""} \cup {NameIn[p] : p \in Profiles},
     out : BOOLEAN, lang : Langs \cup {""}]

ContactTypes ==
    /\ blob \in Profiles \cup {NoProfile} /\ narrow \in NarrowRow /\ searchable \in {0, 1}
    /\ put \in [Puts -> PutRow] /\ puts \in Nat
    /\ wish \in BOOLEAN /\ untold \in BOOLEAN /\ missed \in BOOLEAN

PutKnows(p) ==
    put[p].pc \in {"read", "narrow", "write", "tell"} =>
        put[p].want \in Profiles /\ \E v \in 0..searchable : put[p].text = <<put[p].want, v>>

ContactRows ==
    /\ narrow.out = wish
    /\ narrow.name = profileName(blob)
    /\ blob = NoProfile \/ \E v \in 0..searchable : narrow.text = <<blob, v>>

ChangesTold == untold => missed \/ \E p \in Puts : put[p].pc = "tell"

ContactInd == ContactTypes /\ (\A p \in Puts : PutKnows(p)) /\ ContactRows /\ ChangesTold

LEMMA NameTyped ==
  ASSUME NEW w \in Profiles \cup {NoProfile}
  PROVE  profileName(w) \in {""} \cup {NameIn[p] : p \in Profiles}
BY DEF profileName

LEMMA TextTyped ==
  ASSUME NEW w \in Profiles \cup {NoProfile}, searchable \in {0, 1}
  PROVE  searchText(w) \in Texts /\ searchText(w) = <<w, searchable>>
<1>1. searchText(w) = <<w, searchable>>
  BY DEF searchText
<1>2. <<w, searchable>> \in Texts
  BY DEF Texts
<1> QED
  BY <1>1, <1>2

LEMMA NoPutTyped == NoPut \in PutRow /\ NoNarrow \in NarrowRow
BY DEF NoPut, NoNarrow, PutRow, NarrowRow

LEMMA ContactIndInit == ContactsInit => ContactInd
<1> SUFFICES ASSUME ContactsInit PROVE ContactInd
  OBVIOUS
<1>1. ContactTypes
  BY NoPutTyped DEF ContactsInit, ContactTypes
<1>2. \A p \in Puts : PutKnows(p)
  BY DEF ContactsInit, PutKnows, NoPut
<1>3. ContactRows
  BY DEF ContactsInit, ContactRows, NoNarrow, profileName
<1>4. ChangesTold
  BY DEF ContactsInit, ChangesTold
<1> QED
  BY <1>1, <1>2, <1>3, <1>4 DEF ContactInd

\* a request goes on to record the language, or is over
LEMMA OnwardTyped ==
  ASSUME ContactTypes, NEW p \in Puts
  PROVE  /\ Onward(p) \in [Puts -> PutRow]
         /\ \A o \in Puts \ {p} : Onward(p)[o] = put[o]
         /\ Onward(p)[p].pc \in {"idle", "lang"}
<1> DEFINE on == IF put[p].lang = "" THEN NoPut ELSE [put[p] EXCEPT !.pc = "lang"]
<1>1. put[p] \in PutRow
  BY DEF ContactTypes
<1>2. on \in PutRow /\ on.pc \in {"idle", "lang"}
  BY <1>1, NoPutTyped DEF PutRow, NoPut
<1>3. Onward(p) = [put EXCEPT ![p] = on]
  BY DEF Onward, ContactTypes
<1> HIDE DEF on
<1> QED
  BY <1>2, <1>3 DEF ContactTypes

\* a request that moves without writing: what it knows is what it knew
LEMMA PutMoves ==
  ASSUME ContactInd, NEW p \in Puts, put' \in [Puts -> PutRow],
         \A o \in Puts \ {p} : put'[o] = put[o], PutKnows(p)', put[p].pc # "tell",
         UNCHANGED <<blob, narrow, searchable, wish, untold, missed>>, puts' \in Nat
  PROVE  ContactInd'
<1>1. ContactTypes'
  BY DEF ContactInd, ContactTypes
<1>2. \A o \in Puts : PutKnows(o)'
  BY DEF ContactInd, PutKnows
<1>3. ContactRows'
  BY DEF ContactInd, ContactRows, profileName
<1>4. ChangesTold'
  BY DEF ContactInd, ChangesTold
<1> QED
  BY <1>1, <1>2, <1>3, <1>4 DEF ContactInd

LEMMA ContactIndStep == ContactInd /\ [ContactsNext]_contactVars => ContactInd'
<1> SUFFICES ASSUME ContactInd, [ContactsNext]_contactVars PROVE ContactInd'
  OBVIOUS
<1>t. ContactTypes /\ ContactRows /\ ChangesTold /\ \A p \in Puts : PutKnows(p)
  BY DEF ContactInd
<1>p. \A p \in Puts : put[p] \in PutRow
  BY <1>t DEF ContactTypes
<1>1. ASSUME NEW p \in Puts, upsertContact(p) PROVE ContactInd'
  <2>a. searchable \in {0, 1} /\ puts \in Nat
    BY <1>t DEF ContactTypes
  <2>b. puts' = puts + 1 /\ UNCHANGED <<blob, narrow, searchable, wish, untold, missed>>
    BY <1>1 DEF upsertContact
  <2>0. puts' \in Nat /\ searchable' = searchable /\ searchable \in 0..searchable
    BY <2>a, <2>b
  <2>1. PICK want \in Profiles \cup {NoProfile}, lang \in Langs \cup {""} :
           /\ want # NoProfile \/ lang # ""
           /\ put[p].pc = "idle"
           /\ put' = [put EXCEPT ![p] = [NoPut EXCEPT !.pc = IF want = NoProfile THEN "lang" ELSE "read",
                                       !.want = want, !.text = searchText(want), !.lang = lang]]
    BY <1>1 DEF upsertContact
  <2> DEFINE c == [NoPut EXCEPT !.pc = IF want = NoProfile THEN "lang" ELSE "read",
                                       !.want = want, !.text = searchText(want), !.lang = lang]
  <2>2. searchText(want) \in Texts /\ searchText(want) = <<want, searchable>>
    BY TextTyped, <1>t DEF ContactTypes
  <2>3. c \in PutRow /\ c.want = want /\ c.text = <<want, searchable>> /\ c.pc = IF want = NoProfile THEN "lang" ELSE "read"
    BY <2>2, NoPutTyped DEF PutRow, NoPut
  <2>4. put' = [put EXCEPT ![p] = c]
    BY <2>1
  <2> HIDE DEF c
  <2>5. put' \in [Puts -> PutRow] /\ put'[p] = c /\ \A o \in Puts \ {p} : put'[o] = put[o]
    BY <2>3, <2>4, <1>t DEF ContactTypes
  <2>6. PutKnows(p)'
    BY <2>3, <2>5, <2>0 DEF PutKnows
  <2> QED
    BY <2>0, <2>b, <2>1, <2>5, <2>6, PutMoves
<1>2. ASSUME NEW p \in Puts, ReadProfile(p) PROVE ContactInd'
  <2> DEFINE changed == blob # put[p].want
             c == [put[p] EXCEPT !.changed = changed, !.pc = IF changed THEN "write" ELSE "narrow"]
  <2>1. put' = [put EXCEPT ![p] = c]
    BY <1>2, <1>p, <1>t DEF ReadProfile, ContactTypes
  <2>2. c \in PutRow /\ c.want = put[p].want /\ c.text = put[p].text
    BY <1>p DEF PutRow
  <2> HIDE DEF c
  <2>3. put' \in [Puts -> PutRow] /\ put'[p] = c /\ \A o \in Puts \ {p} : put'[o] = put[o]
    BY <2>1, <2>2, <1>t DEF ContactTypes
  <2>4. PutKnows(p)'
    BY <2>2, <2>3, <1>t, <1>2 DEF PutKnows, ReadProfile
  <2>5. puts' \in Nat /\ UNCHANGED <<blob, narrow, searchable, wish, untold, missed>> /\ put[p].pc # "tell"
    BY <1>2, <1>t DEF ReadProfile, ContactTypes
  <2> QED
    BY <2>3, <2>4, <2>5, PutMoves
<1>3. ASSUME NEW p \in Puts, narrowMatches(p) PROVE ContactInd'
  <2>0. puts' \in Nat /\ UNCHANGED <<blob, narrow, searchable, wish, untold, missed>>
        /\ put[p].pc = "narrow" /\ (put' = Onward(p) \/ put' = [put EXCEPT ![p].pc = "write"])
    BY <1>3, <1>t DEF narrowMatches, ContactTypes
  <2>1. CASE put' = Onward(p)
    <3>1. PutKnows(p)'
      BY <2>1, <1>t, OnwardTyped DEF PutKnows
    <3> QED
      BY <2>0, <2>1, <3>1, <1>t, OnwardTyped, PutMoves
  <2>2. CASE put' = [put EXCEPT ![p].pc = "write"]
    <3> DEFINE c == [put[p] EXCEPT !.pc = "write"]
    <3>1. put' = [put EXCEPT ![p] = c]
      BY <2>2, <1>t DEF ContactTypes
    <3>2. c \in PutRow /\ c.want = put[p].want /\ c.text = put[p].text
      BY <1>p DEF PutRow
    <3> HIDE DEF c
    <3>3. put' \in [Puts -> PutRow] /\ put'[p] = c /\ \A o \in Puts \ {p} : put'[o] = put[o]
      BY <3>1, <3>2, <1>t DEF ContactTypes
    <3>4. PutKnows(p)'
      BY <3>2, <3>3, <1>t, <2>0 DEF PutKnows
    <3> QED
      BY <3>3, <3>4, <2>0, PutMoves
  <2> QED
    BY <2>0, <2>1, <2>2
<1>4. ASSUME NEW p \in Puts, Upsert(p) PROVE ContactInd'
  <2> DEFINE c == put[p]
  <2>0. c \in PutRow /\ c.pc = "write" /\ c.want \in Profiles /\ \E v \in 0..searchable : c.text = <<c.want, v>>
    BY <1>4, <1>p, <1>t DEF Upsert, PutKnows
  <2>1. /\ narrow' = ProfileColumns(c) /\ blob' = c.want
        /\ untold' = (untold \/ blob # c.want)
        /\ missed' = (missed \/ (~c.changed /\ blob # c.want))
        /\ put' = (IF c.changed THEN [put EXCEPT ![p].pc = "tell"] ELSE Onward(p))
        /\ UNCHANGED <<searchable, puts, wish>>
    BY <1>4 DEF Upsert
  <2>2. /\ put' \in [Puts -> PutRow] /\ \A o \in Puts \ {p} : put'[o] = put[o]
        /\ PutKnows(p)' /\ (put'[p].pc = "tell" \/ ~c.changed)
    <3>1. CASE c.changed
      <4> DEFINE d == [put[p] EXCEPT !.pc = "tell"]
      <4>1. put' = [put EXCEPT ![p] = d]
        BY <2>1, <3>1, <1>t DEF ContactTypes
      <4>2. d \in PutRow /\ d.want = put[p].want /\ d.text = put[p].text /\ d.pc = "tell"
        BY <1>p DEF PutRow
      <4> HIDE DEF d
      <4>3. put' \in [Puts -> PutRow] /\ put'[p] = d /\ \A o \in Puts \ {p} : put'[o] = put[o]
        BY <4>1, <4>2, <1>t DEF ContactTypes
      <4> QED
        BY <4>2, <4>3, <2>0, <2>1 DEF PutKnows
    <3>2. CASE ~c.changed
      <4>1. put' = Onward(p)
        BY <2>1, <3>2
      <4> QED
        BY <4>1, <3>2, <1>t, OnwardTyped DEF PutKnows
    <3> QED
      BY <3>1, <3>2
  <2>3. /\ narrow' \in NarrowRow /\ narrow'.out = narrow.out
        /\ narrow'.text = c.text /\ narrow'.name = profileName(c.want)
    <3>1. narrow \in NarrowRow
      BY <1>t DEF ContactTypes
    <3>2. profileName(c.want) \in {""} \cup {NameIn[q] : q \in Profiles}
      BY <2>0, NameTyped
    <3>3. c.text \in Texts \cup {<<>>}
      BY <2>0 DEF PutRow
    <3> QED
      BY <2>1, <3>1, <3>2, <3>3 DEF ProfileColumns, NarrowRow
  <2>4. ContactTypes'
    BY <2>0, <2>1, <2>2, <2>3, <1>t DEF ContactTypes
  <2>5. \A o \in Puts : PutKnows(o)'
    BY <2>1, <2>2, <1>t DEF PutKnows
  <2>6. ContactRows'
    <3>1. profileName(blob)' = profileName(c.want)
      BY <2>1 DEF profileName
    <3> QED
      BY <2>0, <2>1, <2>3, <3>1, <1>t DEF ContactRows
  <2>7. ChangesTold'
    BY <2>0, <2>1, <2>2, <1>t DEF ChangesTold, ContactTypes
  <2> QED
    BY <2>4, <2>5, <2>6, <2>7 DEF ContactInd
<1>5. ASSUME NEW p \in Puts, Tell(p) PROVE ContactInd'
  <2>1. ContactTypes'
    BY <1>5, <1>t, OnwardTyped DEF Tell, ContactTypes
  <2>2. \A o \in Puts : PutKnows(o)'
    BY <1>5, <1>t, OnwardTyped DEF Tell, PutKnows
  <2>3. ContactRows' /\ ChangesTold'
    BY <1>5, <1>t DEF Tell, ContactRows, ChangesTold, profileName
  <2> QED
    BY <2>1, <2>2, <2>3 DEF ContactInd
<1>6. ASSUME NEW p \in Puts, SetContactLocale(p) PROVE ContactInd'
  <2>1. put' \in [Puts -> PutRow] /\ put'[p] = NoPut /\ \A o \in Puts \ {p} : put'[o] = put[o]
    BY <1>6, <1>t, NoPutTyped DEF SetContactLocale, ContactTypes
  <2>2. narrow' \in NarrowRow /\ narrow'.out = narrow.out /\ narrow'.name = narrow.name /\ narrow'.text = narrow.text
    <3>1. put[p].lang \in Langs \cup {""} /\ narrow \in NarrowRow
      BY <1>p, <1>t DEF PutRow, ContactTypes
    <3> QED
      BY <3>1, <1>6 DEF SetContactLocale, NarrowRow
  <2>3. ContactTypes'
    BY <1>6, <1>t, <2>1, <2>2 DEF SetContactLocale, ContactTypes
  <2>4. \A o \in Puts : PutKnows(o)'
    BY <1>6, <1>t, <2>1 DEF SetContactLocale, PutKnows, NoPut
  <2>5. ContactRows'
    BY <1>6, <1>t, <2>2 DEF SetContactLocale, ContactRows, profileName
  <2>6. ChangesTold'
    BY <1>6, <1>t, <2>1 DEF SetContactLocale, ChangesTold
  <2> QED
    BY <2>3, <2>4, <2>5, <2>6 DEF ContactInd
<1>7. ASSUME NEW p \in Puts, DieInPut(p) PROVE ContactInd'
  <2>1. put' \in [Puts -> PutRow] /\ put'[p] = NoPut /\ \A o \in Puts \ {p} : put'[o] = put[o]
    BY <1>7, <1>t, NoPutTyped DEF DieInPut, ContactTypes
  <2>2. ContactTypes'
    BY <1>7, <1>t, <2>1 DEF DieInPut, ContactTypes
  <2>3. \A o \in Puts : PutKnows(o)'
    BY <1>7, <1>t, <2>1 DEF DieInPut, PutKnows, NoPut
  <2>4. ContactRows'
    BY <1>7, <1>t DEF DieInPut, ContactRows, profileName
  <2>5. ChangesTold'
    BY <1>7, <1>t, <2>1 DEF DieInPut, ChangesTold
  <2> QED
    BY <2>2, <2>3, <2>4, <2>5 DEF ContactInd
<1>8. CASE SetContactPush
  <2>1. PICK off \in BOOLEAN : puts' = puts + 1 /\ narrow' = [narrow EXCEPT !.out = off] /\ wish' = off
                               /\ UNCHANGED <<blob, searchable, put, untold, missed>>
    BY <1>8 DEF SetContactPush, SetPushOptOut
  <2>2. narrow \in NarrowRow
    BY <1>t DEF ContactTypes
  <2>3. narrow' \in NarrowRow /\ narrow'.out = off /\ narrow'.name = narrow.name /\ narrow'.text = narrow.text
    BY <2>1, <2>2 DEF NarrowRow
  <2>4. ContactTypes'
    BY <2>1, <2>3, <1>t DEF ContactTypes
  <2>5. ContactRows'
    BY <2>1, <2>3, <1>t DEF ContactRows, profileName
  <2> QED
    BY <2>1, <2>4, <2>5, <1>t DEF ContactInd, PutKnows, ChangesTold
<1>9. CASE SetSearchableKeys
  <2>1. ContactTypes'
    BY <1>9, <1>t DEF SetSearchableKeys, ContactTypes
  <2>2. \A v \in 0..searchable : v \in 0..searchable'
    BY <1>9 DEF SetSearchableKeys
  <2>3. ContactRows'
    BY <1>9, <2>2, <1>t DEF SetSearchableKeys, ContactRows, profileName
  <2>4. \A p \in Puts : PutKnows(p)'
    BY <1>9, <2>2, <1>t DEF SetSearchableKeys, PutKnows
  <2> QED
    BY <1>9, <2>1, <2>3, <2>4, <1>t DEF SetSearchableKeys, ContactInd, ChangesTold
<1>10. CASE UNCHANGED contactVars
  BY <1>10, <1>t DEF contactVars, ContactInd, ContactTypes, PutKnows, ContactRows, ChangesTold, profileName
<1> QED
  BY <1>1, <1>2, <1>3, <1>4, <1>5, <1>6, <1>7, <1>8, <1>9, <1>10 DEF ContactsNext

(* PUT /v1/contacts (domain/contact.go, gormstore/contact.go), overlapping *)
(* and dying at will, keeps the wide and the narrow row of a person in     *)
(* step, never lifts the push opt-out, and announces every change of the   *)
(* profile bar the cases ContactWhole names, for any profiles, languages   *)
(* and number of requests.                                                 *)
THEOREM ContactWholeHolds == ContactsSpec => []ContactWhole
<1>1. ContactInd => ContactWhole
  <2> SUFFICES ASSUME ContactInd PROVE ContactWhole
    OBVIOUS
  <2>1. ContactTypes /\ ContactRows /\ ChangesTold
    BY DEF ContactInd
  <2>2. ContactTypeOK
    BY <2>1 DEF ContactTypes, ContactTypeOK, NarrowRow
  <2> QED
    BY <2>1, <2>2 DEF ContactWhole, ContactRows, ChangesTold
<1> QED
  BY ContactIndInit, ContactIndStep, <1>1, PTL DEF ContactsSpec

-----------------------------------------------------------------------------
(* Team: what the operators of Policy say of any principal and any row.    *)

HeldRoles == UNION {[rs -> RoleScope] : rs \in SUBSET PlatformRoles}

LEMMA HeldTyped == \A h : h \in HeldRoles => RolesTyped(h)
BY DEF HeldRoles, RolesTyped

LEMMA HeldIntro ==
  ASSUME NEW R \in SUBSET PlatformRoles, NEW h \in [R -> RoleScope]
  PROVE  h \in HeldRoles
BY DEF HeldRoles

LEMMA TypedHeld == \A h : RolesTyped(h) => h \in HeldRoles
BY HeldIntro DEF RolesTyped

LEMMA NoRolesHeld == NoRoles \in HeldRoles /\ DOMAIN NoRoles = {}
<1>1. NoRoles \in [{} -> RoleScope] /\ DOMAIN NoRoles = {}
  BY DEF NoRoles
<1> QED
  BY <1>1, HeldIntro

LEMMA NoScopeTyped == NoScope \in RoleScope
BY DEF NoScope, RoleScope

LEMMA CapabilityFacts ==
  /\ capabilities("conversations.list") = EveryTalker
  /\ capabilities("conversations.read") = EveryTalker
  /\ capabilities("messages.read") = EveryTalker
  /\ capabilities("contacts.list") = {"admin"}
  /\ capabilities("notes.read") = {"apiKey", "admin"}
BY DEF capabilities, TalkActions, ServerActions, OperatorActions, PrivilegedActions, OwnerActions,
       SignedActions, DraftActions, NoteActions

\* every role but a translator's and a requester's alone reads as an operator's
LEMMA RoleFacts ==
  ASSUME NEW r
  PROVE  /\ roleHolds(EveryTalker, r) <=> r # "translator"
         /\ roleHolds({"admin"}, r) <=> r \notin {"translator", "requester"}
         /\ roleHolds({"apiKey", "admin"}, r) <=> r \notin {"translator", "requester"}
BY DEF roleHolds, EveryTalker

LEMMA HoldsFacts ==
  ASSUME NEW p, p.kind = "admin"
  PROVE  /\ \A a \in {"conversations.list", "conversations.read", "messages.read"} :
               holds(p, a) <=> \E r \in DOMAIN p.held : r # "translator"
         /\ \A a \in {"contacts.list", "notes.read"} :
               holds(p, a) <=> \E r \in DOMAIN p.held : r \notin {"translator", "requester"}
BY CapabilityFacts, RoleFacts DEF holds

\* whoever works a queue, or reads peer conversations, holds such a role
LEMMA OperatorHolds ==
  ASSUME NEW p, p.kind = "admin", QueuesOf(p) # {} \/ PeerAccess(p)
  PROVE  \E r \in DOMAIN p.held : r \notin {"translator", "requester"}
<1>1. HasRole(p, "agent") \/ Privileged(p)
  BY DEF QueuesOf, PeerAccess, AllQueues, ScopeOf, NoScope
<1> QED
  BY <1>1 DEF HasRole, Privileged

\* own requests are a requester's
LEMMA OwnNeedsRole ==
  ASSUME NEW p, RequesterQueues(p) # {}, ~Privileged(p)
  PROVE  HasRole(p, "requester")
BY DEF RequesterQueues, ScopeOf, NoScope

(* The row a list's ceiling admits (policy/scope.go, conversation_list.go) *)
(* is one the decision on that row admits too (policy.go), for every       *)
(* principal and every row.                                                *)
THEOREM ListedMayBeOpened ==
  ASSUME NEW kind \in {"apikey", "user", "admin"}, NEW id, NEW h, NEW c \in ChatRow,
         Lists(Principal(kind, id, h), c) \/ ListsContactsOf(Principal(kind, id, h), c)
  PROVE  AuthorizeConversation(Principal(kind, id, h), "conversations.read", c)
<1> DEFINE p == Principal(kind, id, h)
<1>p. p.kind = kind /\ p.id = id /\ p.held = h
  BY DEF Principal
<1> HIDE DEF p
<1>r. "requester" \in capabilities("conversations.read") /\ "conversations.read" \in ConversationActions
  BY CapabilityFacts DEF EveryTalker, ConversationActions
<1>k. c.kind \in Kinds
  BY DEF ChatRow
<1>1. CASE kind = "apikey"
  BY <1>1, <1>p, CapabilityFacts DEF p, AuthorizeConversation, Authorize, authorizeConversation, holds, EveryTalker
<1>2. CASE kind = "user"
  <2>1. Lists(p, c)
    BY <1>2, <1>p, CapabilityFacts DEF p, ListsContactsOf, Scoped, holds
  <2>2. holds(p, "conversations.read")
    BY <1>2, <1>p, CapabilityFacts DEF holds, EveryTalker
  <2>3. IsMember(c, p.id)
    BY <2>1, <1>2, <1>p DEF Lists, applyScope, applyCeiling, Ceiling, OpenCeiling
  <2>4. conversationAttrs(p, c).isMember
    BY <2>3, <1>2, <1>p DEF conversationAttrs, NoResource
  <2> QED
    BY <2>2, <2>4, <1>2, <1>p DEF p, AuthorizeConversation, Authorize, authorizeConversation
<1>3. CASE kind = "admin"
  <2> DEFINE attrs == conversationAttrs(p, c)
  <2>1. holds(p, "conversations.read")
    BY <1>3, <1>p, HoldsFacts DEF p, Lists, ListsContactsOf, Scoped
  <2>2. /\ attrs.kind = c.kind /\ attrs.queue = c.queue
        /\ attrs.reachable = (c.kind # "peer" /\ (c.archived \/ (~Privileged(p) /\ c.assigned)))
        /\ attrs.isMember = (HasRole(p, "requester") /\ IsActorMember(c, p.id))
    BY <1>3, <1>p DEF conversationAttrs, classifyConv
  <2> HIDE DEF attrs
  <2>3. CASE RequesterOnly(p)
    <3>1. ~Privileged(p) /\ HasRole(p, "requester")
      BY <2>3 DEF RequesterOnly, Operator
    <3>2. applyCeiling(Ceiling(p), p, c)
      <4>1. CASE Lists(p, c)
        BY <4>1, <2>3, <1>3, <1>p DEF Lists, applyScope, Ceiling, OpenCeiling
      <4>2. CASE ListsContactsOf(p, c)
        BY <4>2 DEF ListsContactsOf, contactBase, applyCeiling
      <4> QED
        BY <4>1, <4>2 DEF p
    <3>3. c.kind = "support" /\ IsActorMember(c, p.id) /\ c.queue \in RequesterQueues(p)
      BY <3>2, <2>3, <1>3, <1>p DEF applyCeiling, Ceiling, OpenCeiling
    <3>4. ownRequest(p, "conversations.read", attrs)
      BY <3>1, <3>3, <2>2, <1>r DEF ownRequest, RequesterReaches
    <3> QED
      BY <2>1, <3>4, <1>3, <1>p DEF p, attrs, AuthorizeConversation, Authorize, authorizeConversation
  <2>4. CASE ~RequesterOnly(p)
    <3> DEFINE s == Ceiling(p)
    <3>0. /\ s.kinds = IF PeerAccess(p) THEN Kinds ELSE {"support"}
          /\ s.needsAssignment = ~Privileged(p) /\ s.queues = QueuesOf(p)
          /\ s.own = IF Privileged(p) THEN {} ELSE RequesterQueues(p)
      BY <2>4, <1>3, <1>p DEF Ceiling, OpenCeiling
    <3> HIDE DEF s
    <3>1. CASE applyCeiling(s, p, c)
      <4>1. operates(p, attrs)
        BY <3>0, <3>1, <2>2, <2>4, <1>k DEF operates, applyCeiling, ReachesQueue, Kinds
      <4> QED
        BY <2>1, <4>1, <1>3, <1>p DEF p, attrs, AuthorizeConversation, Authorize, authorizeConversation
    <3>2. CASE c.kind = "support" /\ IsActorMember(c, p.id) /\ c.queue \in s.own
      <4>1. ~Privileged(p) /\ c.queue \in RequesterQueues(p) /\ HasRole(p, "requester")
        BY <3>0, <3>2, OwnNeedsRole
      <4>2. ownRequest(p, "conversations.read", attrs)
        BY <4>1, <3>2, <2>2, <1>r DEF ownRequest, RequesterReaches
      <4> QED
        BY <2>1, <4>2, <1>3, <1>p DEF p, attrs, AuthorizeConversation, Authorize, authorizeConversation
    <3>3. applyScope(s, p, c)
      <4>1. CASE Lists(p, c)
        BY <4>1 DEF Lists, s
      <4>2. CASE ListsContactsOf(p, c)
        BY <4>2 DEF ListsContactsOf, contactBase, applyCeiling, applyScope, s
      <4> QED
        BY <4>1, <4>2 DEF p
    <3> QED
      BY <3>1, <3>2, <3>3 DEF applyScope
  <2> QED
    BY <2>3, <2>4
<1> QED
  BY <1>1, <1>2, <1>3

\* a row of a member's own request is one an assignment came with
OwnAssigned(c) == c.kind = "support" /\ c.actors # {} => c.assigned \/ c.archived

(* The search's query (buildFilters) finds what the list's query (List)    *)
(* shows, and nothing else but for a member with own requests: for every   *)
(* principal and every row whose own request came with its assignment.     *)
THEOREM SearchMatchesList ==
  ASSUME NEW kind, NEW id, NEW h, NEW c \in ChatRow, OwnAssigned(c)
  PROVE  LET p == Principal(kind, id, h) IN
         IF Lists(p, c) THEN Searches(p, c) ELSE Ceiling(p).own # {} \/ ~Searches(p, c)
<1> DEFINE p == Principal(kind, id, h)
           s == Ceiling(p)
           t == SearchCeiling(p)
<1>p. p.kind = kind /\ p.id = id /\ p.held = h
  BY DEF Principal
<1> HIDE DEF p
<1>1. CASE s.own = {}
  <2>1. t = s
    BY <1>1 DEF SearchCeiling
  <2>2. applyScope(s, p, c) <=> buildFilters(t, p, c)
    BY <1>1, <2>1 DEF applyScope, applyCeiling, buildFilters
  <2> QED
    BY <2>2 DEF Lists, Searches, p
<1>2. CASE s.own # {}
  <2>1. /\ s.kinds = IF PeerAccess(p) THEN Kinds ELSE {"support"}
        /\ s.user = FALSE /\ s.actor = FALSE
    BY <1>2, <1>p DEF Ceiling, OpenCeiling
  <2>2. /\ t.kinds = s.kinds /\ t.user = FALSE /\ t.actor = FALSE /\ t.queues = Queues
        /\ t.needsAssignment = s.needsAssignment
    <3>1. t = [s EXCEPT !.queues = Queues]
      BY <1>2 DEF SearchCeiling
    <3>2. DOMAIN s = {"kinds", "queues", "user", "actor", "needsAssignment", "own"}
      BY DEF Ceiling, OpenCeiling
    <3> QED
      BY <2>1, <3>1, <3>2
  <2>3. c.queue \in Queues
    BY DEF ChatRow
  <2>4. applyScope(s, p, c) => buildFilters(t, p, c)
    BY <2>1, <2>2, <2>3 DEF applyScope, applyCeiling, buildFilters, OwnAssigned, Kinds, IsActorMember
  <2> QED
    BY <1>2, <2>4 DEF Lists, Searches, p
<1> QED
  BY <1>1, <1>2

-----------------------------------------------------------------------------
(* Channels: how the channel set of a principal changes with the queues    *)
(* and with its own conversations.                                         *)

LEMMA ChannelFacts ==
  /\ \A x, y : (UserChannel(x) = UserChannel(y) <=> x = y) /\ (QueueChannel(x) = QueueChannel(y) <=> x = y)
               /\ (ConvChannel(x) = ConvChannel(y) <=> x = y)
               /\ UserChannel(x) # ConvChannel(y) /\ UserChannel(x) # QueueChannel(y) /\ ConvChannel(x) # QueueChannel(y)
               /\ UserChannel(x) # AgentsChannel /\ UserChannel(x) # PeerChannel
               /\ ConvChannel(x) # AgentsChannel /\ ConvChannel(x) # PeerChannel
               /\ QueueChannel(x) # AgentsChannel /\ QueueChannel(x) # PeerChannel
  /\ AgentsChannel # PeerChannel
BY DEF UserChannel, ConvChannel, QueueChannel, AgentsChannel, PeerChannel, Channel

LEMMA OperatorsInjective == \A q, r : operators(q) = operators(r) <=> q = r
BY ChannelFacts DEF operators, QueueSupport

\* the queues a socket follows
Worked(p, D) ==
    IF RequesterOnly(p) THEN {}
    ELSE QueuesOf(p) \cap (IF AllQueues(p) THEN D \cup {QueueSupport} ELSE Queues)

\* the own requests it follows
Followed(p, own) ==
    IF HasRole(p, "requester")
    THEN {c \in own : c.kind # "peer" /\ RequesterReaches(p, c.queue) /\ ~ReachesQueue(p, c.queue)} ELSE {}

LEMMA ChannelsAre ==
  ASSUME NEW p, NEW D, NEW own, NEW ch
  PROVE  ch \in AgentChannels(p, D, own) <=>
           /\ Scoped(p, "conversations.list")
           /\ \/ ch = UserChannel(p.id)
              \/ \E c \in Followed(p, own) : ch = ConvChannel(c.id)
              \/ \E q \in Worked(p, D) : ch = operators(q)
              \/ ~RequesterOnly(p) /\ PeerAccess(p) /\ ch = PeerChannel
<1>1. CASE ~Scoped(p, "conversations.list")
  BY <1>1 DEF AgentChannels
<1>2. CASE Scoped(p, "conversations.list")
  <2> DEFINE fo == {c \in own : c.kind # "peer" /\ RequesterReaches(p, c.queue) /\ ~ReachesQueue(p, c.queue)}
             wo == QueuesOf(p) \cap (IF AllQueues(p) THEN D \cup {QueueSupport} ELSE Queues)
  <2>1. AgentChannels(p, D, own) =
          {UserChannel(p.id)}
             \cup (IF HasRole(p, "requester") THEN {ConvChannel(c.id) : c \in fo} ELSE {})
             \cup (IF RequesterOnly(p) THEN {}
                   ELSE {operators(q) : q \in wo} \cup (IF PeerAccess(p) THEN {PeerChannel} ELSE {}))
    BY <1>2 DEF AgentChannels
  <2>2. Followed(p, own) = IF HasRole(p, "requester") THEN fo ELSE {}
    BY DEF Followed
  <2>3. Worked(p, D) = IF RequesterOnly(p) THEN {} ELSE wo
    BY DEF Worked
  <2> HIDE DEF fo, wo
  <2> QED
    BY <1>2, <2>1, <2>2, <2>3
<1> QED
  BY <1>1, <1>2

\* a queue more
LEMMA QueueAdds ==
  ASSUME NEW p, NEW D \in SUBSET Queues, NEW own, NEW q \in D, q # QueueSupport
  PROVE  AgentChannels(p, D, own) =
           AgentChannels(p, D \ {q}, own) \cup
             (IF AllQueues(p) /\ QueueChannel(q) \in AgentChannels(p, {q}, {})
              THEN {QueueChannel(q)} ELSE {})
<1>1. CASE ~AllQueues(p)
  <2>1. Worked(p, D) = Worked(p, D \ {q})
    BY <1>1 DEF Worked
  <2> QED
    BY <1>1, <2>1, ChannelsAre
<1>2. CASE AllQueues(p)
  <2>1. operators(q) = QueueChannel(q)
    BY DEF operators
  <2>2. QueuesOf(p) = Queues
    BY <1>2 DEF QueuesOf
  <2>3. /\ RequesterOnly(p) => Worked(p, D) = Worked(p, D \ {q}) /\ Worked(p, {q}) = {}
        /\ ~RequesterOnly(p) => Worked(p, D) = Worked(p, D \ {q}) \cup {q} /\ q \in Worked(p, {q})
    BY <1>2, <2>2 DEF Worked
  <2>4. Followed(p, {}) = {}
    BY DEF Followed
  <2>5. QueueChannel(q) \in AgentChannels(p, {q}, {}) <=> Scoped(p, "conversations.list") /\ ~RequesterOnly(p)
    <3>1. QueueChannel(q) \in AgentChannels(p, {q}, {}) <=>
            Scoped(p, "conversations.list") /\ \E r \in Worked(p, {q}) : QueueChannel(q) = operators(r)
      <4>1. QueueChannel(q) # UserChannel(p.id) /\ QueueChannel(q) # PeerChannel
        BY ChannelFacts
      <4>2. PICK ch : ch = QueueChannel(q)
        OBVIOUS
      <4>3. ch \in AgentChannels(p, {q}, {}) <=>
              Scoped(p, "conversations.list") /\ \E r \in Worked(p, {q}) : ch = operators(r)
        <5>1. PICK one, none : one = {q} /\ none = {}
          OBVIOUS
        <5>2. ch \in AgentChannels(p, one, none) <=>
                Scoped(p, "conversations.list") /\ \E r \in Worked(p, one) : ch = operators(r)
          <6>1. Followed(p, none) = {}
            BY <5>1, <2>4
          <6> QED
            BY <6>1, <4>1, <4>2, ChannelsAre
        <5> QED
          BY <5>1, <5>2
      <4> QED
        BY <4>2, <4>3
    <3>2. (\E r \in Worked(p, {q}) : QueueChannel(q) = operators(r)) <=> ~RequesterOnly(p)
      BY <2>1, <2>3
    <3> QED
      BY <3>1, <3>2
  <2>6. CASE Scoped(p, "conversations.list") /\ ~RequesterOnly(p)
    <3>1. ASSUME NEW ch
          PROVE  ch \in AgentChannels(p, D, own) <=> ch \in AgentChannels(p, D \ {q}, own) \/ ch = QueueChannel(q)
      <4>1. (\E r \in Worked(p, D) : ch = operators(r))
              <=> (\E r \in Worked(p, D \ {q}) : ch = operators(r)) \/ ch = QueueChannel(q)
        BY <2>1, <2>3, <2>6
      <4> QED
        BY <4>1, <2>6, ChannelsAre
    <3> QED
      BY <3>1, <2>5, <2>6, <1>2
  <2>7. CASE ~(Scoped(p, "conversations.list") /\ ~RequesterOnly(p))
    <3>1. ASSUME NEW ch
          PROVE  ch \in AgentChannels(p, D, own) <=> ch \in AgentChannels(p, D \ {q}, own)
      <4>1. CASE RequesterOnly(p)
        <5>1. Worked(p, D) = Worked(p, D \ {q})
          BY <4>1, <2>3
        <5> QED
          BY <5>1, ChannelsAre
      <4>2. CASE ~Scoped(p, "conversations.list")
        BY <4>2, ChannelsAre
      <4> QED
        BY <2>7, <4>1, <4>2
    <3> QED
      BY <3>1, <2>5, <2>7
  <2> QED
    BY <2>6, <2>7
<1> QED
  BY <1>1, <1>2

\* an own request more adds at most its channel, a peer conversation nothing
LEMMA OwnAdds ==
  ASSUME NEW p, NEW D, NEW c
  PROVE  /\ AgentChannels(p, D, {}) \subseteq AgentChannels(p, D, {c})
         /\ AgentChannels(p, D, {c}) \ {ConvChannel(c.id)} \subseteq AgentChannels(p, D, {})
         /\ c.kind = "peer" => AgentChannels(p, D, {c}) = AgentChannels(p, D, {})
<1>1. Followed(p, {}) = {} /\ Followed(p, {c}) \in SUBSET {c} /\ (c.kind = "peer" => Followed(p, {c}) = {})
  BY DEF Followed
<1>2. ASSUME NEW ch, ch \in AgentChannels(p, D, {}) PROVE ch \in AgentChannels(p, D, {c})
  BY <1>1, <1>2, ChannelsAre
<1>3. ASSUME NEW ch, ch \in AgentChannels(p, D, {c}), ch # ConvChannel(c.id) PROVE ch \in AgentChannels(p, D, {})
  <2>1. ~\E d \in Followed(p, {c}) : ch = ConvChannel(d.id)
    BY <1>1, <1>3
  <2> QED
    BY <2>1, <1>3, ChannelsAre
<1>4. ASSUME NEW ch, c.kind = "peer", ch \in AgentChannels(p, D, {c}) PROVE ch \in AgentChannels(p, D, {})
  BY <1>1, <1>4, ChannelsAre
<1> QED
  BY <1>2, <1>3, <1>4

\* the conversations a member is in, of which the row is one
OwnOf(a, c) == IF a \in c.actors THEN {[id |-> ChatId, queue |-> c.queue, kind |-> c.kind]} ELSE {}

(* An event published for a conversation reaches a socket that the         *)
(* member's roles subscribe (AgentChannels, channelsFor) only when the     *)
(* member may read the conversation, and an internal note only when they   *)
(* may read its notes, for every set of roles and every row.               *)
THEOREM HeardMayBeRead ==
  ASSUME NEW a \in Crew, NEW h, NEW D, NEW c \in ChatRow, NEW internal \in BOOLEAN,
         AgentChannels(ForAdmin(a, h), D, OwnOf(a, c)) \cap channelsFor(c, ChatId, c.users, internal) # {}
  PROVE  IF internal THEN InternalOn(ForAdmin(a, h), "notes.read", c)
         ELSE AuthorizeConversation(ForAdmin(a, h), "messages.read", c)
<1> DEFINE p == ForAdmin(a, h)
           attrs == conversationAttrs(p, c)
<1>p. p.kind = "admin" /\ p.id = a /\ p.held = h
  BY DEF ForAdmin, Principal
<1> HIDE DEF p
<1>1. /\ attrs.kind = c.kind /\ attrs.queue = c.queue
      /\ attrs.reachable = (c.kind # "peer" /\ (c.archived \/ (~Privileged(p) /\ c.assigned)))
      /\ attrs.isMember = (HasRole(p, "requester") /\ IsActorMember(c, p.id))
  BY <1>p DEF conversationAttrs, classifyConv
<1> HIDE DEF attrs
<1>2. PICK ch \in AgentChannels(p, D, OwnOf(a, c)) : ch \in channelsFor(c, ChatId, c.users, internal)
  BY DEF p
<1>s. Scoped(p, "conversations.list")
  BY <1>2, ChannelsAre
<1>m. holds(p, "messages.read") /\ "messages.read" \in ConversationActions
  BY <1>s, <1>p, HoldsFacts DEF Scoped, ConversationActions
\* by a channel of the operators
<1>3. CASE ch \in Observers(c)
  <2>1. operates(p, attrs) /\ (QueuesOf(p) # {} \/ PeerAccess(p))
    <3>1. CASE c.kind = "peer"
      <4>1. ch = PeerChannel
        BY <1>3, <3>1 DEF Observers, classifyConv
      <4>2. \A q : operators(q) # PeerChannel
        BY ChannelFacts DEF operators
      <4>3. ~RequesterOnly(p) /\ PeerAccess(p)
        BY <1>2, <4>1, <4>2, ChannelsAre, ChannelFacts
      <4> QED
        BY <4>3, <3>1, <1>1 DEF operates
    <3>2. CASE c.kind # "peer"
      <4>1. ch = operators(c.queue) /\ (c.archived \/ c.assigned)
        BY <1>3, <3>2 DEF Observers, classifyConv
      <4>2. \A x : operators(c.queue) # UserChannel(x) /\ operators(c.queue) # ConvChannel(x)
                   /\ operators(c.queue) # PeerChannel
        BY ChannelFacts DEF operators
      <4>3. \E q \in Worked(p, D) : ch = operators(q)
        BY <1>2, <4>1, <4>2, ChannelsAre
      <4>4. c.queue \in Worked(p, D)
        BY <4>1, <4>3, OperatorsInjective
      <4>5. ~RequesterOnly(p) /\ c.queue \in QueuesOf(p)
        BY <4>4 DEF Worked
      <4> QED
        BY <4>1, <4>5, <3>2, <1>1 DEF operates, ReachesQueue
    <3> QED
      BY <3>1, <3>2
  <2>2. holds(p, "notes.read")
    BY <2>1, <1>p, OperatorHolds, HoldsFacts
  <2> QED
    BY <2>1, <2>2, <1>m, <1>p
       DEF p, attrs, InternalOn, Internal, AuthorizeConversation, Authorize, authorizeConversation
\* by the channel of an own request
<1>4. CASE ch \notin Observers(c)
  <2>1. ~internal /\ (ch = ConvChannel(ChatId) \/ \E u \in c.users : ch = UserChannel(u))
    BY <1>2, <1>4 DEF channelsFor
  <2>2. a \notin c.users
    BY CrewAssumption DEF ChatRow
  <2>3. ch = ConvChannel(ChatId)
    <3>1. ASSUME NEW u \in c.users, ch = UserChannel(u) PROVE FALSE
      <4>1. \A q : operators(q) # UserChannel(u)
        BY ChannelFacts DEF operators
      <4> QED
        BY <3>1, <4>1, <2>2, <1>2, <1>p, ChannelsAre, ChannelFacts
    <3> QED
      BY <2>1, <3>1
  <2>4. PICK d \in Followed(p, OwnOf(a, c)) : ch = ConvChannel(d.id)
    <3>1. \A q : operators(q) # ConvChannel(ChatId)
      BY ChannelFacts DEF operators
    <3> QED
      BY <2>3, <3>1, <1>2, ChannelsAre, ChannelFacts
  <2>5. /\ HasRole(p, "requester") /\ c.kind # "peer" /\ RequesterReaches(p, c.queue)
        /\ IsActorMember(c, p.id)
    BY <2>4, <1>p DEF Followed, OwnOf, IsActorMember
  <2>6. ownRequest(p, "messages.read", attrs)
    BY <2>5, <1>1, CapabilityFacts DEF ownRequest, EveryTalker
  <2> QED
    BY <2>1, <2>6, <1>m, <1>p DEF p, attrs, AuthorizeConversation, Authorize, authorizeConversation
<1> QED
  BY <1>3, <1>4

-----------------------------------------------------------------------------
(* The team's inductive invariant.  Of a member whom at most one request   *)
(* touches, the socket has the channels of the roles the request found:    *)
(* the roles of now before the write, those of before after it; a queue or *)
(* a request that was just added may be missing until the request is over. *)

CallRow ==
    [op : {"idle", "role", "connect", "queue", "open"}, pc : {"start", "write", "after", "apply", "load"},
     who : Crew, how : {"add", "rescope", "remove"}, role : PlatformRoles, scope : RoleScope,
     queue : Queues, before : HeldRoles, after : HeldRoles]

TeamTypes ==
    /\ roles \in [Crew -> HeldRoles] /\ hired \in SUBSET Crew
    /\ defined \in SUBSET (Queues \ {QueueSupport}) /\ chat \in ChatRow
    /\ DOMAIN socket = Crew /\ socket = [a \in Crew |-> socket[a]]
    /\ call \in [Calls -> CallRow] /\ calls \in Nat
    /\ mixed \in SUBSET Crew /\ kept \in SUBSET Crew

\* only members hold roles, have sockets and are named by the requests that need one
MembersOnly ==
    /\ \A a \in Crew \ hired : roles[a] = NoRoles /\ socket[a] = Off
    /\ \A k \in Calls : call[k].op \in {"role", "connect"} => call[k].who \in hired

TeamBase == TeamTypes /\ MembersOnly /\ KeepsAnOwner /\ OwnAssigned(chat)

Extra(a) == IF a \in kept THEN {ConvChannel(ChatId)} ELSE {}

\* an open socket has the channels low, and none but high
Tracks(a, low, high) == socket[a] # Off => low \subseteq socket[a] /\ socket[a] \ high \subseteq Extra(a)

Of(a, h) == ChannelsNow(ForAdmin(a, h))

CallHolds(a, c) ==
    /\ c.op = "role" => /\ c.pc \in {"write", "after", "apply"}
                        /\ c.pc = "write" => c.before = roles[a]
                        /\ c.pc = "apply" => c.after = roles[a]
                        /\ Tracks(a, Of(a, c.before), Of(a, c.before))
    /\ c.op = "connect" => c.before = roles[a] /\ socket[a] = Off
    /\ c.op = "queue" => /\ c.queue \in defined
                         /\ Tracks(a, AgentChannels(held(a), defined \ {c.queue}, ownChats(a)), Of(a, roles[a]))
    /\ c.op = "open" => Tracks(a, Of(a, roles[a]) \ {ConvChannel(ChatId)}, Of(a, roles[a]))

Alone(a) == \A k, l \in Calls : a \in Touches(call[k]) /\ a \in Touches(call[l]) => k = l
Quiet(a) == \A k \in Calls : a \notin Touches(call[k])

MemberHolds(a) ==
    a \notin mixed =>
        /\ Alone(a)
        /\ \A k \in Calls : a \in Touches(call[k]) => CallHolds(a, call[k])
        /\ Quiet(a) => Tracks(a, Of(a, roles[a]), Of(a, roles[a]))

TeamInd == TeamBase /\ \A a \in Crew : MemberHolds(a)

LEMMA NoCallTyped ==
  ASSUME Crew # {}
  PROVE  NoCall \in CallRow /\ NoCall.op = "idle" /\ Touches(NoCall) = {}
<1>1. (CHOOSE a \in Crew : TRUE) \in Crew
  OBVIOUS
<1>2. NoCall \in CallRow /\ NoCall.op = "idle"
  BY <1>1, NoScopeTyped, NoRolesHeld, QueuesAssumption
     DEF NoCall, CallRow, PlatformRoles, QueueSupport
<1> QED
  BY <1>2 DEF Touches

LEMMA TouchesFacts ==
  ASSUME NEW c \in CallRow
  PROVE  /\ Touches(c) \subseteq Crew
         /\ c.op = "idle" => Touches(c) = {}
         /\ c.op = "queue" => Touches(c) = Crew
         /\ c.op \in {"role", "connect", "open"} => Touches(c) = {c.who}
         /\ c.op \in {"idle", "role", "connect", "queue", "open"} /\ c.who \in Crew
BY DEF Touches, CallRow

LEMMA TeamBaseFacts ==
  ASSUME TeamBase
  PROVE  /\ Crew # {} /\ TeamTypes /\ MembersOnly /\ NoCall \in CallRow /\ NoCall.op = "idle" /\ Touches(NoCall) = {}
         /\ \A k \in Calls : call[k] \in CallRow
         /\ \A a \in Crew : roles[a] \in HeldRoles
<1>1. Crew # {}
  BY DEF TeamBase, KeepsAnOwner
<1> QED
  BY <1>1, NoCallTyped DEF TeamBase, TeamTypes

LEMMA TeamBaseInit == TeamInit => TeamBase
<1> SUFFICES ASSUME TeamInit PROVE TeamBase
  OBVIOUS
<1>1. PICK s \in TeamSeeds : roles = s.roles /\ hired = s.hired /\ defined = s.defined /\ chat = s.chat
  BY DEF TeamInit
<1>2. /\ s.roles = [a \in Crew |-> s.roles[a]] /\ s.hired \subseteq Crew
      /\ \A a \in Crew : RolesTyped(s.roles[a]) /\ (a \notin s.hired => DOMAIN s.roles[a] = {})
      /\ \E a \in Crew : "owner" \in DOMAIN s.roles[a]
      /\ s.defined \subseteq Queues \ {QueueSupport}
      /\ s.chat \in ChatRow /\ OwnAssigned(s.chat)
  BY CrewAssumption DEF OwnAssigned
<1>3. Crew # {}
  BY <1>2
<1>4. roles \in [Crew -> HeldRoles]
  <2>1. \A a \in Crew : s.roles[a] \in HeldRoles
    BY <1>2, TypedHeld
  <2>2. [a \in Crew |-> s.roles[a]] \in [Crew -> HeldRoles]
    BY <2>1
  <2> QED
    BY <2>2, <1>1, <1>2
<1>5. TeamTypes
  BY <1>1, <1>2, <1>3, <1>4, NoCallTyped DEF TeamInit, TeamTypes
<1>6. \A a \in Crew \ hired : roles[a] = NoRoles
  <2> SUFFICES ASSUME NEW a \in Crew \ hired PROVE roles[a] = NoRoles
    OBVIOUS
  <2>1. RolesTyped(roles[a]) /\ DOMAIN roles[a] = {}
    BY <1>1, <1>2
  <2>2. roles[a] \in [{} -> RoleScope] /\ NoRoles \in [{} -> RoleScope]
    BY <2>1 DEF RolesTyped, NoRoles
  <2> QED
    BY <2>2
<1>7. MembersOnly
  BY <1>3, <1>6, NoCallTyped DEF TeamInit, MembersOnly
<1>8. KeepsAnOwner /\ OwnAssigned(chat)
  BY <1>1, <1>2 DEF KeepsAnOwner, Holding
<1> QED
  BY <1>5, <1>7, <1>8 DEF TeamBase

\* whoever is allowed something is a member
LEMMA HoldsHired ==
  ASSUME TeamBase, NEW a \in Crew, NEW act, holds(held(a), act)
  PROVE  a \in hired
<1>1. \E r \in DOMAIN roles[a] : TRUE
  BY DEF holds, held, ForAdmin, Principal
<1>2. a \notin hired => DOMAIN roles[a] = {}
  BY NoRolesHeld DEF TeamBase, MembersOnly
<1> QED
  BY <1>1, <1>2

\* no role changes hands
LEMMA TeamKeeps ==
  ASSUME TeamBase, UNCHANGED <<hired, roles>>,
         defined' \in SUBSET (Queues \ {QueueSupport}), chat' \in ChatRow, OwnAssigned(chat'),
         socket' = [a \in Crew |-> socket'[a]], \A a \in Crew \ hired : socket'[a] = Off,
         call' \in [Calls -> CallRow],
         \A k \in Calls : call'[k].op \in {"role", "connect"} => call'[k].who \in hired,
         calls' \in Nat, mixed' \in SUBSET Crew, kept' \in SUBSET Crew
  PROVE  TeamBase'
<1>1. TeamTypes'
  BY DEF TeamBase, TeamTypes
<1>2. MembersOnly'
  BY DEF TeamBase, MembersOnly
<1>3. KeepsAnOwner' /\ OwnAssigned(chat)'
  BY DEF TeamBase, KeepsAnOwner, Holding, OwnAssigned
<1> QED
  BY <1>1, <1>2, <1>3 DEF TeamBase

LEMMA EnterKeeps ==
  ASSUME TeamBase, NEW k \in Calls, NEW c \in CallRow, Enter(k, c),
         c.op \in {"role", "connect"} => c.who \in hired,
         UNCHANGED <<hired, roles, socket, kept>>,
         defined' \in SUBSET (Queues \ {QueueSupport}), chat' \in ChatRow, OwnAssigned(chat')
  PROVE  TeamBase'
<1>1. call' = [call EXCEPT ![k] = c] /\ calls' = calls + 1 /\ mixed' = mixed \cup Overlap(k, c)
  BY DEF Enter
<1>2. call' \in [Calls -> CallRow] /\ \A o \in Calls : call'[o] = IF o = k THEN c ELSE call[o]
  BY <1>1 DEF TeamBase, TeamTypes
<1>3. Overlap(k, c) \subseteq Crew
  BY TouchesFacts DEF Overlap
<1>4. calls' \in Nat /\ mixed' \in SUBSET Crew /\ kept' \in SUBSET Crew
  BY <1>1, <1>3 DEF TeamBase, TeamTypes
<1>5. \A o \in Calls : call'[o].op \in {"role", "connect"} => call'[o].who \in hired
  BY <1>2 DEF TeamBase, MembersOnly
<1>6. socket' = [a \in Crew |-> socket'[a]] /\ \A a \in Crew \ hired : socket'[a] = Off
  BY DEF TeamBase, TeamTypes, MembersOnly
<1> QED
  BY <1>2, <1>4, <1>5, <1>6, TeamKeeps

LEMMA LeaveKeeps ==
  ASSUME TeamBase, NEW k \in Calls, Leave(k), UNCHANGED <<hired, roles, defined, chat, calls>>,
         socket' = [a \in Crew |-> socket'[a]], \A a \in Crew \ hired : socket'[a] = Off,
         mixed' \in SUBSET Crew, kept' \in SUBSET Crew
  PROVE  TeamBase'
<1>1. call' \in [Calls -> CallRow] /\ \A o \in Calls : call'[o] = IF o = k THEN NoCall ELSE call[o]
  BY TeamBaseFacts DEF Leave, TeamTypes
<1>2. \A o \in Calls : call'[o].op \in {"role", "connect"} => call'[o].who \in hired
  BY <1>1, TeamBaseFacts DEF MembersOnly
<1>3. chat' \in ChatRow /\ OwnAssigned(chat') /\ defined' \in SUBSET (Queues \ {QueueSupport}) /\ calls' \in Nat
  BY DEF TeamBase, TeamTypes
<1> QED
  BY <1>1, <1>2, <1>3, TeamKeeps

LEMMA SubKeeps ==
  ASSUME TeamBase, NEW a \in Crew, NEW add, NEW drop, Sub(a, add, drop)
  PROVE  /\ socket' = [b \in Crew |-> socket'[b]]
         /\ \A b \in Crew \ hired : socket'[b] = Off
         /\ \A b \in Crew \ {a} : socket'[b] = socket[b]
         /\ socket'[a] = IF socket[a] = Off THEN socket[a] ELSE (socket[a] \cup add) \ drop
<1>1. socket = [b \in Crew |-> socket[b]]
  BY DEF TeamBase, TeamTypes
<1>2. CASE socket[a] = Off
  BY <1>1, <1>2 DEF Sub, TeamBase, MembersOnly
<1>3. CASE socket[a] # Off
  <2>1. socket' = [b \in Crew |-> IF b = a THEN (socket[a] \cup add) \ drop ELSE socket[b]]
    BY <1>1, <1>3 DEF Sub
  <2> QED
    BY <2>1, <1>3 DEF TeamBase, MembersOnly
<1> QED
  BY <1>2, <1>3

\* the requests as they begin
RoleCall(a, how, r, s, h) ==
    [NoCall EXCEPT !.op = "role", !.pc = "write", !.who = a, !.how = how,
                   !.role = r, !.scope = s, !.before = h]
RemoveCall(a, r, h) ==
    [NoCall EXCEPT !.op = "role", !.pc = "write", !.who = a, !.how = "remove", !.role = r, !.before = h]
ConnectCall(a, h) == [NoCall EXCEPT !.op = "connect", !.pc = "load", !.who = a, !.before = h]
QueueCall(q) == [NoCall EXCEPT !.op = "queue", !.pc = "apply", !.queue = q]
OpenCall(a) == [NoCall EXCEPT !.op = "open", !.pc = "apply", !.who = a]

LEMMA CallsTyped ==
  ASSUME NEW a \in Crew, NEW how \in {"add", "rescope"}, NEW r \in PlatformRoles, NEW s \in RoleScope,
         NEW h \in HeldRoles, NEW q \in Queues
  PROVE  /\ LET c == RoleCall(a, how, r, s, h) IN
              c \in CallRow /\ c.op = "role" /\ c.pc = "write" /\ c.who = a /\ c.before = h
         /\ LET c == RemoveCall(a, r, h) IN
              c \in CallRow /\ c.op = "role" /\ c.pc = "write" /\ c.who = a /\ c.before = h
         /\ LET c == ConnectCall(a, h) IN
              c \in CallRow /\ c.op = "connect" /\ c.who = a /\ c.before = h
         /\ LET c == QueueCall(q) IN c \in CallRow /\ c.op = "queue" /\ c.queue = q
         /\ LET c == OpenCall(a) IN c \in CallRow /\ c.op = "open" /\ c.who = a
<1>1. PICK n \in CallRow : n = NoCall
  BY NoCallTyped
<1>2. LET c == RoleCall(a, how, r, s, h) IN
        c \in CallRow /\ c.op = "role" /\ c.pc = "write" /\ c.who = a /\ c.before = h
  BY <1>1 DEF RoleCall, CallRow
<1>3. LET c == RemoveCall(a, r, h) IN
        c \in CallRow /\ c.op = "role" /\ c.pc = "write" /\ c.who = a /\ c.before = h
  BY <1>1 DEF RemoveCall, CallRow
<1>4. LET c == ConnectCall(a, h) IN c \in CallRow /\ c.op = "connect" /\ c.who = a /\ c.before = h
  BY <1>1 DEF ConnectCall, CallRow
<1>5. LET c == QueueCall(q) IN c \in CallRow /\ c.op = "queue" /\ c.queue = q
  BY <1>1 DEF QueueCall, CallRow
<1>6. LET c == OpenCall(a) IN c \in CallRow /\ c.op = "open" /\ c.who = a
  BY <1>1 DEF OpenCall, CallRow
<1> QED
  BY <1>2, <1>3, <1>4, <1>5, <1>6

\* nothing of the member's changes, and no request that touches them
LEMMA MemberStays ==
  ASSUME NEW a \in Crew, MemberHolds(a),
         \A k \in Calls : a \in Touches(call[k]) \/ a \in Touches(call'[k]) => call'[k] = call[k],
         roles'[a] = roles[a], socket'[a] = socket[a], defined' = defined,
         \A h, D : AgentChannels(ForAdmin(a, h), D, ownChats(a)') = AgentChannels(ForAdmin(a, h), D, ownChats(a)),
         a \in kept' <=> a \in kept, a \in mixed => a \in mixed'
  PROVE  MemberHolds(a)'
<1> SUFFICES ASSUME a \notin mixed' PROVE MemberHolds(a)'
  BY DEF MemberHolds
<1>1. /\ Alone(a)
      /\ \A k \in Calls : a \in Touches(call[k]) => CallHolds(a, call[k])
      /\ Quiet(a) => Tracks(a, Of(a, roles[a]), Of(a, roles[a]))
  BY DEF MemberHolds
<1>t. \A k \in Calls : a \in Touches(call[k]) <=> a \in Touches(call[k])'
  BY DEF Touches
<1>2. \A h : Of(a, h)' = Of(a, h)
  BY DEF Of, ChannelsNow, ForAdmin, Principal
<1>3. \A low, high : (socket'[a] # Off => low \subseteq socket'[a] /\ socket'[a] \ high \subseteq Extra(a)')
                       <=> Tracks(a, low, high)
  BY DEF Tracks, Extra
<1>4. Alone(a)'
  BY <1>1, <1>t DEF Alone
<1>5. ASSUME NEW k \in Calls, a \in Touches(call[k])' PROVE CallHolds(a, call[k])'
  <2>1. call'[k] = call[k] /\ CallHolds(a, call[k])
    BY <1>5, <1>1, <1>t
  <2>2. PICK c : c = call[k]
    OBVIOUS
  <2>3. call'[k] = c /\ CallHolds(a, c)
    BY <2>1, <2>2
  <2>4. AgentChannels(held(a)', defined' \ {c.queue}, ownChats(a)')
          = AgentChannels(held(a), defined \ {c.queue}, ownChats(a))
    BY DEF held
  <2>5. Of(a, roles[a])' = Of(a, roles[a])
    BY DEF Of, ChannelsNow, ForAdmin, Principal
  <2>6. Of(a, c.before)' = Of(a, c.before)
    BY <2>1, <2>2 DEF Of, ChannelsNow, ForAdmin, Principal
  <2> QED
    BY <2>3, <2>4, <2>5, <2>6, <1>3 DEF CallHolds, Tracks, Extra
<1>6. ASSUME Quiet(a)' PROVE Tracks(a, Of(a, roles[a]), Of(a, roles[a]))'
  <2>1. Quiet(a)
    BY <1>6, <1>t DEF Quiet
  <2>2. Of(a, roles[a])' = Of(a, roles[a])
    BY DEF Of, ChannelsNow, ForAdmin, Principal
  <2> QED
    BY <2>1, <2>2, <1>1 DEF Tracks, Extra
<1> QED
  BY <1>4, <1>5, <1>6 DEF MemberHolds

\* a request that touches the member begins
LEMMA MemberEnters ==
  ASSUME TeamBase, NEW a \in Crew, MemberHolds(a), NEW k \in Calls, NEW c \in CallRow, Enter(k, c), a \in Touches(c),
         Quiet(a) /\ Tracks(a, Of(a, roles[a]), Of(a, roles[a])) => CallHolds(a, call[k])'
  PROVE  MemberHolds(a)'
<1> SUFFICES ASSUME a \notin mixed' PROVE MemberHolds(a)'
  BY DEF MemberHolds
<1>1. call' = [call EXCEPT ![k] = c] /\ call[k].op = "idle" /\ mixed' = mixed \cup Overlap(k, c)
  BY DEF Enter
<1>2. Quiet(a) /\ a \notin mixed
  <2>1. a \notin Overlap(k, c) /\ a \notin mixed
    BY <1>1
  <2>2. \A o \in Calls \ {k} : a \notin Touches(call[o])
    BY <2>1 DEF Overlap
  <2>3. a \notin Touches(call[k])
    BY <1>1, TeamBaseFacts DEF Touches
  <2> QED
    BY <2>1, <2>2, <2>3 DEF Quiet
<1>3. Tracks(a, Of(a, roles[a]), Of(a, roles[a]))
  BY <1>2 DEF MemberHolds
<1>4. \A o \in Calls : call'[o] = IF o = k THEN c ELSE call[o]
  BY <1>1 DEF TeamBase, TeamTypes
<1>5. \A o \in Calls : a \in Touches(call[o])' <=> o = k
  <2>1. \A o \in Calls : Touches(call[o])' = IF o = k THEN Touches(c) ELSE Touches(call[o])
    BY <1>4 DEF Touches
  <2> QED
    BY <2>1, <1>2 DEF Quiet
<1>6. Alone(a)' /\ ~Quiet(a)'
  BY <1>5 DEF Alone, Quiet
<1> QED
  BY <1>2, <1>3, <1>5, <1>6 DEF MemberHolds

\* one that touches them moves on
LEMMA MemberMoves ==
  ASSUME TeamBase, NEW a \in Crew, MemberHolds(a), NEW k \in Calls, NEW c, call' = [call EXCEPT ![k] = c],
         a \in Touches(call[k]), a \in Touches(c), mixed' = mixed,
         Alone(a) /\ CallHolds(a, call[k]) => CallHolds(a, call[k])'
  PROVE  MemberHolds(a)'
<1> SUFFICES ASSUME a \notin mixed PROVE MemberHolds(a)'
  BY DEF MemberHolds
<1>1. Alone(a) /\ CallHolds(a, call[k])
  BY DEF MemberHolds
<1>2. \A o \in Calls : call'[o] = IF o = k THEN c ELSE call[o]
  BY DEF TeamBase, TeamTypes
<1>3. \A o \in Calls : a \in Touches(call[o])' <=> o = k
  <2>1. \A o \in Calls : Touches(call[o])' = IF o = k THEN Touches(c) ELSE Touches(call[o])
    BY <1>2 DEF Touches
  <2> QED
    BY <2>1, <1>1 DEF Alone
<1>4. Alone(a)' /\ ~Quiet(a)'
  BY <1>3 DEF Alone, Quiet
<1> QED
  BY <1>1, <1>3, <1>4 DEF MemberHolds

\* one that touches them is over
LEMMA MemberLeaves ==
  ASSUME TeamBase, NEW a \in Crew, MemberHolds(a), NEW k \in Calls, Leave(k),
         a \in Touches(call[k]), mixed' = mixed,
         CallHolds(a, call[k]) => Tracks(a, Of(a, roles[a]), Of(a, roles[a]))'
  PROVE  MemberHolds(a)'
<1> SUFFICES ASSUME a \notin mixed PROVE MemberHolds(a)'
  BY DEF MemberHolds
<1>1. Alone(a) /\ CallHolds(a, call[k])
  BY DEF MemberHolds
<1>2. \A o \in Calls : call'[o] = IF o = k THEN NoCall ELSE call[o]
  BY DEF TeamBase, TeamTypes, Leave
<1>3. \A o \in Calls : a \notin Touches(call[o])'
  <2>1. \A o \in Calls : Touches(call[o])' = IF o = k THEN Touches(NoCall) ELSE Touches(call[o])
    BY <1>2 DEF Touches
  <2> QED
    BY <2>1, <1>1, TeamBaseFacts DEF Alone
<1>4. Alone(a)'
  BY <1>3 DEF Alone
<1> QED
  BY <1>1, <1>3, <1>4 DEF MemberHolds

\* a request that does not touch the member takes a step
LEMMA OthersStay ==
  ASSUME TeamBase, NEW a \in Crew, MemberHolds(a), NEW k \in Calls, NEW c, call' = [call EXCEPT ![k] = c],
         a \notin Touches(call[k]), a \notin Touches(c),
         roles'[a] = roles[a], socket'[a] = socket[a], UNCHANGED <<defined, chat>>,
         a \in kept' <=> a \in kept, a \in mixed => a \in mixed'
  PROVE  MemberHolds(a)'
<1>1. \A o \in Calls : call'[o] = IF o = k THEN c ELSE call[o]
  BY DEF TeamBase, TeamTypes
<1>2. \A o \in Calls : a \in Touches(call[o]) \/ a \in Touches(call'[o]) => call'[o] = call[o]
  BY <1>1
<1>3. ownChats(a)' = ownChats(a)
  BY DEF ownChats
<1> QED
  BY <1>2, <1>3, MemberStays

\* a request for a role begins
LEMMA RoleBegins ==
  ASSUME TeamInd, NEW k \in Calls, NEW a \in hired, NEW c \in CallRow, Enter(k, c),
         c.op = "role", c.pc = "write", c.who = a, c.before = roles[a],
         UNCHANGED <<hired, roles, defined, chat, socket, kept>>
  PROVE  TeamInd'
<1>1. TeamBase /\ TeamTypes /\ \A b \in Crew : MemberHolds(b)
  BY DEF TeamInd, TeamBase
<1>2. TeamBase'
  <2>1. defined' \in SUBSET (Queues \ {QueueSupport}) /\ chat' \in ChatRow /\ OwnAssigned(chat')
    BY <1>1 DEF TeamBase, TeamTypes
  <2> QED
    BY <2>1, <1>1, EnterKeeps
<1>3. Touches(c) = {a} /\ a \in Crew
  BY <1>1, TouchesFacts DEF TeamTypes
<1>4. call' = [call EXCEPT ![k] = c] /\ call[k].op = "idle" /\ mixed' = mixed \cup Overlap(k, c)
  BY DEF Enter
<1>5. ASSUME NEW b \in Crew PROVE MemberHolds(b)'
  <2>1. CASE b = a
    <3>1. call'[k] = c
      BY <1>1, <1>4 DEF TeamTypes
    <3>2. Of(a, roles[a])' = Of(a, roles[a]) /\ Of(a, call[k].before)' = Of(a, roles[a])
      BY <3>1 DEF Of, ChannelsNow, ownChats
    <3>3. Tracks(a, Of(a, roles[a]), Of(a, roles[a])) => CallHolds(a, call[k])'
      BY <3>1, <3>2 DEF CallHolds, Tracks, Extra
    <3> QED
      BY <2>1, <3>3, <1>1, <1>3, MemberEnters
  <2>2. CASE b # a
    <3>1. b \notin Touches(call[k]) /\ b \notin Touches(c)
      BY <2>2, <1>3, <1>4 DEF Touches
    <3> QED
      BY <3>1, <1>1, <1>4, OthersStay
  <2> QED
    BY <2>1, <2>2
<1> QED
  BY <1>2, <1>5 DEF TeamInd

LEMMA PutAssignmentStep ==
  ASSUME TeamInd, NEW k \in Calls, putAssignment(k)
  PROVE  TeamInd'
<1>1. PICK a \in hired, g \in Grant, how \in {"add", "rescope"} :
         Enter(k, RoleCall(a, how, g[1], g[2], roles[a]))
  BY DEF putAssignment, RoleCall
<1>2. a \in Crew /\ roles[a] \in HeldRoles /\ g[1] \in PlatformRoles /\ g[2] \in RoleScope
  BY CrewAssumption DEF TeamInd, TeamBase, TeamTypes
<1>3. PICK c : c = RoleCall(a, how, g[1], g[2], roles[a])
  OBVIOUS
<1>4. c \in CallRow /\ c.op = "role" /\ c.pc = "write" /\ c.who = a /\ c.before = roles[a]
  BY <1>2, <1>3, CallsTyped, QueuesAssumption
<1>5. UNCHANGED <<hired, roles, defined, chat, socket, kept>>
  BY DEF putAssignment
<1> QED
  BY <1>1, <1>3, <1>4, <1>5, RoleBegins

LEMMA RemoveRoleStep ==
  ASSUME TeamInd, NEW k \in Calls, removeRole(k)
  PROVE  TeamInd'
<1>1. PICK a \in Crew : \E r \in DOMAIN roles[a] : Enter(k, RemoveCall(a, r, roles[a]))
  BY DEF removeRole, RemoveCall
<1>2. PICK r \in DOMAIN roles[a] : Enter(k, RemoveCall(a, r, roles[a]))
  BY <1>1
<1>3. roles[a] \in HeldRoles /\ r \in PlatformRoles
  BY HeldTyped DEF TeamInd, TeamBase, TeamTypes, RolesTyped
<1>4. a \in hired
  BY NoRolesHeld DEF TeamInd, TeamBase, MembersOnly
<1>5. PICK c : c = RemoveCall(a, r, roles[a])
  OBVIOUS
<1>6. c \in CallRow /\ c.op = "role" /\ c.pc = "write" /\ c.who = a /\ c.before = roles[a]
  BY <1>3, <1>5, CallsTyped, QueuesAssumption, NoScopeTyped
<1>7. UNCHANGED <<hired, roles, defined, chat, socket, kept>>
  BY DEF removeRole
<1> QED
  BY <1>2, <1>4, <1>5, <1>6, <1>7, RoleBegins

\* the tenant keeps an owner, whatever is written
LEMMA RolesWritten ==
  ASSUME TeamBase, NEW c \in CallRow, c.who \in hired,
         IF c.how = "remove" THEN Delete(c) ELSE writeAssignment(c)
  PROVE  /\ roles' \in [Crew -> HeldRoles] /\ KeepsAnOwner'
         /\ \A b \in Crew \ {c.who} : roles'[b] = roles[b]
<1> DEFINE a == c.who
           gone == [r \in DOMAIN roles[a] \ {c.role} |-> roles[a][r]]
           given == [r \in DOMAIN roles[a] \cup {c.role} |-> IF r = c.role THEN c.scope ELSE roles[a][r]]
<1>1. roles \in [Crew -> HeldRoles] /\ a \in Crew /\ c.role \in PlatformRoles /\ c.scope \in RoleScope
  BY DEF TeamBase, TeamTypes, CallRow
<1>2. DOMAIN roles[a] \subseteq PlatformRoles /\ roles[a] \in [DOMAIN roles[a] -> RoleScope]
  BY <1>1, HeldTyped DEF RolesTyped
<1>3. gone \in HeldRoles /\ DOMAIN gone = DOMAIN roles[a] \ {c.role}
  <2>1. gone \in [DOMAIN roles[a] \ {c.role} -> RoleScope]
    BY <1>2
  <2>2. DOMAIN roles[a] \ {c.role} \in SUBSET PlatformRoles
    BY <1>2
  <2> QED
    BY <2>1, <2>2, HeldIntro
<1>4. given \in HeldRoles /\ DOMAIN roles[a] \subseteq DOMAIN given
  <2>1. given \in [DOMAIN roles[a] \cup {c.role} -> RoleScope]
    BY <1>1, <1>2
  <2>2. DOMAIN roles[a] \cup {c.role} \in SUBSET PlatformRoles
    BY <1>1, <1>2
  <2> QED
    BY <2>1, <2>2, HeldIntro
<1>5. CASE c.how = "remove"
  <2>1. roles' = [roles EXCEPT ![a] = gone] /\ (c.role = "owner" => OtherOwner(a))
    BY <1>5 DEF Delete
  <2> HIDE DEF gone
  <2>2. roles' \in [Crew -> HeldRoles] /\ roles'[a] = gone /\ \A b \in Crew \ {a} : roles'[b] = roles[b]
    BY <2>1, <1>1, <1>3
  <2>3. KeepsAnOwner'
    <3>1. CASE c.role = "owner"
      <4>1. PICK b \in Crew \ {a} : "owner" \in DOMAIN roles[b]
        BY <3>1, <2>1 DEF OtherOwner, Holding
      <4> QED
        BY <4>1, <2>2 DEF KeepsAnOwner, Holding
    <3>2. CASE c.role # "owner"
      <4>1. PICK b \in Crew : "owner" \in DOMAIN roles[b]
        BY DEF TeamBase, KeepsAnOwner, Holding
      <4>2. "owner" \in DOMAIN roles'[b]
        BY <4>1, <3>2, <2>2, <1>3
      <4> QED
        BY <4>2 DEF KeepsAnOwner, Holding
    <3> QED
      BY <3>1, <3>2
  <2> QED
    BY <2>2, <2>3
<1>6. CASE c.how # "remove"
  <2>1. roles' = [roles EXCEPT ![a] = given]
    BY <1>6 DEF writeAssignment, Create, Rescope, Given
  <2> HIDE DEF given
  <2>2. roles' \in [Crew -> HeldRoles] /\ roles'[a] = given /\ \A b \in Crew \ {a} : roles'[b] = roles[b]
    BY <2>1, <1>1, <1>4
  <2>3. PICK b \in Crew : "owner" \in DOMAIN roles[b]
    BY DEF TeamBase, KeepsAnOwner, Holding
  <2>4. "owner" \in DOMAIN roles'[b]
    BY <2>2, <2>3, <1>4
  <2> QED
    BY <2>2, <2>4 DEF KeepsAnOwner, Holding
<1> QED
  BY <1>5, <1>6

LEMMA WriteRoleStep ==
  ASSUME TeamInd, NEW k \in Calls, WriteRole(k)
  PROVE  TeamInd'
<1>1. TeamBase /\ TeamTypes /\ MembersOnly /\ \A b \in Crew : MemberHolds(b)
  BY DEF TeamInd, TeamBase
<1>2. PICK c \in CallRow : c = call[k]
  BY <1>1 DEF TeamTypes
<1>3. c.op = "role" /\ c.pc = "write" /\ UNCHANGED <<hired, defined, chat, socket, calls, mixed, kept>>
  BY <1>2 DEF WriteRole
<1>4. c.who \in hired /\ c.who \in Crew /\ Touches(c) = {c.who}
  BY <1>1, <1>2, <1>3, TouchesFacts DEF MembersOnly
<1>5. CASE (IF c.how = "remove" THEN Delete(c) ELSE writeAssignment(c)) /\ call' = [call EXCEPT ![k].pc = "after"]
  <2> DEFINE d == [c EXCEPT !.pc = "after"]
  <2>1. d \in CallRow /\ d.op = "role" /\ d.pc = "after" /\ d.who = c.who /\ d.before = c.before
    BY <1>3 DEF CallRow
  <2>2. call' = [call EXCEPT ![k] = d]
    BY <1>1, <1>2, <1>5 DEF TeamTypes
  <2> HIDE DEF d
  <2>3. /\ roles' \in [Crew -> HeldRoles] /\ KeepsAnOwner'
        /\ \A b \in Crew \ {c.who} : roles'[b] = roles[b]
    BY <1>1, <1>4, <1>5, RolesWritten
  <2>4. call' \in [Calls -> CallRow] /\ \A o \in Calls : call'[o] = IF o = k THEN d ELSE call[o]
    BY <2>1, <2>2, <1>1 DEF TeamTypes
  <2>5. TeamBase'
    <3>1. TeamTypes'
      BY <1>1, <1>3, <2>3, <2>4 DEF TeamTypes
    <3>2. MembersOnly'
      BY <1>1, <1>3, <1>4, <2>1, <2>3, <2>4 DEF MembersOnly
    <3>3. OwnAssigned(chat)'
      BY <1>1, <1>3 DEF TeamBase, OwnAssigned
    <3> QED
      BY <3>1, <3>2, <3>3, <2>3 DEF TeamBase
  <2>6. ASSUME NEW b \in Crew PROVE MemberHolds(b)'
    <3>1. CASE b = c.who
      <4>1. Touches(d) = {b} /\ call'[k] = d
        BY <2>1, <2>4, <3>1, TouchesFacts
      <4>2. Of(b, call[k].before)' = Of(b, c.before)
        BY <4>1, <2>1, <1>3 DEF Of, ChannelsNow, ownChats
      <4>3. CallHolds(b, call[k]) => CallHolds(b, call[k])'
        BY <4>1, <4>2, <2>1, <1>2, <1>3 DEF CallHolds, Tracks, Extra
      <4> QED
        BY <4>1, <4>3, <2>2, <3>1, <1>1, <1>2, <1>3, <1>4, MemberMoves
    <3>2. CASE b # c.who
      <4>1. b \notin Touches(call[k]) /\ b \notin Touches(d)
        BY <2>1, <3>2, <1>2, <1>4, TouchesFacts
      <4> QED
        BY <4>1, <2>2, <2>3, <3>2, <1>1, <1>3, OthersStay
    <3> QED
      BY <3>1, <3>2
  <2> QED
    BY <2>5, <2>6 DEF TeamInd
<1>6. CASE Leave(k) /\ UNCHANGED roles
  <2>1. TeamBase'
    <3>1. socket' = [a \in Crew |-> socket'[a]] /\ (\A a \in Crew \ hired : socket'[a] = Off)
          /\ mixed' \in SUBSET Crew /\ kept' \in SUBSET Crew
      BY <1>1, <1>3 DEF TeamTypes, MembersOnly
    <3> QED
      BY <3>1, <1>1, <1>3, <1>6, LeaveKeeps
  <2>2. ASSUME NEW b \in Crew PROVE MemberHolds(b)'
    <3>1. CASE b = c.who
      <4>1. Of(b, roles[b])' = Of(b, roles[b])
        BY <1>3, <1>6 DEF Of, ChannelsNow, ownChats
      <4>2. CallHolds(b, c) => Tracks(b, Of(b, roles[b]), Of(b, roles[b]))'
        BY <4>1, <1>3, <1>6 DEF CallHolds, Tracks, Extra
      <4> QED
        BY <4>2, <3>1, <1>1, <1>2, <1>3, <1>4, <1>6, MemberLeaves
    <3>2. CASE b # c.who
      <4>1. b \notin Touches(call[k]) /\ b \notin Touches(NoCall)
        BY <3>2, <1>1, <1>2, <1>4, TeamBaseFacts
      <4>2. call' = [call EXCEPT ![k] = NoCall]
        BY <1>6 DEF Leave
      <4> QED
        BY <4>1, <4>2, <1>1, <1>3, <1>6, OthersStay
    <3> QED
      BY <3>1, <3>2
  <2> QED
    BY <2>1, <2>2 DEF TeamInd
<1> QED
  BY <1>2, <1>5, <1>6 DEF WriteRole

LEMMA ReadAfterStep ==
  ASSUME TeamInd, NEW k \in Calls, ReadAfter(k)
  PROVE  TeamInd'
<1>1. TeamBase /\ TeamTypes /\ MembersOnly /\ \A b \in Crew : MemberHolds(b)
  BY DEF TeamInd, TeamBase
<1>2. PICK c \in CallRow : c = call[k]
  BY <1>1 DEF TeamTypes
<1>3. c.op = "role" /\ c.pc = "after" /\ UNCHANGED <<hired, roles, defined, chat, socket, calls, mixed, kept>>
  BY <1>2 DEF ReadAfter
<1>4. c.who \in hired /\ c.who \in Crew /\ Touches(c) = {c.who} /\ roles[c.who] \in HeldRoles
  BY <1>1, <1>2, <1>3, TouchesFacts DEF MembersOnly, TeamTypes
<1> DEFINE d == [c EXCEPT !.after = roles[c.who], !.pc = "apply"]
<1>5. d \in CallRow /\ d.op = "role" /\ d.pc = "apply" /\ d.who = c.who /\ d.before = c.before /\ d.after = roles[c.who]
  BY <1>3, <1>4 DEF CallRow
<1>6. call' = [call EXCEPT ![k] = d]
  BY <1>1, <1>2 DEF TeamTypes, ReadAfter
<1> HIDE DEF d
<1>7. call' \in [Calls -> CallRow] /\ \A o \in Calls : call'[o] = IF o = k THEN d ELSE call[o]
  BY <1>1, <1>5, <1>6 DEF TeamTypes
<1>8. TeamBase'
  <2>1. TeamTypes'
    BY <1>1, <1>3, <1>7 DEF TeamTypes
  <2>2. MembersOnly'
    BY <1>1, <1>3, <1>4, <1>5, <1>7 DEF MembersOnly
  <2>3. OwnAssigned(chat)' /\ KeepsAnOwner'
    BY <1>1, <1>3 DEF TeamBase, OwnAssigned, KeepsAnOwner, Holding
  <2> QED
    BY <2>1, <2>2, <2>3 DEF TeamBase
<1>9. ASSUME NEW b \in Crew PROVE MemberHolds(b)'
  <2>1. CASE b = c.who
    <3>1. Touches(d) = {b} /\ call'[k] = d
      BY <1>5, <1>7, <2>1, TouchesFacts
    <3>2. Of(b, call[k].before)' = Of(b, c.before)
      BY <3>1, <1>5, <1>3 DEF Of, ChannelsNow, ownChats
    <3>3. CallHolds(b, call[k]) => CallHolds(b, call[k])'
      BY <3>1, <3>2, <2>1, <1>5, <1>2, <1>3 DEF CallHolds, Tracks, Extra
    <3> QED
      BY <3>1, <3>3, <2>1, <1>1, <1>2, <1>3, <1>4, <1>6, MemberMoves
  <2>2. CASE b # c.who
    <3>1. b \notin Touches(call[k]) /\ b \notin Touches(d)
      BY <2>2, <1>2, <1>4, <1>5, TouchesFacts
    <3> QED
      BY <3>1, <1>1, <1>3, <1>6, OthersStay
  <2> QED
    BY <2>1, <2>2
<1> QED
  BY <1>8, <1>9 DEF TeamInd

\* a request about one member is over, and has left their socket as it should be
LEMMA RequestEnds ==
  ASSUME TeamInd, NEW k \in Calls, NEW a \in Crew, NEW c \in CallRow, c = call[k], a = c.who,
         c.op \in {"role", "connect", "open"}, Leave(k),
         UNCHANGED <<hired, roles, defined, chat, calls, mixed>>,
         socket' = [b \in Crew |-> socket'[b]], \A b \in Crew \ hired : socket'[b] = Off,
         \A b \in Crew \ {a} : socket'[b] = socket[b] /\ (b \in kept' <=> b \in kept), kept' \in SUBSET Crew,
         CallHolds(a, c) => Tracks(a, Of(a, roles[a]), Of(a, roles[a]))'
  PROVE  TeamInd'
<1>1. TeamBase /\ TeamTypes /\ \A b \in Crew : MemberHolds(b)
  BY DEF TeamInd, TeamBase
<1>2. TeamBase'
  <2>1. mixed' \in SUBSET Crew
    BY <1>1 DEF TeamTypes
  <2> QED
    BY <1>1, <2>1, LeaveKeeps
<1>3. Touches(c) = {a}
  BY TouchesFacts
<1>4. ASSUME NEW b \in Crew PROVE MemberHolds(b)'
  <2>1. CASE b = a
    BY <2>1, <1>1, <1>3, MemberLeaves
  <2>2. CASE b # a
    <3>1. b \notin Touches(call[k]) /\ b \notin Touches(NoCall)
      BY <2>2, <1>1, <1>3, TeamBaseFacts
    <3>2. call' = [call EXCEPT ![k] = NoCall]
      BY DEF Leave
    <3> QED
      BY <3>1, <3>2, <2>2, <1>1, OthersStay
  <2> QED
    BY <2>1, <2>2
<1> QED
  BY <1>2, <1>4 DEF TeamInd

LEMMA CallTyped ==
  ASSUME TeamInd, NEW k \in Calls
  PROVE  call[k] \in CallRow /\ call[k].who \in Crew
BY DEF TeamInd, TeamBase, TeamTypes, CallRow

LEMMA ReconcileStep ==
  ASSUME TeamInd, NEW k \in Calls, reconcileSubscriptions(k)
  PROVE  TeamInd'
<1>1. PICK c \in CallRow, a \in Crew : c = call[k] /\ a = c.who
  BY CallTyped
<1>2. PICK was, now : was = Of(a, c.before) /\ now = Of(a, c.after)
  OBVIOUS
<1>3. /\ c.op = "role" /\ c.pc = "apply" /\ Sub(a, now \ was, was \ now) /\ Leave(k)
      /\ UNCHANGED <<hired, roles, defined, chat, calls, mixed, kept>>
  BY <1>1, <1>2 DEF reconcileSubscriptions, Of
<1>4. TeamBase /\ kept \in SUBSET Crew
  BY DEF TeamInd, TeamBase, TeamTypes
<1>5. /\ socket' = [b \in Crew |-> socket'[b]]
      /\ \A b \in Crew \ hired : socket'[b] = Off
      /\ \A b \in Crew \ {a} : socket'[b] = socket[b]
      /\ socket'[a] = IF socket[a] = Off THEN socket[a] ELSE (socket[a] \cup (now \ was)) \ (was \ now)
  <2>1. PICK add, drop : add = now \ was /\ drop = was \ now
    OBVIOUS
  <2>2. Sub(a, add, drop)
    BY <2>1, <1>3
  <2>3. /\ socket' = [b \in Crew |-> socket'[b]]
        /\ \A b \in Crew \ hired : socket'[b] = Off
        /\ \A b \in Crew \ {a} : socket'[b] = socket[b]
        /\ socket'[a] = IF socket[a] = Off THEN socket[a] ELSE (socket[a] \cup add) \ drop
    BY <2>2, <1>4, SubKeeps
  <2> QED
    BY <2>1, <2>3
<1>6. ASSUME CallHolds(a, c) PROVE Tracks(a, Of(a, roles[a]), Of(a, roles[a]))'
  <2>1. c.after = roles[a] /\ (socket[a] # Off => was \subseteq socket[a] /\ socket[a] \ was \subseteq Extra(a))
    BY <1>6, <1>2, <1>3 DEF CallHolds, Tracks
  <2>2. Of(a, roles[a])' = now
    BY <2>1, <1>2, <1>3 DEF Of, ChannelsNow, ownChats
  <2>3. Extra(a)' = Extra(a)
    BY <1>3 DEF Extra
  <2>4. socket'[a] # Off => now \subseteq socket'[a] /\ socket'[a] \ now \subseteq Extra(a)
    BY <2>1, <1>5
  <2> QED
    BY <2>2, <2>3, <2>4 DEF Tracks
<1>7. kept' \in SUBSET Crew /\ \A b \in Crew \ {a} : socket'[b] = socket[b] /\ (b \in kept' <=> b \in kept)
  BY <1>3, <1>4, <1>5
<1>8. CallHolds(a, c) => Tracks(a, Of(a, roles[a]), Of(a, roles[a]))'
  BY <1>6
<1>9. c.op \in {"role", "connect", "open"} /\ UNCHANGED <<hired, roles, defined, chat, calls, mixed>>
  BY <1>3
<1> QED
  BY <1>1, <1>3, <1>5, <1>7, <1>8, <1>9, RequestEnds

LEMMA AgentSubscriptionsStep ==
  ASSUME TeamInd, NEW k \in Calls, agentSubscriptions(k)
  PROVE  TeamInd'
<1>1. PICK c \in CallRow, a \in Crew : c = call[k] /\ a = c.who
  BY CallTyped
<1>2. PICK subs : subs = Of(a, c.before)
  OBVIOUS
<1>3. /\ c.op = "connect" /\ Leave(k) /\ UNCHANGED <<hired, roles, defined, chat, calls, mixed, kept>>
      /\ socket' = IF subs = {} THEN socket ELSE [socket EXCEPT ![a] = subs]
  BY <1>1, <1>2 DEF agentSubscriptions, Of
<1>4. kept \in SUBSET Crew /\ socket = [b \in Crew |-> socket[b]] /\ a \in hired
      /\ \A b \in Crew \ hired : socket[b] = Off
  BY <1>1, <1>3 DEF TeamInd, TeamBase, TeamTypes, MembersOnly
<1>5. /\ socket' = [b \in Crew |-> socket'[b]]
      /\ \A b \in Crew \ hired : socket'[b] = Off
      /\ \A b \in Crew \ {a} : socket'[b] = socket[b]
      /\ socket'[a] = IF subs = {} THEN socket[a] ELSE subs
  <2>1. CASE subs = {}
    BY <2>1, <1>3, <1>4
  <2>2. CASE subs # {}
    <3>1. socket' = [b \in Crew |-> IF b = a THEN subs ELSE socket[b]]
      BY <2>2, <1>3, <1>4
    <3> QED
      BY <3>1, <2>2, <1>4
  <2> QED
    BY <2>1, <2>2
<1>6. ASSUME CallHolds(a, c) PROVE Tracks(a, Of(a, roles[a]), Of(a, roles[a]))'
  <2>1. c.before = roles[a] /\ socket[a] = Off
    BY <1>6, <1>3 DEF CallHolds
  <2>2. Of(a, roles[a])' = subs
    BY <2>1, <1>2, <1>3 DEF Of, ChannelsNow, ownChats
  <2> QED
    BY <2>1, <2>2, <1>5 DEF Tracks, Extra
<1>7. kept' \in SUBSET Crew /\ \A b \in Crew \ {a} : socket'[b] = socket[b] /\ (b \in kept' <=> b \in kept)
  BY <1>3, <1>4, <1>5
<1>8. CallHolds(a, c) => Tracks(a, Of(a, roles[a]), Of(a, roles[a]))'
  BY <1>6
<1>9. c.op \in {"role", "connect", "open"} /\ UNCHANGED <<hired, roles, defined, chat, calls, mixed>>
  BY <1>3
<1> QED
  BY <1>1, <1>3, <1>5, <1>7, <1>8, <1>9, RequestEnds

LEMMA FollowRequestStep ==
  ASSUME TeamInd, NEW k \in Calls, FollowRequest(k)
  PROVE  TeamInd'
<1>1. PICK c \in CallRow, a \in Crew : c = call[k] /\ a = c.who
  BY CallTyped
<1>2. PICK now : now = Of(a, roles[a])
  OBVIOUS
<1>3. /\ c.op = "open" /\ Leave(k) /\ UNCHANGED <<hired, roles, defined, chat, calls, mixed>>
      /\ Sub(a, {ConvChannel(ChatId)}, {})
      /\ kept' = IF socket[a] # Off /\ ConvChannel(ChatId) \notin now THEN kept \cup {a} ELSE kept
  BY <1>1, <1>2 DEF FollowRequest, Of, held
<1>4. TeamBase /\ kept' \in SUBSET Crew
  BY <1>3 DEF TeamInd, TeamBase, TeamTypes
<1>5. /\ socket' = [b \in Crew |-> socket'[b]]
      /\ \A b \in Crew \ hired : socket'[b] = Off
      /\ \A b \in Crew \ {a} : socket'[b] = socket[b]
      /\ socket'[a] = IF socket[a] = Off THEN socket[a] ELSE (socket[a] \cup {ConvChannel(ChatId)}) \ {}
  <2>1. PICK add, drop : add = {ConvChannel(ChatId)} /\ drop = {}
    OBVIOUS
  <2>2. Sub(a, add, drop)
    BY <2>1, <1>3
  <2>3. /\ socket' = [b \in Crew |-> socket'[b]]
        /\ \A b \in Crew \ hired : socket'[b] = Off
        /\ \A b \in Crew \ {a} : socket'[b] = socket[b]
        /\ socket'[a] = IF socket[a] = Off THEN socket[a] ELSE (socket[a] \cup add) \ drop
    BY <2>2, <1>4, SubKeeps
  <2> QED
    BY <2>1, <2>3
<1>6. ASSUME CallHolds(a, c) PROVE Tracks(a, Of(a, roles[a]), Of(a, roles[a]))'
  <2>1. socket[a] # Off => now \ {ConvChannel(ChatId)} \subseteq socket[a] /\ socket[a] \ now \subseteq Extra(a)
    BY <1>6, <1>2, <1>3 DEF CallHolds, Tracks
  <2>2. Of(a, roles[a])' = now
    BY <1>2, <1>3 DEF Of, ChannelsNow, ownChats
  <2>3. Extra(a) \subseteq Extra(a)' /\ (socket[a] # Off /\ ConvChannel(ChatId) \notin now => ConvChannel(ChatId) \in Extra(a)')
    BY <1>3 DEF Extra
  <2>4. socket'[a] # Off => now \subseteq socket'[a] /\ socket'[a] \ now \subseteq Extra(a)'
    BY <2>1, <2>3, <1>5
  <2> QED
    BY <2>2, <2>4 DEF Tracks
<1>7. \A b \in Crew \ {a} : socket'[b] = socket[b] /\ (b \in kept' <=> b \in kept)
  BY <1>3, <1>5
<1>8. CallHolds(a, c) => Tracks(a, Of(a, roles[a]), Of(a, roles[a]))'
  BY <1>6
<1>9. c.op \in {"role", "connect", "open"} /\ UNCHANGED <<hired, roles, defined, chat, calls, mixed>>
  BY <1>3
<1> QED
  BY <1>1, <1>3, <1>4, <1>5, <1>7, <1>8, <1>9, RequestEnds

LEMMA ConnectStep ==
  ASSUME TeamInd, NEW k \in Calls, Connect(k)
  PROVE  TeamInd'
<1>0. TeamBase /\ TeamTypes /\ \A b \in Crew : MemberHolds(b)
  BY DEF TeamInd, TeamBase
<1>1. PICK a \in Crew : /\ socket[a] = Off /\ holds(held(a), "realtime.token")
                        /\ Enter(k, ConnectCall(a, roles[a]))
  BY DEF Connect, ConnectCall
<1>2. a \in hired /\ roles[a] \in HeldRoles
  BY <1>0, <1>1, HoldsHired DEF TeamTypes
<1>3. PICK c : c = ConnectCall(a, roles[a])
  OBVIOUS
<1>4. c \in CallRow /\ c.op = "connect" /\ c.who = a /\ c.before = roles[a]
  <2>1. "add" \in {"add", "rescope"} /\ "owner" \in PlatformRoles /\ QueueSupport \in Queues
    BY QueuesAssumption DEF PlatformRoles, QueueSupport
  <2> QED
    BY <1>2, <1>3, <2>1, CallsTyped, NoScopeTyped
<1>5. UNCHANGED <<hired, roles, defined, chat, socket, kept>>
  BY DEF Connect
<1>6. Enter(k, c)
  BY <1>1, <1>3
<1>7. TeamBase'
  <2>1. defined' \in SUBSET (Queues \ {QueueSupport}) /\ chat' \in ChatRow /\ OwnAssigned(chat')
    BY <1>0, <1>5 DEF TeamBase, TeamTypes
  <2> QED
    BY <2>1, <1>0, <1>2, <1>4, <1>5, <1>6, EnterKeeps
<1>8. Touches(c) = {a}
  BY <1>4, TouchesFacts
<1>9. call' = [call EXCEPT ![k] = c] /\ call[k].op = "idle" /\ mixed' = mixed \cup Overlap(k, c)
  BY <1>6 DEF Enter
<1>10. ASSUME NEW b \in Crew PROVE MemberHolds(b)'
  <2>1. CASE b = a
    <3>1. call'[k] = c
      BY <1>0, <1>9 DEF TeamTypes
    <3>2. CallHolds(a, call[k])'
      BY <3>1, <1>1, <1>4, <1>5 DEF CallHolds
    <3> QED
      BY <2>1, <3>2, <1>0, <1>4, <1>6, <1>8, MemberEnters
  <2>2. CASE b # a
    <3>1. b \notin Touches(call[k]) /\ b \notin Touches(c)
      BY <2>2, <1>8, <1>9 DEF Touches
    <3> QED
      BY <3>1, <1>0, <1>5, <1>9, OthersStay
  <2> QED
    BY <2>1, <2>2
<1> QED
  BY <1>7, <1>10 DEF TeamInd

\* what a queue adds to the channels of a member
Added(a, q) ==
    IF AllQueues(held(a)) /\ QueueChannel(q) \in AgentChannels(held(a), {q}, {}) THEN {QueueChannel(q)} ELSE {}

LEMMA SetQueueStep ==
  ASSUME TeamInd, NEW k \in Calls, SetQueue(k)
  PROVE  TeamInd'
<1>0. TeamBase /\ TeamTypes /\ \A b \in Crew : MemberHolds(b)
  BY DEF TeamInd, TeamBase
<1>1. PICK q \in Queues \ {QueueSupport} : Enter(k, QueueCall(q)) /\ defined' = defined \cup {q}
  BY DEF SetQueue, QueueCall
<1>2. PICK c : c = QueueCall(q)
  OBVIOUS
<1>3. c \in CallRow /\ c.op = "queue" /\ c.queue = q
  <2>1. PICK a \in Crew : TRUE
    BY <1>0, TeamBaseFacts
  <2>2. "add" \in {"add", "rescope"} /\ "owner" \in PlatformRoles
    BY DEF PlatformRoles
  <2> QED
    BY <1>2, <2>1, <2>2, CallsTyped, NoScopeTyped, NoRolesHeld
<1>4. UNCHANGED <<hired, roles, chat, socket, kept>> /\ Enter(k, c)
  BY <1>1, <1>2 DEF SetQueue
<1>5. TeamBase'
  <2>1. defined' \in SUBSET (Queues \ {QueueSupport}) /\ chat' \in ChatRow /\ OwnAssigned(chat')
    BY <1>0, <1>1, <1>4 DEF TeamBase, TeamTypes
  <2> QED
    BY <2>1, <1>0, <1>3, <1>4, EnterKeeps
<1>6. Touches(c) = Crew
  BY <1>3, TouchesFacts
<1>7. ASSUME NEW a \in Crew PROVE MemberHolds(a)'
  <2>1. call'[k] = c
    BY <1>0, <1>4 DEF TeamTypes, Enter
  <2>2. ASSUME Tracks(a, Of(a, roles[a]), Of(a, roles[a])) PROVE CallHolds(a, call[k])'
    <3>1. PICK p, own : p = held(a) /\ own = ownChats(a)
      OBVIOUS
    <3>2. p = held(a)' /\ own = ownChats(a)'
      BY <3>1, <1>4 DEF held, ownChats
    <3>3. Of(a, roles[a]) = AgentChannels(p, defined, own) /\ Of(a, roles[a])' = AgentChannels(p, defined', own)
      <4>1. ForAdmin(a, roles[a]).id = a /\ ForAdmin(a, roles'[a]).id = a
        BY DEF ForAdmin, Principal
      <4>2. Of(a, roles[a]) = AgentChannels(p, defined, own)
        BY <3>1, <4>1 DEF Of, ChannelsNow, held
      <4>3. Of(a, roles[a])' = AgentChannels(p, defined', own)
        BY <3>2, <4>1 DEF Of, ChannelsNow, held
      <4> QED
        BY <4>2, <4>3
    <3>4. PICK D : D = defined'
      OBVIOUS
    <3>5. D \in SUBSET Queues /\ q \in D /\ q # QueueSupport
      BY <3>4, <1>0, <1>1 DEF TeamTypes
    <3>6. AgentChannels(p, D \ {q}, own) \subseteq AgentChannels(p, D, own)
      <4>1. AgentChannels(p, D, own) = AgentChannels(p, D \ {q}, own) \cup
               (IF AllQueues(p) /\ QueueChannel(q) \in AgentChannels(p, {q}, {}) THEN {QueueChannel(q)} ELSE {})
        BY <3>5, QueueAdds
      <4> QED
        BY <4>1
    <3>7. /\ AgentChannels(p, defined' \ {q}, own) \subseteq AgentChannels(p, defined, own)
          /\ AgentChannels(p, defined, own) \subseteq AgentChannels(p, defined', own)
      <4>1. CASE q \in defined
        <5>1. defined' = defined
          BY <4>1, <1>1
        <5> QED
          BY <5>1, <3>4, <3>6
      <4>2. CASE q \notin defined
        <5>1. defined' \ {q} = defined
          BY <4>2, <1>1
        <5> QED
          BY <5>1, <3>4, <3>6
      <4> QED
        BY <4>1, <4>2
    <3>8. /\ AgentChannels(held(a)', defined' \ {q}, ownChats(a)') = AgentChannels(p, defined' \ {q}, own)
          /\ q \in defined'
      BY <3>2, <3>4, <3>5
    <3>9. Extra(a)' = Extra(a) /\ socket' = socket
      BY <1>4 DEF Extra
    <3>10. Tracks(a, AgentChannels(held(a), defined \ {call[k].queue}, ownChats(a)), Of(a, roles[a]))'
      BY <2>1, <2>2, <3>3, <3>7, <3>8, <3>9, <1>3 DEF Tracks
    <3> QED
      BY <3>8, <3>10, <2>1, <1>3 DEF CallHolds
  <2> QED
    BY <2>2, <1>0, <1>3, <1>4, <1>6, MemberEnters
<1> QED
  BY <1>5, <1>7 DEF TeamInd

LEMMA SubscribeQueueStep ==
  ASSUME TeamInd, NEW k \in Calls, subscribeQueueOperators(k)
  PROVE  TeamInd'
<1>0. TeamBase /\ TeamTypes /\ MembersOnly /\ \A b \in Crew : MemberHolds(b)
  BY DEF TeamInd, TeamBase
<1>1. PICK c \in CallRow : c = call[k]
  BY CallTyped
<1>2. PICK q : q = c.queue
  OBVIOUS
<1>3. /\ c.op = "queue" /\ Leave(k) /\ UNCHANGED <<hired, roles, defined, chat, calls, mixed, kept>>
      /\ socket' = [a \in Crew |-> IF socket[a] # Off THEN socket[a] \cup Added(a, q) ELSE socket[a]]
  <2>1. socket' = [a \in Crew |-> IF socket[a] # Off /\ (AllQueues(held(a)) /\ QueueChannel(q) \in AgentChannels(held(a), {q}, {}))
                                  THEN socket[a] \cup {QueueChannel(q)} ELSE socket[a]]
    BY <1>1, <1>2 DEF subscribeQueueOperators
  <2>2. \A a \in Crew : (IF socket[a] # Off /\ (AllQueues(held(a)) /\ QueueChannel(q) \in AgentChannels(held(a), {q}, {}))
                           THEN socket[a] \cup {QueueChannel(q)} ELSE socket[a])
                        = IF socket[a] # Off THEN socket[a] \cup Added(a, q) ELSE socket[a]
    BY DEF Added
  <2>3. socket' = [a \in Crew |-> IF socket[a] # Off THEN socket[a] \cup Added(a, q) ELSE socket[a]]
    BY <2>1, <2>2
  <2> QED
    BY <2>3, <1>1 DEF subscribeQueueOperators
<1>4. \A a \in Crew : socket'[a] = IF socket[a] # Off THEN socket[a] \cup Added(a, q) ELSE socket[a]
  BY <1>3
<1>5. TeamBase'
  <2>1. socket' = [a \in Crew |-> socket'[a]] /\ (\A a \in Crew \ hired : socket'[a] = Off)
        /\ mixed' \in SUBSET Crew /\ kept' \in SUBSET Crew
    BY <1>0, <1>3, <1>4 DEF TeamTypes, MembersOnly
  <2> QED
    BY <2>1, <1>0, <1>3, LeaveKeeps
<1>6. ASSUME NEW a \in Crew PROVE MemberHolds(a)'
  <2>1. ASSUME CallHolds(a, c) PROVE Tracks(a, Of(a, roles[a]), Of(a, roles[a]))'
    <3>1. /\ q \in defined /\ q # QueueSupport
          /\ Tracks(a, AgentChannels(held(a), defined \ {q}, ownChats(a)), Of(a, roles[a]))
      BY <2>1, <1>0, <1>2, <1>3 DEF CallHolds, TeamTypes
    <3>2. Of(a, roles[a])' = Of(a, roles[a])
      BY <1>3 DEF Of, ChannelsNow, ownChats
    <3>3. Of(a, roles[a]) = AgentChannels(held(a), defined \ {q}, ownChats(a)) \cup Added(a, q)
      <4>1. PICK p, own, D : p = held(a) /\ own = ownChats(a) /\ D = defined
        OBVIOUS
      <4>2. D \in SUBSET Queues /\ q \in D
        BY <4>1, <3>1, <1>0 DEF TeamTypes
      <4>3. AgentChannels(p, D, own) = AgentChannels(p, D \ {q}, own) \cup
               (IF AllQueues(p) /\ QueueChannel(q) \in AgentChannels(p, {q}, {}) THEN {QueueChannel(q)} ELSE {})
        BY <4>2, <3>1, QueueAdds
      <4>4. Of(a, roles[a]) = AgentChannels(p, D, own)
        BY <4>1 DEF Of, ChannelsNow, held, ForAdmin, Principal
      <4> QED
        BY <4>1, <4>3, <4>4 DEF Added
    <3>4. Extra(a)' = Extra(a)
      BY <1>3 DEF Extra
    <3>5. PICK low, now, add : low = AgentChannels(held(a), defined \ {q}, ownChats(a))
                               /\ now = Of(a, roles[a]) /\ add = Added(a, q)
      OBVIOUS
    <3>6. now = low \cup add /\ (socket[a] # Off => low \subseteq socket[a] /\ socket[a] \ now \subseteq Extra(a))
      BY <3>1, <3>3, <3>5 DEF Tracks
    <3>7. socket'[a] # Off => now \subseteq socket'[a] /\ socket'[a] \ now \subseteq Extra(a)
      <4>1. socket'[a] = IF socket[a] # Off THEN socket[a] \cup add ELSE socket[a]
        BY <3>5, <1>4
      <4>2. CASE socket[a] = Off
        BY <4>1, <4>2
      <4>3. CASE socket[a] # Off
        BY <4>1, <4>3, <3>6
      <4> QED
        BY <4>2, <4>3
    <3> QED
      BY <3>2, <3>4, <3>5, <3>7 DEF Tracks
  <2>2. a \in Touches(call[k])
    BY <1>1, <1>3, TouchesFacts
  <2> QED
    BY <2>1, <2>2, <1>0, <1>1, <1>3, MemberLeaves
<1> QED
  BY <1>5, <1>6 DEF TeamInd

LEMMA OpenRequestStep ==
  ASSUME TeamInd, NEW k \in Calls, OpenRequest(k)
  PROVE  TeamInd'
<1>0. TeamBase /\ TeamTypes /\ \A b \in Crew : MemberHolds(b)
  BY DEF TeamInd, TeamBase
<1>1. PICK a \in Crew, q \in defined \cup {QueueSupport} :
         /\ ~Opened /\ Enter(k, OpenCall(a))
         /\ chat' = [NoChat EXCEPT !.queue = q, !.actors = {a}, !.assigned = TRUE]
  BY DEF OpenRequest, OpenCall
<1>2. PICK c : c = OpenCall(a)
  OBVIOUS
<1>3. c \in CallRow /\ c.op = "open" /\ c.who = a
  <2>1. "add" \in {"add", "rescope"} /\ "owner" \in PlatformRoles /\ QueueSupport \in Queues
    BY QueuesAssumption DEF PlatformRoles, QueueSupport
  <2> QED
    BY <1>2, <2>1, CallsTyped, NoScopeTyped, NoRolesHeld
<1>4. UNCHANGED <<hired, roles, defined, socket, kept>> /\ Enter(k, c)
  BY <1>1, <1>2 DEF OpenRequest
<1>5. chat' \in ChatRow /\ chat'.actors = {a} /\ OwnAssigned(chat') /\ chat'.queue = q /\ chat'.kind = "support"
  <2>1. q \in Queues
    BY <1>0, QueuesAssumption DEF TeamTypes, QueueSupport
  <2> QED
    BY <1>1, <2>1 DEF NoChat, ChatRow, OwnAssigned, Kinds
<1>6. TeamBase'
  <2>1. defined' \in SUBSET (Queues \ {QueueSupport})
    BY <1>0, <1>4 DEF TeamTypes
  <2> QED
    BY <2>1, <1>0, <1>3, <1>4, <1>5, EnterKeeps
<1>7. Touches(c) = {a}
  BY <1>3, TouchesFacts
<1>8. call' = [call EXCEPT ![k] = c] /\ call[k].op = "idle" /\ mixed' = mixed \cup Overlap(k, c)
  BY <1>4 DEF Enter
<1>9. \A b \in Crew : ownChats(b) = {} /\ (b # a => ownChats(b)' = {})
  BY <1>1, <1>5 DEF Opened, ownChats
<1>10. ASSUME NEW b \in Crew PROVE MemberHolds(b)'
  <2>1. CASE b = a
    <3>1. call'[k] = c
      BY <1>0, <1>8 DEF TeamTypes
    <3>2. ASSUME Tracks(a, Of(a, roles[a]), Of(a, roles[a])) PROVE CallHolds(a, call[k])'
      <4>1. PICK p, row : p = ForAdmin(a, roles[a]) /\ row = [id |-> ChatId, queue |-> q, kind |-> "support"]
        OBVIOUS
      <4>2. row.id = ChatId /\ ownChats(a)' = {row} /\ p.id = a
        BY <4>1, <1>5 DEF ownChats, ForAdmin, Principal
      <4>3. Of(a, roles[a]) = AgentChannels(p, defined, {})
        BY <4>1, <4>2, <1>9 DEF Of, ChannelsNow
      <4>4. Of(a, roles[a])' = AgentChannels(p, defined, {row})
        BY <4>1, <4>2, <1>4 DEF Of, ChannelsNow
      <4>5. PICK old, new : old = AgentChannels(p, defined, {}) /\ new = AgentChannels(p, defined, {row})
        OBVIOUS
      <4>6. old \subseteq new /\ new \ {ConvChannel(ChatId)} \subseteq old
        BY <4>2, <4>5, OwnAdds
      <4>7. socket[a] # Off => old \subseteq socket[a] /\ socket[a] \ old \subseteq Extra(a)
        BY <3>2, <4>3, <4>5 DEF Tracks
      <4>8. Extra(a)' = Extra(a) /\ socket' = socket
        BY <1>4 DEF Extra
      <4>9. socket'[a] # Off => new \ {ConvChannel(ChatId)} \subseteq socket'[a] /\ socket'[a] \ new \subseteq Extra(a)'
        BY <4>6, <4>7, <4>8
      <4>10. Tracks(a, Of(a, roles[a]) \ {ConvChannel(ChatId)}, Of(a, roles[a]))'
        BY <4>4, <4>5, <4>9 DEF Tracks
      <4> QED
        BY <4>10, <3>1, <1>3 DEF CallHolds
    <3> QED
      BY <2>1, <3>2, <1>0, <1>3, <1>4, <1>7, MemberEnters
  <2>2. CASE b # a
    <3>1. \A o \in Calls : call'[o] = IF o = k THEN c ELSE call[o]
      BY <1>0, <1>8 DEF TeamTypes
    <3>2. b \notin Touches(call[k]) /\ b \notin Touches(c)
      BY <2>2, <1>7, <1>8 DEF Touches
    <3>3. \A o \in Calls : b \in Touches(call[o]) \/ b \in Touches(call'[o]) => call'[o] = call[o]
      BY <3>1, <3>2
    <3>4. ownChats(b)' = ownChats(b)
      BY <2>2, <1>9
    <3> QED
      BY <3>3, <3>4, <1>0, <1>4, <1>8, MemberStays
  <2> QED
    BY <2>1, <2>2
<1> QED
  BY <1>6, <1>10 DEF TeamInd

LEMMA GiveUpStep ==
  ASSUME TeamInd, NEW k \in Calls, GiveUp(k)
  PROVE  TeamInd'
<1>0. TeamBase /\ TeamTypes /\ MembersOnly /\ \A b \in Crew : MemberHolds(b)
  BY DEF TeamInd, TeamBase
<1>1. /\ mixed' = mixed \cup Touches(call[k]) /\ Leave(k)
      /\ UNCHANGED <<hired, roles, defined, chat, socket, calls, kept>>
  BY DEF GiveUp
<1>2. TeamBase'
  <2>1. Touches(call[k]) \subseteq Crew
    BY CallTyped, TouchesFacts
  <2>2. socket' = [a \in Crew |-> socket'[a]] /\ (\A a \in Crew \ hired : socket'[a] = Off)
        /\ mixed' \in SUBSET Crew /\ kept' \in SUBSET Crew
    BY <1>0, <1>1, <2>1 DEF TeamTypes, MembersOnly
  <2> QED
    BY <2>2, <1>0, <1>1, LeaveKeeps
<1>3. ASSUME NEW b \in Crew PROVE MemberHolds(b)'
  <2>1. CASE b \in Touches(call[k])
    BY <2>1, <1>1 DEF MemberHolds
  <2>2. CASE b \notin Touches(call[k])
    <3>1. b \notin Touches(NoCall) /\ call' = [call EXCEPT ![k] = NoCall]
      BY <1>0, <1>1, TeamBaseFacts DEF Leave
    <3> QED
      BY <3>1, <2>2, <1>0, <1>1, OthersStay
  <2> QED
    BY <2>1, <2>2
<1> QED
  BY <1>2, <1>3 DEF TeamInd

LEMMA DisconnectStep ==
  ASSUME TeamInd, NEW a \in Crew, Disconnect(a)
  PROVE  TeamInd'
<1>0. TeamBase /\ TeamTypes /\ MembersOnly /\ \A b \in Crew : MemberHolds(b)
  BY DEF TeamInd, TeamBase
<1>1. /\ \A k \in Calls : a \notin Touches(call[k])
      /\ socket' = [socket EXCEPT ![a] = Off] /\ mixed' = mixed \ {a} /\ kept' = kept \ {a}
      /\ UNCHANGED <<hired, roles, defined, chat, call, calls>>
  BY DEF Disconnect
<1>2. socket' = [b \in Crew |-> IF b = a THEN Off ELSE socket[b]]
  BY <1>0, <1>1 DEF TeamTypes
<1>3. TeamBase'
  <2>1. socket' = [b \in Crew |-> socket'[b]] /\ (\A b \in Crew \ hired : socket'[b] = Off)
        /\ mixed' \in SUBSET Crew /\ kept' \in SUBSET Crew
    BY <1>0, <1>1, <1>2 DEF TeamTypes, MembersOnly
  <2>2. /\ defined' \in SUBSET (Queues \ {QueueSupport}) /\ chat' \in ChatRow /\ OwnAssigned(chat')
        /\ call' \in [Calls -> CallRow] /\ calls' \in Nat
        /\ \A k \in Calls : call'[k].op \in {"role", "connect"} => call'[k].who \in hired
    BY <1>0, <1>1 DEF TeamBase, TeamTypes, MembersOnly
  <2> QED
    BY <2>1, <2>2, <1>0, <1>1, TeamKeeps
<1>4. ASSUME NEW b \in Crew PROVE MemberHolds(b)'
  <2>1. CASE b = a
    <3>1. \A k \in Calls : b \notin Touches(call[k])'
      BY <2>1, <1>1 DEF Touches
    <3>2. socket'[b] = Off
      BY <2>1, <1>2
    <3> QED
      BY <3>1, <3>2 DEF MemberHolds, Alone, Tracks
  <2>2. CASE b # a
    <3>1. ownChats(b)' = ownChats(b) /\ socket'[b] = socket[b]
      BY <2>2, <1>1, <1>2 DEF ownChats
    <3> QED
      BY <3>1, <2>2, <1>0, <1>1, MemberStays
  <2> QED
    BY <2>1, <2>2
<1> QED
  BY <1>3, <1>4 DEF TeamInd

\* only the conversation's row changes, and nobody's channels with it
LEMMA ChatChanges ==
  ASSUME TeamInd, chat' \in ChatRow, OwnAssigned(chat'),
         UNCHANGED <<hired, roles, defined, socket, call, calls, mixed, kept>>,
         \A a \in Crew : \A h, D :
            AgentChannels(ForAdmin(a, h), D, ownChats(a)') = AgentChannels(ForAdmin(a, h), D, ownChats(a))
  PROVE  TeamInd'
<1>0. TeamBase /\ TeamTypes /\ MembersOnly /\ \A b \in Crew : MemberHolds(b)
  BY DEF TeamInd, TeamBase
<1>1. TeamBase'
  <2>1. /\ defined' \in SUBSET (Queues \ {QueueSupport}) /\ call' \in [Calls -> CallRow] /\ calls' \in Nat
        /\ \A k \in Calls : call'[k].op \in {"role", "connect"} => call'[k].who \in hired
        /\ socket' = [b \in Crew |-> socket'[b]] /\ (\A b \in Crew \ hired : socket'[b] = Off)
        /\ mixed' \in SUBSET Crew /\ kept' \in SUBSET Crew
    BY <1>0 DEF TeamTypes, MembersOnly
  <2> QED
    BY <2>1, <1>0, TeamKeeps
<1>2. ASSUME NEW b \in Crew PROVE MemberHolds(b)'
  BY <1>0, MemberStays
<1> QED
  BY <1>1, <1>2 DEF TeamInd

LEMMA JoinPeerStep ==
  ASSUME TeamInd, NEW a \in Crew, JoinPeer(a)
  PROVE  TeamInd'
<1>0. chat \in ChatRow
  BY DEF TeamInd, TeamBase, TeamTypes
<1>1. chat.kind = "peer" /\ chat' = [chat EXCEPT !.actors = @ \cup {a}]
      /\ UNCHANGED <<hired, roles, defined, socket, call, calls, mixed, kept>>
  BY DEF JoinPeer
<1>2. chat' \in ChatRow /\ chat'.kind = "peer" /\ chat'.queue = chat.queue
  BY <1>0, <1>1 DEF ChatRow
<1>3. OwnAssigned(chat')
  BY <1>2 DEF OwnAssigned
<1>4. ASSUME NEW b \in Crew, NEW h, NEW D
      PROVE  AgentChannels(ForAdmin(b, h), D, ownChats(b)') = AgentChannels(ForAdmin(b, h), D, ownChats(b))
  <2>1. PICK row, p : row = [id |-> ChatId, queue |-> chat.queue, kind |-> "peer"] /\ p = ForAdmin(b, h)
    OBVIOUS
  <2>2. ownChats(b) \in {{}, {row}} /\ ownChats(b)' \in {{}, {row}}
    BY <2>1, <1>1, <1>2 DEF ownChats
  <2>3. AgentChannels(p, D, {row}) = AgentChannels(p, D, {})
    <3>1. row.kind = "peer"
      BY <2>1
    <3> QED
      BY <3>1, OwnAdds
  <2> QED
    BY <2>1, <2>2, <2>3
<1> QED
  BY <1>1, <1>2, <1>3, <1>4, ChatChanges

LEMMA AssignArchiveStep ==
  ASSUME TeamInd, Assign \/ Archive
  PROVE  TeamInd'
<1>0. chat \in ChatRow /\ OwnAssigned(chat)
  BY DEF TeamInd, TeamBase, TeamTypes
<1>1. /\ \/ chat' = [chat EXCEPT !.assigned = TRUE]
         \/ chat' = [chat EXCEPT !.archived = TRUE, !.assigned = FALSE, !.snapshot = chat.users]
      /\ UNCHANGED <<hired, roles, defined, socket, call, calls, mixed, kept>>
  BY DEF Assign, Archive
<1>2. /\ chat' \in ChatRow /\ chat'.kind = chat.kind /\ chat'.queue = chat.queue /\ chat'.actors = chat.actors
      /\ chat'.assigned \/ chat'.archived
  BY <1>0, <1>1 DEF ChatRow
<1>3. OwnAssigned(chat')
  BY <1>2 DEF OwnAssigned
<1>4. \A b : ownChats(b)' = ownChats(b)
  BY <1>2 DEF ownChats
<1> QED
  BY <1>1, <1>2, <1>3, <1>4, ChatChanges

LEMMA InviteAgentStep ==
  ASSUME TeamInd, InviteAgent
  PROVE  TeamInd'
<1>0. TeamBase /\ TeamTypes /\ MembersOnly /\ \A b \in Crew : MemberHolds(b)
  BY DEF TeamInd, TeamBase
<1>1. PICK a \in Crew, g \in Grant : createMember(a, g) /\ calls' = calls + 1
         /\ UNCHANGED <<defined, chat, socket, call, mixed, kept>>
  BY DEF InviteAgent
<1>2. PICK h : h = [r \in {g[1]} |-> g[2]]
  OBVIOUS
<1>3. h \in HeldRoles
  <2>1. g[1] \in PlatformRoles /\ g[2] \in RoleScope
    BY CrewAssumption
  <2>2. {g[1]} \in SUBSET PlatformRoles /\ h \in [{g[1]} -> RoleScope]
    BY <2>1, <1>2
  <2>3. PICK R : R = {g[1]}
    OBVIOUS
  <2> QED
    BY <2>2, <2>3, HeldIntro
<1>4. a \notin hired /\ hired' = hired \cup {a} /\ roles' = [roles EXCEPT ![a] = h]
  BY <1>1, <1>2 DEF createMember
<1>5. roles' \in [Crew -> HeldRoles] /\ \A b \in Crew \ {a} : roles'[b] = roles[b]
  BY <1>0, <1>3, <1>4 DEF TeamTypes
<1>6. TeamBase'
  <2>1. TeamTypes'
    BY <1>0, <1>1, <1>4, <1>5 DEF TeamTypes
  <2>2. MembersOnly'
    BY <1>0, <1>1, <1>4, <1>5 DEF MembersOnly
  <2>3. KeepsAnOwner'
    <3>1. PICK b \in Crew : "owner" \in DOMAIN roles[b]
      BY <1>0 DEF TeamBase, KeepsAnOwner, Holding
    <3>2. b # a
      BY <3>1, <1>0, <1>4, NoRolesHeld DEF MembersOnly
    <3> QED
      BY <3>1, <3>2, <1>5 DEF KeepsAnOwner, Holding
  <2>4. OwnAssigned(chat)'
    BY <1>0, <1>1 DEF TeamBase, OwnAssigned
  <2> QED
    BY <2>1, <2>2, <2>3, <2>4 DEF TeamBase
<1>7. ASSUME NEW b \in Crew PROVE MemberHolds(b)'
  <2>1. CASE b = a
    <3>1. socket'[a] = Off /\ \A lo, hi : socket'[a] # Off => lo \subseteq socket'[a] /\ socket'[a] \ hi \subseteq Extra(a)'
      BY <1>0, <1>1, <1>4 DEF MembersOnly
    <3>2. ASSUME a \notin mixed' PROVE Alone(a)'
      BY <3>2, <1>0, <1>1 DEF MemberHolds, Alone, Touches
    <3>3. ASSUME a \notin mixed', NEW k \in Calls, a \in Touches(call[k])' PROVE CallHolds(a, call[k])'
      <4>1. PICK c \in CallRow : c = call[k]
        BY <1>0 DEF TeamTypes
      <4>2. call'[k] = c /\ a \in Touches(c)
        BY <4>1, <3>3, <1>1 DEF Touches
      <4>3. c.op \notin {"role", "connect"}
        BY <4>1, <4>2, <1>0, <1>4, TouchesFacts DEF MembersOnly
      <4>4. c.op = "queue" => c.queue \in defined
        BY <4>1, <4>2, <3>3, <1>0, <1>1 DEF MemberHolds, CallHolds
      <4> QED
        BY <4>2, <4>3, <4>4, <3>1, <1>1 DEF CallHolds, Tracks
    <3> QED
      BY <2>1, <3>1, <3>2, <3>3 DEF MemberHolds, Tracks
  <2>2. CASE b # a
    <3>1. roles'[b] = roles[b] /\ ownChats(b)' = ownChats(b)
      BY <2>2, <1>1, <1>5 DEF ownChats
    <3> QED
      BY <3>1, <1>0, <1>1, MemberStays
  <2> QED
    BY <2>1, <2>2
<1> QED
  BY <1>6, <1>7 DEF TeamInd

LEMMA TeamIndInit == TeamInit => TeamInd
<1> SUFFICES ASSUME TeamInit PROVE TeamInd
  OBVIOUS
<1>1. TeamBase
  BY TeamBaseInit
<1>2. \A a \in Crew : socket[a] = Off
  BY DEF TeamInit
<1>3. \A k \in Calls : Touches(call[k]) = {}
  <2>1. \A k \in Calls : call[k] = NoCall
    BY DEF TeamInit
  <2> QED
    BY <2>1, <1>1, TeamBaseFacts
<1>4. ASSUME NEW a \in Crew PROVE MemberHolds(a)
  BY <1>2, <1>3 DEF MemberHolds, Alone, Tracks
<1> QED
  BY <1>1, <1>4 DEF TeamInd

LEMMA TeamIndStep == TeamInd /\ [TeamNext]_teamVars => TeamInd'
<1> SUFFICES ASSUME TeamInd, [TeamNext]_teamVars PROVE TeamInd'
  OBVIOUS
<1>1. ASSUME NEW k \in Calls,
             \/ putAssignment(k) \/ removeRole(k) \/ WriteRole(k) \/ ReadAfter(k)
             \/ reconcileSubscriptions(k) \/ Connect(k) \/ agentSubscriptions(k)
             \/ SetQueue(k) \/ subscribeQueueOperators(k)
             \/ OpenRequest(k) \/ FollowRequest(k) \/ GiveUp(k)
      PROVE  TeamInd'
  BY <1>1, PutAssignmentStep, RemoveRoleStep, WriteRoleStep, ReadAfterStep, ReconcileStep, ConnectStep,
     AgentSubscriptionsStep, SetQueueStep, SubscribeQueueStep, OpenRequestStep, FollowRequestStep, GiveUpStep
<1>2. ASSUME NEW a \in Crew, Disconnect(a) \/ JoinPeer(a) PROVE TeamInd'
  BY <1>2, DisconnectStep, JoinPeerStep
<1>3. CASE InviteAgent \/ Assign \/ Archive
  BY <1>3, InviteAgentStep, AssignArchiveStep
<1>4. CASE UNCHANGED teamVars
  <2>1. UNCHANGED <<hired, roles, defined, socket, call, calls, mixed, kept>> /\ chat' = chat
    BY <1>4 DEF teamVars
  <2>2. chat' \in ChatRow /\ OwnAssigned(chat')
    BY <2>1 DEF TeamInd, TeamBase, TeamTypes
  <2>3. \A a : ownChats(a)' = ownChats(a)
    BY <2>1 DEF ownChats
  <2> QED
    BY <2>1, <2>2, <2>3, ChatChanges
<1> QED
  BY <1>1, <1>2, <1>3, <1>4 DEF TeamNext

LEMMA TeamIndHolds == TeamSpec => []TeamInd
BY TeamIndInit, TeamIndStep, PTL DEF TeamSpec

(* A tenant is never left without an owner, and members, roles, queues and *)
(* sockets keep their types, however the requests of the team handlers     *)
(* (api/admin.go) overlap.                                                 *)
THEOREM TeamInvHolds == TeamSpec => []TeamInv
<1>1. TeamInd => TeamInv
  <2> SUFFICES ASSUME TeamInd PROVE TeamInv
    OBVIOUS
  <2>1. TeamTypes /\ MembersOnly /\ KeepsAnOwner
    BY DEF TeamInd, TeamBase
  <2>2. \A a \in Crew : RolesTyped(roles[a])
    BY <2>1, HeldTyped DEF TeamTypes
  <2> QED
    BY <2>1, <2>2 DEF TeamInv, TeamTypeOK, TeamTypes, MembersOnly
<1> QED
  BY <1>1, TeamIndHolds, PTL

\* a settled socket has the channels of the roles, and at most one more
LEMMA SettledTracks ==
  ASSUME TeamInd, NEW a \in Crew, Settled(a)
  PROVE  /\ ChannelsNow(held(a)) \subseteq socket[a]
         /\ socket[a] \ ChannelsNow(held(a)) \subseteq Extra(a)
<1>1. socket[a] # Off /\ a \notin mixed /\ Quiet(a) /\ MemberHolds(a)
  BY DEF Settled, Quiet, TeamInd
<1>2. Tracks(a, Of(a, roles[a]), Of(a, roles[a]))
  BY <1>1 DEF MemberHolds
<1> QED
  BY <1>1, <1>2 DEF Tracks, Of, held

(* An open socket that no request under way writes has exactly the         *)
(* channels of the member's roles (api/realtime.go), and at most that of a *)
(* request the member opened besides.                                      *)
THEOREM SocketFollowsRolesHolds == TeamSpec => []SocketFollowsRoles
<1>1. TeamInd => SocketFollowsRoles
  BY SettledTracks DEF SocketFollowsRoles, Extra
<1> QED
  BY <1>1, TeamIndHolds, PTL

(* What the socket is sent, the list, the search and the contacts show is  *)
(* what the caller may read, in every state the team's requests reach.     *)
THEOREM ShownIsReadableHolds == TeamSpec => []ShownIsReadable
<1>1. TeamInd => ShownIsReadable
  <2> SUFFICES ASSUME TeamInd PROVE ShownIsReadable
    OBVIOUS
  <2>0. chat \in ChatRow /\ OwnAssigned(chat)
    BY DEF TeamInd, TeamBase, TeamTypes
  <2>1. HeardIsReadable
    <3> SUFFICES ASSUME NEW a \in Crew, NEW internal \in BOOLEAN, Settled(a), Opened, a \notin kept \/ internal,
                        socket[a] \cap channelsFor(chat, ChatId, chat.users, internal) # {}
                 PROVE  IF internal THEN InternalOn(held(a), "notes.read", chat)
                        ELSE AuthorizeConversation(held(a), "messages.read", chat)
      BY DEF HeardIsReadable
    <3>1. PICK ch \in socket[a] : ch \in channelsFor(chat, ChatId, chat.users, internal)
      OBVIOUS
    <3>2. ch \in ChannelsNow(held(a))
      <4>1. CASE a \notin kept
        BY <4>1, <3>1, SettledTracks DEF Extra
      <4>2. CASE internal
        <5>1. ch \in Observers(chat)
          BY <4>2, <3>1 DEF channelsFor
        <5>2. ch # ConvChannel(ChatId)
          BY <5>1, ChannelFacts DEF Observers, classifyConv, operators
        <5> QED
          BY <5>2, <3>1, SettledTracks DEF Extra
      <4> QED
        BY <4>1, <4>2
    <3>3. held(a) = ForAdmin(a, roles[a]) /\ ownChats(a) = OwnOf(a, chat)
      BY DEF held, ownChats, OwnOf
    <3>4. ch \in AgentChannels(ForAdmin(a, roles[a]), defined, OwnOf(a, chat))
      BY <3>2, <3>3 DEF ChannelsNow, ForAdmin, Principal
    <3> QED
      BY <3>1, <3>3, <3>4, <2>0, HeardMayBeRead
  <2>2. ASSUME NEW p \in {held(a) : a \in Crew} \cup {ForUser(Visitor), ServerKey}
        PROVE  \E kind \in {"apikey", "user", "admin"} : \E id, h : p = Principal(kind, id, h)
    BY DEF held, ForAdmin, ForUser, ServerKey
  <2>3. ListedIsReadable
    BY <2>0, <2>2, ListedMayBeOpened DEF ListedIsReadable
  <2>4. SearchAgrees
    BY <2>0, <2>2, SearchMatchesList DEF SearchAgrees
  <2> QED
    BY <2>1, <2>3, <2>4 DEF ShownIsReadable
<1> QED
  BY <1>1, TeamIndHolds, PTL

-----------------------------------------------------------------------------
(* Translations: what is published is live.  While the history is not      *)
(* torn, releases are numbered one after the other and a release goes out  *)
(* only under the version after the newest, so a request that can still    *)
(* release has loaded the project after everything that is owed was        *)
(* published, and its texts, taken from the drafts after that, carry what  *)
(* is owed.                                                                *)

\* a request in flight is a record of NoEdit's fields
EditShape(c) ==
    /\ c = [op |-> c.op, pc |-> c.pc, view |-> c.view, at |-> c.at, text |-> c.text, source |-> c.source,
            may |-> c.may, strings |-> c.strings, last |-> c.last]
    /\ c.at = <<c.at[1], c.at[2]>> /\ c.view.version \in Nat /\ c.last \in BOOLEAN
    /\ c.op = "idle" => c.pc = "start"
    /\ c.pc = "write" => c.op \in {"put", "reset", "declare", "undeclare"}
    /\ c.op = "put" => c.text \in Words
    /\ c.last => c.pc \in {"publish", "commit"} /\ c.op = "put"

EditsShaped ==
    /\ edit = [e \in Edits |-> edit[e]] /\ \A e \in Edits : EditShape(edit[e])
    /\ \A lk \in DOMAIN drafts : drafts[lk].text \in Words
    /\ owed \subseteq DOMAIN drafts /\ \A lk \in owed : lk = <<lk[1], lk[2]>>
    /\ \A lv \in DOMAIN bundles : lv = <<lv[1], lv[2]>> /\ lv[2] \in releases

\* the texts to be released say what the draft says
Carries(c, lk) ==
    lk[1] \in DOMAIN c.strings /\ lk[2] \in DOMAIN c.strings[lk[1]] =>
        c.strings[lk[1]][lk[2]] = drafts[lk].text

EditKnows(c) ==
    /\ c.op # "idle" => c.view.version <= Latest(releases)
    /\ c.pc = "commit" /\ c.op # "rollback" /\ c.view.version = Latest(releases) => \A lk \in owed : Carries(c, lk)
    /\ c.pc = "commit" /\ c.last /\ c.at \in DOMAIN drafts => Carries(c, c.at)

LiveAt(lk) ==
    \A lv \in DOMAIN bundles :
        lv[2] = Latest(releases) /\ lv[1] = lk[1] /\ lk[2] \in DOMAIN bundles[lv] => bundles[lv][lk[2]] = drafts[lk].text

ReleasesNumbered == \E n \in Nat : releases = 1..n

Untorn ==
    /\ EditsShaped /\ ReleasesNumbered
    /\ \A e \in Edits : EditKnows(edit[e])
    /\ \A lk \in owed : LiveAt(lk)

LiveInd == ~torn => Untorn

LEMMA LatestUpTo == ASSUME NEW n \in Nat PROVE Latest(1..n) = n
<1>1. CASE n = 0
  BY <1>1 DEF Latest
<1>2. CASE n # 0
  <2>1. n \in 1..n /\ \A w \in 1..n : w <= n
    BY <1>2
  <2>2. \A v \in 1..n : (\A w \in 1..n : w <= v) => v = n
    BY <2>1
  <2> QED
    BY <2>1, <2>2, <1>2 DEF Latest
<1> QED
  BY <1>1, <1>2

LEMMA NoEditShaped == EditShape(NoEdit) /\ NoEdit.op = "idle" /\ NoEdit.pc = "start" /\ NoEdit.last = FALSE
BY DEF EditShape, NoEdit

LEMMA NoEditKnows == EditKnows(NoEdit)
BY NoEditShaped DEF EditKnows

LEMMA LiveIndInit == TranslationsInit => LiveInd
<1> SUFFICES ASSUME TranslationsInit PROVE LiveInd
  OBVIOUS
<1>1. edit = [e \in Edits |-> NoEdit] /\ drafts = <<>> /\ bundles = <<>> /\ releases = {} /\ owed = {}
  BY DEF TranslationsInit
<1>2. DOMAIN drafts = {} /\ DOMAIN bundles = {}
  BY <1>1
<1>3. \A e \in Edits : edit[e] = NoEdit
  BY <1>1
<1>4. EditsShaped
  BY <1>1, <1>2, <1>3, NoEditShaped DEF EditsShaped
<1>5. ReleasesNumbered
  <2>1. 1..0 = {}
    OBVIOUS
  <2> QED
    BY <2>1, <1>1 DEF ReleasesNumbered
<1> QED
  BY <1>1, <1>3, <1>4, <1>5, NoEditKnows DEF LiveInd, Untorn

\* a request moves on, and what it may meet stays as it is
LEMMA EditMoves ==
  ASSUME Untorn, NEW e \in Edits, NEW c, EditShape(c), EditKnows(c), edit' = [edit EXCEPT ![e] = c],
         UNCHANGED <<drafts, bundles, releases, owed>>
  PROVE  Untorn'
<1>1. edit' = [o \in Edits |-> IF o = e THEN c ELSE edit[o]]
  BY DEF Untorn, EditsShaped
<1>2. edit' = [o \in Edits |-> edit'[o]] /\ \A o \in Edits : edit'[o] = IF o = e THEN c ELSE edit[o]
  BY <1>1
<1>3. \A o \in Edits : EditShape(edit'[o])
  BY <1>2 DEF Untorn, EditsShaped
<1>4. EditsShaped'
  <2>1. \A o \in Edits : EditShape(edit[o])'
    BY <1>3 DEF EditShape
  <2> QED
    BY <2>1, <1>2 DEF Untorn, EditsShaped
<1>5. \A o \in Edits : EditKnows(edit[o])'
  <2>1. \A o \in Edits : EditKnows(edit'[o])
    BY <1>2 DEF Untorn
  <2> QED
    BY <2>1 DEF EditKnows, Carries
<1>6. ReleasesNumbered' /\ \A lk \in owed' : LiveAt(lk)'
  BY DEF Untorn, ReleasesNumbered, LiveAt
<1> QED
  BY <1>4, <1>5, <1>6 DEF Untorn

\* a request has loaded the project
LEMMA StartLive ==
  ASSUME Untorn, NEW e \in Edits, NEW d, Start(e, d),
         d = [op |-> d.op, pc |-> d.pc, view |-> d.view, at |-> d.at, text |-> d.text, source |-> d.source,
              may |-> d.may, strings |-> d.strings, last |-> d.last],
         d.at = <<d.at[1], d.at[2]>>, d.last = FALSE, d.op # "idle", d.pc # "commit", d.op = "put" => d.text \in Words,
         d.pc = "write" => d.op \in {"put", "reset", "declare", "undeclare"}
  PROVE  Untorn'
<1>1. PICK c : c = [d EXCEPT !.view = View]
  OBVIOUS
<1>2. PICK n \in Nat : releases = 1..n /\ Latest(releases) = n
  BY LatestUpTo DEF Untorn, ReleasesNumbered
<1>3. View.version = n
  BY <1>2 DEF View
<1>4. c = [op |-> d.op, pc |-> d.pc, view |-> View, at |-> d.at, text |-> d.text, source |-> d.source,
           may |-> d.may, strings |-> d.strings, last |-> d.last]
  BY <1>1
<1>5. EditShape(c)
  BY <1>3, <1>4 DEF EditShape
<1>6. EditKnows(c)
  BY <1>2, <1>3, <1>4 DEF EditKnows
<1>7. edit' = [edit EXCEPT ![e] = c] /\ UNCHANGED <<drafts, bundles, releases, owed>>
  BY <1>1 DEF Start
<1> QED
  BY <1>5, <1>6, <1>7, EditMoves

LEMMA LoadSteps ==
  ASSUME Untorn, NEW e \in Edits,
         \/ PutTranslationOverride(e) \/ DeleteTranslationOverride(e) \/ DeclareTranslationKey(e)
         \/ UndeclareTranslationKey(e) \/ PublishTranslations(e)
  PROVE  Untorn'
<1>1. PICK n : n = NoEdit
  OBVIOUS
<1>2. /\ n = [op |-> n.op, pc |-> n.pc, view |-> n.view, at |-> n.at, text |-> n.text, source |-> n.source,
             may |-> n.may, strings |-> n.strings, last |-> n.last]
      /\ n.last = FALSE /\ n.at = <<n.at[1], n.at[2]>>
  BY <1>1, NoEditShaped DEF EditShape
<1>3. CASE PutTranslationOverride(e)
  <2>1. PICK p \in Editors, l \in project.locales, k \in CatalogKeys(catalogFor), w \in Words :
          Start(e, [n EXCEPT !.op = "put", !.pc = "write", !.at = <<l, k>>, !.text = w,
                             !.source = Default(catalogFor, Source, k), !.may = MayPublish(p, Project)])
    BY <1>1, <1>3 DEF PutTranslationOverride
  <2>2. PICK src, may : src = Default(catalogFor, Source, k) /\ may = MayPublish(p, Project)
    OBVIOUS
  <2>3. PICK d : d = [n EXCEPT !.op = "put", !.pc = "write", !.at = <<l, k>>, !.text = w, !.source = src, !.may = may]
    OBVIOUS
  <2>4. Start(e, d)
    BY <2>1, <2>2, <2>3
  <2>5. d = [op |-> "put", pc |-> "write", view |-> n.view, at |-> <<l, k>>, text |-> w, source |-> src,
             may |-> may, strings |-> n.strings, last |-> n.last]
    BY <2>3, <1>2
  <2> QED
    BY <2>4, <2>5, <1>2, StartLive
<1>4. CASE DeleteTranslationOverride(e)
  <2>1. PICK p \in Editors, l \in Locales, k \in Keys :
          Start(e, [n EXCEPT !.op = "reset", !.pc = "write", !.at = <<l, k>>, !.may = MayPublish(p, Project)])
    BY <1>1, <1>4 DEF DeleteTranslationOverride
  <2>2. PICK may : may = MayPublish(p, Project)
    OBVIOUS
  <2>3. PICK d : d = [n EXCEPT !.op = "reset", !.pc = "write", !.at = <<l, k>>, !.may = may]
    OBVIOUS
  <2>4. Start(e, d)
    BY <2>1, <2>2, <2>3
  <2>5. d = [op |-> "reset", pc |-> "write", view |-> n.view, at |-> <<l, k>>, text |-> n.text, source |-> n.source,
             may |-> may, strings |-> n.strings, last |-> n.last]
    BY <2>3, <1>2
  <2> QED
    BY <2>4, <2>5, <1>2, StartLive
<1>5. CASE DeclareTranslationKey(e)
  <2>1. PICK k \in Keys, w \in Words :
          Start(e, [n EXCEPT !.op = "declare", !.pc = "write", !.at = <<Source, k>>, !.text = w, !.may = TRUE])
    BY <1>1, <1>5 DEF DeclareTranslationKey
  <2>2. PICK d : d = [n EXCEPT !.op = "declare", !.pc = "write", !.at = <<Source, k>>, !.text = w, !.may = TRUE]
    OBVIOUS
  <2>3. d = [op |-> "declare", pc |-> "write", view |-> n.view, at |-> <<Source, k>>, text |-> w, source |-> n.source,
             may |-> TRUE, strings |-> n.strings, last |-> n.last]
    BY <2>2, <1>2
  <2> QED
    BY <2>1, <2>2, <2>3, <1>2, StartLive
<1>6. CASE UndeclareTranslationKey(e)
  <2>1. PICK k \in Keys :
          Start(e, [n EXCEPT !.op = "undeclare", !.pc = "write", !.at = <<Source, k>>, !.may = TRUE])
    BY <1>1, <1>6 DEF UndeclareTranslationKey
  <2>2. PICK d : d = [n EXCEPT !.op = "undeclare", !.pc = "write", !.at = <<Source, k>>, !.may = TRUE]
    OBVIOUS
  <2>3. d = [op |-> "undeclare", pc |-> "write", view |-> n.view, at |-> <<Source, k>>, text |-> n.text,
             source |-> n.source, may |-> TRUE, strings |-> n.strings, last |-> n.last]
    BY <2>2, <1>2
  <2> QED
    BY <2>1, <2>2, <2>3, <1>2, StartLive
<1>7. CASE PublishTranslations(e)
  <2>1. Start(e, [n EXCEPT !.op = "publish", !.pc = "publish", !.may = TRUE])
    BY <1>1, <1>7 DEF PublishTranslations
  <2>2. PICK d : d = [n EXCEPT !.op = "publish", !.pc = "publish", !.may = TRUE]
    OBVIOUS
  <2>3. d = [op |-> "publish", pc |-> "publish", view |-> n.view, at |-> n.at, text |-> n.text,
             source |-> n.source, may |-> TRUE, strings |-> n.strings, last |-> n.last]
    BY <2>2, <1>2
  <2> QED
    BY <2>1, <2>2, <2>3, <1>2, StartLive
<1> QED
  BY <1>3, <1>4, <1>5, <1>6, <1>7

LEMMA RollbackStep ==
  ASSUME Untorn, NEW e \in Edits, RollbackTranslations(e)
  PROVE  Untorn'
<1>1. PICK n : n = NoEdit
  OBVIOUS
<1>2. /\ n = [op |-> n.op, pc |-> n.pc, view |-> n.view, at |-> n.at, text |-> n.text, source |-> n.source,
             may |-> n.may, strings |-> n.strings, last |-> n.last]
      /\ n.last = FALSE /\ n.at = <<n.at[1], n.at[2]>>
  BY <1>1, NoEditShaped DEF EditShape
<1>3. PICK ss : /\ edit' = [edit EXCEPT ![e] = [n EXCEPT !.op = "rollback", !.pc = "commit", !.view = View, !.strings = ss]]
                /\ UNCHANGED <<drafts, bundles, releases, owed>>
  BY <1>1 DEF RollbackTranslations
<1>4. PICK c : c = [n EXCEPT !.op = "rollback", !.pc = "commit", !.view = View, !.strings = ss]
  OBVIOUS
<1>5. c = [op |-> "rollback", pc |-> "commit", view |-> View, at |-> n.at, text |-> n.text,
           source |-> n.source, may |-> n.may, strings |-> ss, last |-> n.last]
  BY <1>2, <1>4
<1>6. PICK v \in Nat : releases = 1..v /\ Latest(releases) = v
  BY LatestUpTo DEF Untorn, ReleasesNumbered
<1>7. View.version = v
  BY <1>6 DEF View
<1>8. EditShape(c)
  BY <1>2, <1>5, <1>7 DEF EditShape
<1>9. EditKnows(c)
  BY <1>2, <1>5, <1>6, <1>7 DEF EditKnows
<1> QED
  BY <1>3, <1>4, <1>8, <1>9, EditMoves

LEMMA FailStep ==
  ASSUME Untorn, NEW e \in Edits, FailEdit(e)
  PROVE  Untorn'
<1>1. PICK c : c = NoEdit
  OBVIOUS
<1>2. EditShape(c) /\ EditKnows(c)
  BY <1>1, NoEditShaped, NoEditKnows
<1>3. edit' = [edit EXCEPT ![e] = c] /\ UNCHANGED <<drafts, bundles, releases, owed>>
  BY <1>1 DEF FailEdit
<1> QED
  BY <1>2, <1>3, EditMoves

\* a draft beats everything else that could be said
LEMMA DraftResolves ==
  ASSUME NEW cat, NEW ov, NEW l, NEW fallback, NEW k, <<l, k>> \in DOMAIN ov, ov[<<l, k>>].text \in Words
  PROVE  Resolve(cat, ov, l, fallback, k) = ov[<<l, k>>].text
<1>1. PICK chain : chain = <<l, fallback, Source>>
  OBVIOUS
<1>2. chain[1] = l /\ TextIn(cat, ov, l, k) = ov[<<l, k>>].text /\ TextIn(cat, ov, chain[1], k) # NoText
  BY <1>1, TranslationsAssumption DEF TextIn
<1>3. PICK hits : hits = {i \in 1..3 : TextIn(cat, ov, chain[i], k) # NoText}
  OBVIOUS
<1>4. 1 \in hits /\ hits \subseteq 1..3
  BY <1>2, <1>3
<1>5. (CHOOSE i \in hits : \A j \in hits : i <= j) = 1
  <2>1. \A i \in hits : (\A j \in hits : i <= j) => i = 1
    BY <1>4
  <2>2. \A j \in hits : 1 <= j
    BY <1>4
  <2> QED
    BY <1>4, <2>1, <2>2
<1>6. Resolve(cat, ov, l, fallback, k) =
        IF hits = {} THEN k ELSE TextIn(cat, ov, chain[CHOOSE i \in hits : \A j \in hits : i <= j], k)
  BY <1>1, <1>3 DEF Resolve
<1> QED
  BY <1>2, <1>4, <1>5, <1>6

LEMMA PublishStep ==
  ASSUME Untorn, NEW e \in Edits, publish(e)
  PROVE  Untorn'
<1>1. PICK b : b = edit[e]
  OBVIOUS
<1>2. EditShape(b) /\ EditKnows(b)
  BY <1>1 DEF Untorn, EditsShaped
<1>3. PICK ss : ss = [l \in b.view.project.locales |-> Bundle(catalogFor, drafts, l, b.view.project.fallback)]
  OBVIOUS
<1>4. PICK c : c = [b EXCEPT !.pc = "commit", !.strings = ss]
  OBVIOUS
<1>5. edit' = [edit EXCEPT ![e] = c] /\ UNCHANGED <<drafts, bundles, releases, owed>> /\ b.pc = "publish"
  <2>1. edit' = [edit EXCEPT ![e].pc = "commit", ![e].strings = ss]
    BY <1>1, <1>3 DEF publish
  <2>2. edit' = [edit EXCEPT ![e] = [edit[e] EXCEPT !.pc = "commit", !.strings = ss]]
    BY <2>1 DEF Untorn, EditsShaped
  <2> QED
    BY <2>2, <1>1, <1>4 DEF publish
<1>6. c = [op |-> b.op, pc |-> "commit", view |-> b.view, at |-> b.at, text |-> b.text, source |-> b.source,
           may |-> b.may, strings |-> ss, last |-> b.last]
  BY <1>2, <1>4 DEF EditShape
<1>7. b.op # "idle"
  BY <1>2, <1>5 DEF EditShape
<1>8. EditShape(c)
  BY <1>2, <1>6, <1>7 DEF EditShape
<1>9. ASSUME NEW lk \in DOMAIN drafts, lk = <<lk[1], lk[2]>> PROVE Carries(c, lk)
  <2> SUFFICES ASSUME lk[1] \in DOMAIN ss, lk[2] \in DOMAIN ss[lk[1]]
               PROVE  ss[lk[1]][lk[2]] = drafts[lk].text
    BY <1>6 DEF Carries
  <2>1. PICK l, k : lk = <<l, k>> /\ lk[1] = l /\ lk[2] = k
    BY <1>9
  <2>2. PICK cat, fb : cat = catalogFor /\ fb = b.view.project.fallback
    OBVIOUS
  <2>3. ss[l] = Bundle(cat, drafts, l, fb)
    BY <1>3, <2>1, <2>2
  <2>4. ss[l][k] = Resolve(cat, drafts, l, fb, k)
    BY <2>1, <2>3 DEF Bundle
  <2>5. drafts[<<l, k>>].text \in Words
    BY <2>1 DEF Untorn, EditsShaped
  <2>6. Resolve(cat, drafts, l, fb, k) = drafts[<<l, k>>].text
    BY <2>1, <2>5, DraftResolves
  <2> QED
    BY <2>1, <2>4, <2>6
<1>10. EditKnows(c)
  <2>1. \A lk \in owed : Carries(c, lk)
    BY <1>9 DEF Untorn, EditsShaped
  <2>2. c.at \in DOMAIN drafts => Carries(c, c.at)
    BY <1>9, <1>8 DEF EditShape
  <2> QED
    BY <2>1, <2>2, <1>2, <1>6, <1>7 DEF EditKnows
<1> QED
  BY <1>5, <1>8, <1>10, EditMoves

\* what a write does to the drafts, and to what is owed of them
LEMMA WriteEffect ==
  ASSUME Untorn, NEW e \in Edits, WriteEdit(e), NEW c, c = edit[e]
  PROVE  /\ \A lk \in DOMAIN drafts' : (lk \in DOMAIN drafts /\ drafts'[lk] = drafts[lk] /\ (c.op = "put" => lk # c.at))
                                       \/ (c.op = "put" /\ lk = c.at /\ drafts'[lk].text \in Words)
         /\ \A lk \in owed' : lk \in owed /\ lk \in DOMAIN drafts' /\ drafts'[lk] = drafts[lk]
<1>1. EditShape(c) /\ c.pc = "write" /\ c.op \in {"put", "reset", "declare", "undeclare"}
  BY DEF Untorn, EditsShaped, EditShape, WriteEdit
<1>2. owed \subseteq DOMAIN drafts /\ \A lk \in owed : lk = <<lk[1], lk[2]>>
  BY DEF Untorn, EditsShaped
<1>3. CASE c.op = "put"
  <2>1. PutOverride(c) /\ owed' = owed \ {c.at}
    BY <1>3 DEF WriteEdit
  <2>2. PICK r : r = [text |-> c.text, source |-> c.source]
    OBVIOUS
  <2>3. drafts' = Over([lk \in {c.at} |-> r], drafts)
    BY <2>1, <2>2 DEF PutOverride
  <2>4. /\ DOMAIN drafts' = {c.at} \cup DOMAIN drafts /\ drafts'[c.at] = r
        /\ \A lk \in DOMAIN drafts \ {c.at} : drafts'[lk] = drafts[lk]
    BY <2>3 DEF Over
  <2>5. r.text \in Words
    BY <1>1, <1>3, <2>2 DEF EditShape
  <2>6. ASSUME NEW lk \in DOMAIN drafts'
        PROVE  \/ lk \in DOMAIN drafts /\ drafts'[lk] = drafts[lk] /\ lk # c.at
               \/ lk = c.at /\ drafts'[lk].text \in Words
    BY <2>4, <2>5
  <2>7. \A lk \in owed' : lk \in owed /\ lk \in DOMAIN drafts' /\ drafts'[lk] = drafts[lk]
    BY <1>2, <2>1, <2>4
  <2> QED
    BY <1>3, <2>6, <2>7
<1>4. CASE c.op = "reset"
  <2>1. drafts' = Without(drafts, {c.at}) /\ owed' = owed \ {c.at}
    BY <1>4 DEF WriteEdit, DeleteOverride
  <2>2. DOMAIN drafts' = DOMAIN drafts \ {c.at} /\ \A lk \in DOMAIN drafts' : drafts'[lk] = drafts[lk]
    BY <2>1 DEF Without
  <2> QED
    BY <1>2, <1>4, <2>1, <2>2
<1>5. CASE c.op = "declare"
  <2>1. drafts' = drafts /\ owed' = owed
    BY <1>5 DEF WriteEdit, PutKey
  <2> QED
    BY <1>2, <1>5, <2>1
<1>6. CASE c.op = "undeclare"
  <2>1. PICK gone : gone = Locales \X {c.at[2]}
    OBVIOUS
  <2>2. drafts' = Without(drafts, gone) /\ owed' = owed \ gone
    BY <1>6, <2>1 DEF WriteEdit, DeleteKey
  <2>3. DOMAIN drafts' = DOMAIN drafts \ gone /\ \A lk \in DOMAIN drafts' : drafts'[lk] = drafts[lk]
    BY <2>2 DEF Without
  <2> QED
    BY <1>2, <1>6, <2>2, <2>3
<1> QED
  BY <1>1, <1>3, <1>4, <1>5, <1>6

LEMMA WriteStep ==
  ASSUME Untorn, NEW e \in Edits, WriteEdit(e)
  PROVE  Untorn'
<1>1. PICK c : c = edit[e]
  OBVIOUS
<1>2. EditShape(c) /\ EditKnows(c) /\ c.pc = "write"
  BY <1>1 DEF Untorn, EditsShaped, WriteEdit
<1>3. /\ \A lk \in DOMAIN drafts' : (lk \in DOMAIN drafts /\ drafts'[lk] = drafts[lk] /\ (c.op = "put" => lk # c.at))
                                    \/ (c.op = "put" /\ lk = c.at /\ drafts'[lk].text \in Words)
      /\ \A lk \in owed' : lk \in owed /\ lk \in DOMAIN drafts' /\ drafts'[lk] = drafts[lk]
  BY <1>1, WriteEffect
<1>4. UNCHANGED <<bundles, releases>>
  BY DEF WriteEdit
<1>5. edit' = [o \in Edits |->
                 IF o # e THEN IF edit[o].at = c.at THEN [edit[o] EXCEPT !.last = FALSE] ELSE edit[o]
                 ELSE IF Publishes(c) THEN [c EXCEPT !.pc = "publish", !.last = c.op = "put"] ELSE NoEdit]
  BY <1>1 DEF WriteEdit
<1>6. edit' = [o \in Edits |-> edit'[o]]
  BY <1>5
<1>7. ASSUME NEW o \in Edits
      PROVE  EditShape(edit'[o]) /\ EditKnows(edit[o])'
  <2>1. CASE o = e
    <3>1. CASE Publishes(c)
      <4>1. PICK last \in BOOLEAN : last = (c.op = "put")
        OBVIOUS
      <4>2. edit'[o] = [c EXCEPT !.pc = "publish", !.last = last]
        BY <1>5, <2>1, <3>1, <4>1
      <4>3. PICK d : d = [c EXCEPT !.pc = "publish", !.last = last]
        OBVIOUS
      <4>4. d = [op |-> c.op, pc |-> "publish", view |-> c.view, at |-> c.at, text |-> c.text, source |-> c.source,
                 may |-> c.may, strings |-> c.strings, last |-> last]
        BY <1>2, <4>3 DEF EditShape
      <4>5. EditShape(d)
        BY <1>2, <4>1, <4>4 DEF EditShape
      <4>6. c.op # "idle" /\ c.view.version <= Latest(releases)
        BY <1>2 DEF EditShape, EditKnows
      <4>7. edit'[o] = d
        BY <4>2, <4>3
      <4> QED
        BY <1>4, <4>4, <4>5, <4>6, <4>7 DEF EditKnows
    <3>2. CASE ~Publishes(c)
      <4>1. edit'[o] = NoEdit
        BY <1>5, <2>1, <3>2
      <4> QED
        BY <4>1, NoEditShaped DEF EditKnows
    <3> QED
      BY <3>1, <3>2
  <2>2. CASE o # e
    <3>1. PICK b : b = edit[o]
      OBVIOUS
    <3>2. EditShape(b) /\ EditKnows(b)
      BY <3>1 DEF Untorn, EditsShaped
    <3>4. PICK d : /\ d = edit'[o] /\ EditShape(d)
                   /\ d.op = b.op /\ d.pc = b.pc /\ d.view = b.view /\ d.at = b.at /\ d.strings = b.strings
                   /\ d.last => b.last /\ b.at # c.at
      <4>1. CASE b.at = c.at
        <5>1. PICK d : d = [b EXCEPT !.last = FALSE]
          OBVIOUS
        <5>2. d = [op |-> b.op, pc |-> b.pc, view |-> b.view, at |-> b.at, text |-> b.text, source |-> b.source,
                   may |-> b.may, strings |-> b.strings, last |-> FALSE]
          BY <3>2, <5>1 DEF EditShape
        <5>3. EditShape(d)
          BY <3>2, <5>2 DEF EditShape
        <5>4. edit'[o] = d
          BY <1>5, <2>2, <3>1, <4>1, <5>1
        <5> QED
          BY <5>2, <5>3, <5>4
      <4>2. CASE b.at # c.at
        <5>1. edit'[o] = b
          BY <1>5, <2>2, <3>1, <4>2
        <5> QED
          BY <3>2, <4>2, <5>1
      <4> QED
        BY <4>1, <4>2
    <3>5. \A lk \in owed' : Carries(b, lk) => Carries(edit[o], lk)'
      BY <1>3, <3>4 DEF Carries
    <3>6. d.last /\ d.at \in DOMAIN drafts' => d.at \in DOMAIN drafts /\ drafts'[d.at] = drafts[d.at]
      BY <1>3, <3>4
    <3>7. d.last /\ d.at \in DOMAIN drafts' /\ Carries(b, b.at) => Carries(edit[o], edit[o].at)'
      BY <3>4, <3>6 DEF Carries
    <3> QED
      BY <1>3, <1>4, <3>2, <3>4, <3>5, <3>6, <3>7 DEF EditKnows
  <2> QED
    BY <2>1, <2>2
<1>8. EditsShaped'
  <2>1. \A o \in Edits : EditShape(edit[o])'
    BY <1>7 DEF EditShape
  <2>2. \A lk \in DOMAIN drafts' : drafts'[lk].text \in Words
    BY <1>3 DEF Untorn, EditsShaped
  <2>3. owed' \subseteq DOMAIN drafts' /\ \A lk \in owed' : lk = <<lk[1], lk[2]>>
    BY <1>3 DEF Untorn, EditsShaped
  <2> QED
    BY <1>4, <1>6, <2>1, <2>2, <2>3 DEF Untorn, EditsShaped
<1>9. ASSUME NEW lk \in owed' PROVE LiveAt(lk)'
  <2>1. LiveAt(lk) /\ drafts'[lk] = drafts[lk]
    BY <1>3 DEF Untorn
  <2> QED
    BY <1>4, <2>1 DEF LiveAt
<1>10. ReleasesNumbered'
  BY <1>4 DEF Untorn, ReleasesNumbered
<1> QED
  BY <1>7, <1>8, <1>9, <1>10 DEF Untorn

LEMMA CommitStep ==
  ASSUME Untorn, NEW e \in Edits, commitRelease(e), ~torn'
  PROVE  Untorn'
<1>1. PICK c : c = edit[e]
  OBVIOUS
<1>2. EditShape(c) /\ EditKnows(c) /\ c.pc = "commit" /\ c.op # "idle"
  BY <1>1 DEF Untorn, EditsShaped, commitRelease, EditShape
<1>3. PICK n \in Nat : releases = 1..n /\ Latest(releases) = n
  BY LatestUpTo DEF Untorn, ReleasesNumbered
<1>4. nextVersion(c) = n + 1 /\ c.view.version = n
  <2>1. nextVersion(c) \notin releases
    BY <1>1 DEF commitRelease
  <2>2. c.view.version \in Nat /\ c.view.version <= n
    BY <1>2, <1>3 DEF EditShape, EditKnows
  <2> QED
    BY <1>3, <2>1, <2>2 DEF nextVersion
<1>5. releases' = 1..(n + 1) /\ Latest(releases)' = n + 1
  <2>1. releases' = (1..n) \cup {n + 1}
    BY <1>1, <1>3, <1>4 DEF commitRelease
  <2>2. releases' = 1..(n + 1)
    BY <2>1
  <2>3. Latest(1..(n + 1)) = n + 1
    BY LatestUpTo
  <2> QED
    BY <2>2, <2>3
<1>6. UNCHANGED drafts /\ edit' = [edit EXCEPT ![e] = NoEdit]
  BY DEF commitRelease
<1>7. PICK none : none = NoEdit
  OBVIOUS
<1>8. edit' = [o \in Edits |-> IF o = e THEN none ELSE edit[o]]
  BY <1>6, <1>7 DEF Untorn, EditsShaped
<1>9. edit' = [o \in Edits |-> edit'[o]] /\ \A o \in Edits : edit'[o] = IF o = e THEN none ELSE edit[o]
  BY <1>8
<1>10. PICK added : added = ReleaseRows(c)
  OBVIOUS
<1>11. /\ DOMAIN added = (DOMAIN c.strings) \X {n + 1}
       /\ \A lv \in DOMAIN added : added[lv] = c.strings[lv[1]]
  BY <1>4, <1>10 DEF ReleaseRows
<1>12. bundles' = Over(bundles, added)
  BY <1>1, <1>10 DEF commitRelease, CreateRelease
<1>13. /\ DOMAIN bundles' = DOMAIN bundles \cup DOMAIN added
       /\ \A lv \in DOMAIN added \ DOMAIN bundles : bundles'[lv] = added[lv]
  BY <1>12 DEF Over
<1>14. ASSUME NEW lv \in DOMAIN bundles'
       PROVE  /\ lv = <<lv[1], lv[2]>> /\ lv[2] \in releases'
              /\ lv[2] = n + 1 => lv[1] \in DOMAIN c.strings /\ bundles'[lv] = c.strings[lv[1]]
  <2>1. CASE lv \in DOMAIN bundles
    <3>1. lv = <<lv[1], lv[2]>> /\ lv[2] \in 1..n
      BY <1>3, <2>1 DEF Untorn, EditsShaped
    <3> QED
      BY <1>5, <3>1
  <2>2. CASE lv \notin DOMAIN bundles
    <3>1. lv \in DOMAIN added /\ bundles'[lv] = added[lv]
      BY <1>13, <2>2
    <3>2. lv = <<lv[1], lv[2]>> /\ lv[1] \in DOMAIN c.strings /\ lv[2] = n + 1
      BY <1>11, <3>1
    <3> QED
      BY <1>5, <1>11, <3>1, <3>2
  <2> QED
    BY <2>1, <2>2
<1>15. ASSUME NEW lk \in owed' PROVE lk \in DOMAIN drafts /\ lk = <<lk[1], lk[2]>> /\ Carries(c, lk)
  <2>1. owed' = IF c.op = "rollback" THEN {} ELSE IF StillDraft(c) THEN owed \cup {c.at} ELSE owed
    BY <1>1 DEF commitRelease
  <2>2. c.op # "rollback" /\ (lk \in owed \/ (lk = c.at /\ StillDraft(c)))
    BY <1>15, <2>1
  <2>3. CASE lk \in owed
    BY <1>2, <1>3, <1>4, <2>2, <2>3 DEF EditKnows, Untorn, EditsShaped
  <2>4. CASE lk = c.at /\ StillDraft(c)
    BY <1>2, <2>4 DEF EditKnows, EditShape, StillDraft
  <2> QED
    BY <2>2, <2>3, <2>4
<1>16. ASSUME NEW lk \in owed' PROVE LiveAt(lk)'
  <2>1. Carries(c, lk)
    BY <1>15
  <2>2. ASSUME NEW lv \in DOMAIN bundles', lv[2] = n + 1, lv[1] = lk[1], lk[2] \in DOMAIN bundles'[lv]
        PROVE  bundles'[lv][lk[2]] = drafts'[lk].text
    <3>1. lv[1] \in DOMAIN c.strings /\ bundles'[lv] = c.strings[lv[1]]
      BY <1>14, <2>2
    <3> QED
      BY <1>6, <2>1, <2>2, <3>1 DEF Carries
  <2> QED
    BY <1>5, <2>2 DEF LiveAt
<1>17. ASSUME NEW o \in Edits PROVE EditShape(edit'[o]) /\ EditKnows(edit[o])'
  <2>1. CASE o = e
    <3>1. edit'[o] = none /\ EditShape(none) /\ none.op = "idle" /\ none.pc = "start"
      BY <1>7, <1>9, <2>1, NoEditShaped
    <3> QED
      BY <3>1 DEF EditKnows
  <2>2. CASE o # e
    <3>1. PICK b : b = edit[o]
      OBVIOUS
    <3>2. edit'[o] = b /\ EditShape(b) /\ EditKnows(b)
      BY <1>9, <2>2, <3>1 DEF Untorn, EditsShaped
    <3>3. b.view.version \in Nat /\ (b.op # "idle" => b.view.version <= n)
      BY <1>3, <3>2 DEF EditShape, EditKnows
    <3>4. (b.op # "idle" => b.view.version <= n + 1) /\ (b.pc = "commit" => b.view.version # n + 1)
      BY <3>2, <3>3 DEF EditShape
    <3>5. Carries(b, b.at) => Carries(edit[o], edit[o].at)'
      BY <1>6, <3>2 DEF Carries
    <3> QED
      BY <1>5, <1>6, <3>2, <3>4, <3>5 DEF EditKnows
  <2> QED
    BY <2>1, <2>2
<1>18. EditsShaped'
  <2>1. \A o \in Edits : EditShape(edit[o])'
    BY <1>17 DEF EditShape
  <2> QED
    BY <1>6, <1>9, <1>14, <1>15, <2>1 DEF Untorn, EditsShaped
<1>19. ReleasesNumbered'
  BY <1>5 DEF ReleasesNumbered
<1> QED
  BY <1>16, <1>17, <1>18, <1>19 DEF Untorn

LEMMA DeleteStep ==
  ASSUME Untorn, DeleteTranslationProject, ~torn'
  PROVE  Untorn'
<1>1. drafts' = <<>> /\ bundles' = <<>> /\ releases' = {} /\ owed' = {} /\ UNCHANGED edit /\ ~EditsInFlight
  BY DEF DeleteTranslationProject
<1>2. DOMAIN drafts' = {} /\ DOMAIN bundles' = {}
  BY <1>1
<1>3. \A e \in Edits : EditShape(edit[e]) /\ edit[e].op = "idle" /\ edit[e].pc = "start"
  BY <1>1 DEF Untorn, EditsShaped, EditsInFlight, EditShape
<1>4. EditsShaped'
  <2>1. \A e \in Edits : EditShape(edit[e])'
    BY <1>1, <1>3 DEF EditShape
  <2> QED
    BY <1>1, <1>2, <2>1 DEF Untorn, EditsShaped
<1>5. \A e \in Edits : EditKnows(edit[e])'
  BY <1>1, <1>3 DEF EditKnows
<1>6. ReleasesNumbered'
  <2>1. 1..0 = {}
    OBVIOUS
  <2> QED
    BY <2>1, <1>1 DEF ReleasesNumbered
<1> QED
  BY <1>1, <1>4, <1>5, <1>6 DEF Untorn

LEMMA UntornLeft ==
  ASSUME Untorn, UNCHANGED <<drafts, bundles, releases, owed, edit>>
  PROVE  Untorn'
<1>1. EditsShaped' /\ ReleasesNumbered'
  BY DEF Untorn, EditsShaped, EditShape, ReleasesNumbered
<1>2. \A e \in Edits : EditKnows(edit[e])'
  BY DEF Untorn, EditKnows, Carries
<1>3. \A lk \in owed' : LiveAt(lk)'
  BY DEF Untorn, LiveAt
<1> QED
  BY <1>1, <1>2, <1>3 DEF Untorn

LEMMA LiveIndKept == LiveInd /\ [TranslationsNext]_translationVars => LiveInd'
<1> SUFFICES ASSUME LiveInd, [TranslationsNext]_translationVars, ~torn' PROVE Untorn'
  BY DEF LiveInd
<1>1. CASE SaveTranslationProject \/ CreateTranslationProject \/ UNCHANGED translationVars
  <2>1. UNCHANGED <<drafts, bundles, releases, owed, edit, torn>>
    BY <1>1 DEF SaveTranslationProject, CreateTranslationProject, translationVars
  <2> QED
    BY <2>1, UntornLeft DEF LiveInd
<1>2. CASE DeleteTranslationProject
  <2>1. Untorn
    BY <1>2 DEF DeleteTranslationProject, LiveInd
  <2> QED
    BY <1>2, <2>1, DeleteStep
<1>3. ASSUME NEW e \in Edits, commitRelease(e) PROVE Untorn'
  <2>1. Untorn
    BY <1>3 DEF commitRelease, LiveInd
  <2> QED
    BY <1>3, <2>1, CommitStep
<1>4. ASSUME NEW e \in Edits,
             \/ PutTranslationOverride(e) \/ DeleteTranslationOverride(e) \/ DeclareTranslationKey(e)
             \/ UndeclareTranslationKey(e) \/ PublishTranslations(e)
      PROVE  Untorn'
  <2>1. UNCHANGED torn
    BY <1>4 DEF PutTranslationOverride, DeleteTranslationOverride, DeclareTranslationKey,
                UndeclareTranslationKey, PublishTranslations, Start
  <2> QED
    BY <1>4, <2>1, LoadSteps DEF LiveInd
<1>5. ASSUME NEW e \in Edits, RollbackTranslations(e) \/ WriteEdit(e) \/ publish(e) \/ FailEdit(e) PROVE Untorn'
  <2>1. UNCHANGED torn
    BY <1>5 DEF RollbackTranslations, WriteEdit, publish, FailEdit
  <2> QED
    BY <1>5, <2>1, RollbackStep, WriteStep, PublishStep, FailStep DEF LiveInd
<1> QED
  BY <1>1, <1>2, <1>3, <1>4, <1>5 DEF TranslationsNext

\* mail and nudges say what the newest bundle of the language says
LEMMA ResolvesAsReleased ==
  ASSUME NEW l, NEW k, <<l, Latest(releases)>> \in DOMAIN bundles, k \in DOMAIN bundles[<<l, Latest(releases)>>]
  PROVE  ResolveText(l, k) = bundles[<<l, Latest(releases)>>][k]
<1>1. PICK at : at = <<l, project.fallback, Source>>
  OBVIOUS
<1>2. PICK now : now = Latest(releases)
  OBVIOUS
<1>3. PICK hits : hits = {i \in 1..3 : k \in DOMAIN TranslationBundle(at[i], now)}
  OBVIOUS
<1>4. at[1] = l /\ TranslationBundle(l, now) = bundles[<<l, now>>]
  BY <1>1, <1>2 DEF TranslationBundle
<1>5. 1 \in hits /\ hits \subseteq 1..3
  BY <1>2, <1>3, <1>4
<1>6. (CHOOSE i \in hits : \A j \in hits : i <= j) = 1
  <2>1. \A i \in hits : (\A j \in hits : i <= j) => i = 1
    BY <1>5
  <2>2. \A j \in hits : 1 <= j
    BY <1>5
  <2> QED
    BY <1>5, <2>1, <2>2
<1>7. ResolveText(l, k) = IF hits = {} THEN Resolve(shipped, <<>>, l, project.fallback, k)
                          ELSE TranslationBundle(at[CHOOSE i \in hits : \A j \in hits : i <= j], now)[k]
  BY <1>1, <1>2, <1>3 DEF ResolveText
<1> QED
  BY <1>2, <1>4, <1>5, <1>6, <1>7

(* Whatever is written, published, rolled back or deleted at the same      *)
(* time, a text whose write was answered as published is what the newest   *)
(* release says, to clients and in what the server composes                *)
(* (domain/translation.go, publish and ResolveText).                       *)
THEOREM PublishedIsLiveHolds == TranslationsSpec => []PublishedIsLive
<1>1. LiveInd => PublishedIsLive
  <2> SUFFICES ASSUME Untorn, NEW lk \in owed, NEW lv \in TranslationManifest,
                      lv[1] = lk[1], lk[2] \in DOMAIN bundles[lv]
               PROVE  /\ TranslationBundle(lk[1], lv[2])[lk[2]] = drafts[lk].text
                      /\ ResolveText(lk[1], lk[2]) = drafts[lk].text
    BY DEF LiveInd, PublishedIsLive
  <2>1. lv \in DOMAIN bundles /\ lv[2] = Latest(releases) /\ lv = <<lk[1], Latest(releases)>>
    BY DEF TranslationManifest, Untorn, EditsShaped
  <2>2. bundles[lv][lk[2]] = drafts[lk].text
    BY <2>1 DEF Untorn, LiveAt
  <2>3. TranslationBundle(lk[1], lv[2]) = bundles[lv]
    BY <2>1 DEF TranslationBundle
  <2>4. ResolveText(lk[1], lk[2]) = bundles[lv][lk[2]]
    BY <2>1, ResolvesAsReleased
  <2> QED
    BY <2>2, <2>3, <2>4
<1> QED
  BY <1>1, LiveIndInit, LiveIndKept, PTL DEF TranslationsSpec

-----------------------------------------------------------------------------
(* The widget's text.  Versions count up and a version's languages and     *)
(* texts are written once.  A page takes manifests from older to newer, so *)
(* a bundle on its way is of the newest one the page has taken, and then   *)
(* the page still has its language, or of an older one, and then it is not *)
(* taken for the newest release.                                           *)

Offers(v) == {l \in Locales : <<l, v>> \in DOMAIN bundles}
Genuine(m) == m.version \in 0..Latest(releases) /\ m.locales = Offers(m.version)
Fits(l, b) ==
    /\ b.version \in 0..Latest(releases)
    /\ b.version = Latest(releases) /\ b.version # 0 =>
          <<l, b.version>> \in DOMAIN bundles /\ b.strings = bundles[<<l, b.version>>]

TabShape(x) ==
    x = [explicit |-> x.explicit, locale |-> x.locale, version |-> x.version, strings |-> x.strings, held |-> x.held]
PullShape(p) ==
    /\ p = [tab |-> p.tab, pc |-> p.pc, manifest |-> p.manifest, locale |-> p.locale, version |-> p.version,
            strings |-> p.strings]
    /\ p.tab \in Tabs

WidgetShaped ==
    /\ tab = [t \in Tabs |-> tab[t]] /\ \A t \in Tabs : TabShape(tab[t])
    /\ pull = [r \in Pulls |-> pull[r]] /\ \A r \in Pulls : PullShape(pull[r])
    /\ stored = [l \in Locales |-> stored[l]] /\ newest = [t \in Tabs |-> newest[t]]
    /\ late \in BOOLEAN

\* a bundle asked for by a page in the language loc that has taken manifests up to new
PullRight(p, loc, new) ==
    /\ Genuine(p.manifest)
    /\ p.pc \in {"fetch", "apply"} =>
          /\ p.version \in 1..new /\ p.locale \in Offers(p.version)
          /\ p.version = new => loc = p.locale
    /\ p.pc = "apply" => p.strings = bundles[<<p.locale, p.version>>]

WidgetRight ==
    /\ \A l \in Locales : Fits(l, stored[l])
    /\ Genuine(shelf)
    /\ \A t \in Tabs : Fits(tab[t].locale, tab[t]) /\ Genuine(tab[t].held) /\ newest[t] \in 0..Latest(releases)
    /\ \A r \in Pulls : PullRight(pull[r], tab[pull[r].tab].locale, newest[pull[r].tab])

WidgetInd == WidgetShaped /\ ~Own /\ shipped \in Catalogs /\ LiveInd /\ (~late /\ ~torn => WidgetRight)

LEMMA NoPullShaped ==
  ASSUME NEW t \in Tabs
  PROVE  /\ NoPull(t) = [tab |-> t, pc |-> "idle", manifest |-> NoManifest, locale |-> NoLang, version |-> 0, strings |-> <<>>]
         /\ PullShape(NoPull(t))
  BY DEF NoPull, PullShape

\* releases are numbered and every bundle is of one
LEMMA Numbered ==
  ASSUME Untorn
  PROVE  /\ Latest(releases) \in Nat /\ releases = 1..Latest(releases)
         /\ \A lv \in DOMAIN bundles : lv[2] \in 1..Latest(releases)
         /\ Offers(0) = {}
<1>1. PICK n \in Nat : releases = 1..n /\ Latest(releases) = n
  BY LatestUpTo DEF Untorn, ReleasesNumbered
<1>2. \A lv \in DOMAIN bundles : lv[2] \in 1..n
  BY <1>1 DEF Untorn, EditsShaped
<1>3. \A l : <<l, 0>> \notin DOMAIN bundles
  <2> SUFFICES ASSUME NEW l, <<l, 0>> \in DOMAIN bundles PROVE FALSE
    OBVIOUS
  <2>1. PICK lv : lv = <<l, 0>>
    OBVIOUS
  <2>2. lv[2] \in 1..n /\ lv[2] = 0
    BY <1>2, <2>1
  <2> QED
    BY <2>2
<1> QED
  BY <1>1, <1>2, <1>3 DEF Offers

LEMMA NothingGenuine ==
  ASSUME Untorn PROVE Genuine(NoManifest)
<1>1. NoManifest.version = 0 /\ NoManifest.locales = {}
  BY DEF NoManifest
<1>2. Latest(releases) \in Nat /\ Offers(0) = {}
  BY Numbered
<1> QED
  BY <1>1, <1>2 DEF Genuine

LEMMA Negotiated ==
  ASSUME NEW prefs \in DevicePrefs, NEW S
  PROVE  negotiate(prefs, S) = NoLang \/ negotiate(prefs, S) \in S
<1>1. PICK have : have = S \cap DOMAIN prefs
  OBVIOUS
<1>2. CASE have = {}
  BY <1>1, <1>2 DEF negotiate
<1>3. CASE have # {}
  <2>1. PICK ranks : ranks = {prefs[l] : l \in have}
    OBVIOUS
  <2>2. \A l \in have : prefs[l] \in Nat
    BY <1>1, WidgetAssumption
  <2>3. ranks \in SUBSET Nat /\ ranks # {}
    BY <1>3, <2>1, <2>2
  <2>4. PICK k \in ranks : \A o \in ranks : <<o, k>> \notin OpToRel(<, Nat)
    BY <2>3, NatLessThanWellFounded, WFMin
  <2>5. k \in Nat /\ \A o \in ranks : o \in Nat /\ k <= o
    <3>1. k \in Nat /\ \A o \in ranks : o \in Nat
      BY <2>3, <2>4
    <3>2. \A o \in ranks : ~(o < k)
      BY <2>4, <3>1 DEF OpToRel
    <3> QED
      BY <3>1, <3>2
  <2>6. PICK l \in have : prefs[l] = k
    BY <2>1
  <2>7. \A o \in have : prefs[l] <= prefs[o]
    BY <2>1, <2>5, <2>6
  <2>8. (CHOOSE x \in have : \A o \in have : prefs[x] <= prefs[o]) \in have
    BY <2>6, <2>7
  <2>9. negotiate(prefs, S) = CHOOSE x \in have : \A o \in have : prefs[x] <= prefs[o]
    BY <1>1, <1>3 DEF negotiate
  <2> QED
    BY <1>1, <2>8, <2>9
<1> QED
  BY <1>2, <1>3

LEMMA WidgetIndInit == WidgetInit => WidgetInd
<1> SUFFICES ASSUME WidgetInit PROVE WidgetInd
  OBVIOUS
<1>0. TranslationsInit /\ ~Own
  BY DEF WidgetInit
<1>1. LiveInd /\ ~Own /\ shipped \in Catalogs /\ torn = FALSE
  <2>1. shipped \in Catalogs /\ torn = FALSE
    BY <1>0 DEF TranslationsInit
  <2> QED
    BY <1>0, <2>1, LiveIndInit
<1>2. Untorn
  BY <1>1 DEF LiveInd
<1>3. PICK u \in Tabs : pull = [r \in Pulls |-> NoPull(u)]
  BY DEF WidgetInit, WidgetFirst
<1>4. /\ tab = [t \in Tabs |-> NoTab] /\ stored = [l \in Locales |-> NoBundle] /\ shelf = NoManifest
      /\ newest = [t \in Tabs |-> 0] /\ late = FALSE
  BY DEF WidgetInit, WidgetFirst
<1>5. PICK x : x = NoTab
  OBVIOUS
<1>6. x = [explicit |-> FALSE, locale |-> NoLang, version |-> 0, strings |-> <<>>, held |-> NoManifest]
  BY <1>5 DEF NoTab
<1>7. TabShape(x) /\ x.version = 0 /\ x.held = NoManifest
  BY <1>6 DEF TabShape
<1>8. \A t \in Tabs : tab[t] = x /\ newest[t] = 0
  BY <1>4, <1>5
<1>9. PICK p : p = NoPull(u)
  OBVIOUS
<1>10. \A r \in Pulls : pull[r] = p
  BY <1>3, <1>9
<1>11. PullShape(p) /\ p.pc = "idle" /\ p.manifest = NoManifest
  BY <1>9, NoPullShaped
<1>12. WidgetShaped
  BY <1>3, <1>4, <1>7, <1>8, <1>10, <1>11 DEF WidgetShaped
<1>13. Genuine(NoManifest) /\ Latest(releases) \in Nat
  BY <1>2, NothingGenuine, Numbered
<1>14. \A l \in Locales : stored[l].version = 0
  BY <1>4 DEF NoBundle
<1>15. WidgetRight
  BY <1>4, <1>7, <1>8, <1>10, <1>11, <1>13, <1>14 DEF WidgetRight, Fits, PullRight
<1> QED
  BY <1>1, <1>12, <1>15 DEF WidgetInd

\* what the server holds stays: its part of the invariant and what it says of manifests and texts
LEMMA ServerStill ==
  ASSUME WidgetInd, UNCHANGED translationVars
  PROVE  /\ Own' = Own /\ shipped' = shipped /\ LiveInd' /\ torn' = torn
         /\ releases' = releases /\ bundles' = bundles
         /\ \A m : Genuine(m)' <=> Genuine(m)
<1>1. /\ shipped' = shipped /\ torn' = torn /\ releases' = releases /\ bundles' = bundles
      /\ UNCHANGED <<drafts, owed, edit>>
  BY DEF translationVars
<1>2. LiveInd'
  BY <1>1, UntornLeft DEF WidgetInd, LiveInd
<1> QED
  BY <1>1, <1>2 DEF Own, Genuine, Offers

\* the invariant after a step of a page, from what it says of the values after it
LEMMA PageKeepsInd ==
  ASSUME WidgetInd, UNCHANGED translationVars, WidgetShaped', late => late',
         ~late' /\ Untorn /\ WidgetRight =>
             /\ \A l \in Locales : Fits(l, stored'[l])
             /\ Genuine(shelf')
             /\ \A t \in Tabs : /\ Fits(tab'[t].locale, tab'[t]) /\ Genuine(tab'[t].held)
                                /\ newest'[t] \in 0..Latest(releases)
             /\ \A r \in Pulls : PullRight(pull'[r], tab'[pull'[r].tab].locale, newest'[pull'[r].tab])
  PROVE  WidgetInd'
<1>1. /\ Own' = Own /\ shipped' = shipped /\ LiveInd' /\ torn' = torn
      /\ releases' = releases /\ bundles' = bundles
  BY ServerStill
<1>2. ASSUME ~late', ~torn' PROVE WidgetRight'
  <2>1. Untorn /\ WidgetRight
    BY <1>1, <1>2 DEF WidgetInd, LiveInd
  <2>2. \A l \in Locales : Fits(l, stored'[l])
    BY <1>2, <2>1
  <2>3. Genuine(shelf')
    BY <1>2, <2>1
  <2>4. \A t \in Tabs : /\ Fits(tab'[t].locale, tab'[t]) /\ Genuine(tab'[t].held)
                        /\ newest'[t] \in 0..Latest(releases)
    BY <1>2, <2>1
  <2>5. \A r \in Pulls : PullRight(pull'[r], tab'[pull'[r].tab].locale, newest'[pull'[r].tab])
    BY <1>2, <2>1
  <2>6. \A l \in Locales : Fits(l, stored[l])'
    BY <1>1, <2>2 DEF Fits
  <2>7. Genuine(shelf)'
    BY <1>1, <2>3 DEF Genuine, Offers
  <2>8. \A t \in Tabs : /\ Fits(tab[t].locale, tab[t])' /\ Genuine(tab[t].held)'
                        /\ newest'[t] \in 0..Latest(releases')
    BY <1>1, <2>4 DEF Fits, Genuine, Offers
  <2>9. \A r \in Pulls : PullRight(pull[r], tab[pull[r].tab].locale, newest[pull[r].tab])'
    BY <1>1, <2>5 DEF PullRight, Genuine, Offers
  <2> QED
    BY <2>6, <2>7, <2>8, <2>9 DEF WidgetRight
<1> QED
  BY <1>1, <1>2 DEF WidgetInd

LEMMA LoadFits ==
  ASSUME Untorn, \A l \in Locales : Fits(l, stored[l]), NEW l \in Locales
  PROVE  Fits(l, load(l))
<1>1. Latest(releases) \in Nat
  BY Numbered
<1>2. CASE stored[l].version # 0
  BY <1>2 DEF load
<1>3. CASE stored[l].version = 0
  <2>1. load(l).version = 0
    BY <1>3 DEF load
  <2> QED
    BY <1>1, <2>1 DEF Fits
<1> QED
  BY <1>2, <1>3

LEMMA InLanguageIs ==
  ASSUME NEW x, TabShape(x), NEW l
  PROVE  InLanguage(x, l) = [explicit |-> x.explicit, locale |-> l, version |-> load(l).version,
                             strings |-> load(l).strings, held |-> x.held]
<1>1. x = [explicit |-> x.explicit, locale |-> x.locale, version |-> x.version, strings |-> x.strings, held |-> x.held]
  BY DEF TabShape
<1>2. PICK w, ws : w = load(l).version /\ ws = load(l).strings
  OBVIOUS
<1>3. InLanguage(x, l) = [x EXCEPT !.locale = l, !.version = w, !.strings = ws]
  BY <1>2 DEF InLanguage
<1>4. PICK y : y = [x EXCEPT !.locale = l, !.version = w, !.strings = ws]
  OBVIOUS
<1>5. y = [explicit |-> x.explicit, locale |-> l, version |-> w, strings |-> ws, held |-> x.held]
  BY <1>1, <1>4
<1> QED
  BY <1>2, <1>3, <1>4, <1>5

LEMMA OpenStep ==
  ASSUME WidgetInd, UNCHANGED translationVars, NEW t \in Tabs, Open(t)
  PROVE  WidgetInd'
<1>1. PICK named \in Locales \cup {NoLang}, prefs \in DevicePrefs :
        LET guess == negotiate(prefs, DOMAIN shipped)
            l == IF named # NoLang THEN named ELSE IF guess # NoLang THEN guess ELSE Source IN
        tab' = [tab EXCEPT ![t] = [InLanguage(NoTab, l) EXCEPT !.explicit = named # NoLang, !.held = shelf]]
  BY DEF Open
<1>2. PICK guess : guess = negotiate(prefs, DOMAIN shipped)
  OBVIOUS
<1>3. PICK l : l = IF named # NoLang THEN named ELSE IF guess # NoLang THEN guess ELSE Source
  OBVIOUS
<1>4. PICK ex : ex = (named # NoLang)
  OBVIOUS
<1>5. PICK x : x = [InLanguage(NoTab, l) EXCEPT !.explicit = ex, !.held = shelf]
  OBVIOUS
<1>6. tab' = [tab EXCEPT ![t] = x]
  BY <1>1, <1>2, <1>3, <1>4, <1>5
<1>7. PICK z : z = NoTab
  OBVIOUS
<1>8. TabShape(z)
  BY <1>7 DEF NoTab, TabShape
<1>9. InLanguage(z, l) = [explicit |-> z.explicit, locale |-> l, version |-> load(l).version,
                          strings |-> load(l).strings, held |-> z.held]
  BY <1>8, InLanguageIs
<1>10. x = [explicit |-> ex, locale |-> l, version |-> load(l).version, strings |-> load(l).strings, held |-> shelf]
  <2>1. PICK y : y = InLanguage(z, l)
    OBVIOUS
  <2>2. PICK e, k, v, ss, h :
          /\ y = [explicit |-> e, locale |-> k, version |-> v, strings |-> ss, held |-> h]
          /\ k = l /\ v = load(l).version /\ ss = load(l).strings
    BY <1>9, <2>1
  <2>3. x = [y EXCEPT !.explicit = ex, !.held = shelf]
    BY <1>5, <1>7, <2>1
  <2>4. x = [explicit |-> ex, locale |-> k, version |-> v, strings |-> ss, held |-> shelf]
    BY <2>2, <2>3
  <2> QED
    BY <2>2, <2>4
<1>11. l \in Locales
  <2>1. DOMAIN shipped \subseteq Locales /\ Source \in Locales
    BY TranslationsAssumption DEF WidgetInd, Own
  <2>2. guess = NoLang \/ guess \in DOMAIN shipped
    BY <1>2, Negotiated
  <2> QED
    BY <1>3, <2>1, <2>2
<1>12. /\ pull' = [r \in Pulls |-> IF pull[r].tab = t THEN NoPull(t) ELSE pull[r]]
       /\ newest' = [newest EXCEPT ![t] = 0] /\ UNCHANGED <<stored, shelf, late>>
  BY DEF Open
<1>13. TabShape(x) /\ x.locale = l /\ x.held = shelf /\ x.version = load(l).version /\ x.strings = load(l).strings
  BY <1>10 DEF TabShape
<1>14. /\ tab' = [u \in Tabs |-> tab'[u]] /\ \A u \in Tabs : tab'[u] = IF u = t THEN x ELSE tab[u]
       /\ newest' = [u \in Tabs |-> newest'[u]] /\ \A u \in Tabs : newest'[u] = IF u = t THEN 0 ELSE newest[u]
  BY <1>6, <1>12 DEF WidgetInd, WidgetShaped
<1>15. PICK none : none = NoPull(t)
  OBVIOUS
<1>16. PullShape(none) /\ none.tab = t /\ none.pc = "idle" /\ none.manifest = NoManifest
  BY <1>15, NoPullShaped
<1>17. pull' = [r \in Pulls |-> pull'[r]] /\ \A r \in Pulls : pull'[r] = IF pull[r].tab = t THEN none ELSE pull[r]
  BY <1>12, <1>15
<1>18. WidgetShaped'
  <2>1. \A u \in Tabs : TabShape(tab'[u])
    BY <1>13, <1>14 DEF WidgetInd, WidgetShaped
  <2>2. \A r \in Pulls : PullShape(pull'[r])
    BY <1>16, <1>17 DEF WidgetInd, WidgetShaped
  <2>3. (\A u \in Tabs : TabShape(tab[u])') /\ (\A r \in Pulls : PullShape(pull[r])')
    BY <2>1, <2>2 DEF TabShape, PullShape
  <2> QED
    BY <1>12, <1>14, <1>17, <2>3 DEF WidgetInd, WidgetShaped
<1>19. ASSUME Untorn, WidgetRight
       PROVE  /\ \A k \in Locales : Fits(k, stored'[k])
              /\ Genuine(shelf')
              /\ \A u \in Tabs : /\ Fits(tab'[u].locale, tab'[u]) /\ Genuine(tab'[u].held)
                                 /\ newest'[u] \in 0..Latest(releases)
              /\ \A r \in Pulls : PullRight(pull'[r], tab'[pull'[r].tab].locale, newest'[pull'[r].tab])
  <2>1. Latest(releases) \in Nat /\ Genuine(NoManifest)
    BY <1>19, Numbered, NothingGenuine
  <2>2. Fits(l, load(l))
    BY <1>11, <1>19, LoadFits DEF WidgetRight
  <2>3. Fits(x.locale, x)
    BY <1>13, <2>2 DEF Fits
  <2>4. \A u \in Tabs : /\ Fits(tab'[u].locale, tab'[u]) /\ Genuine(tab'[u].held)
                        /\ newest'[u] \in 0..Latest(releases)
    BY <1>13, <1>14, <1>19, <2>1, <2>3 DEF WidgetRight
  <2>5. ASSUME NEW r \in Pulls PROVE PullRight(pull'[r], tab'[pull'[r].tab].locale, newest'[pull'[r].tab])
    <3>1. CASE pull[r].tab = t
      BY <1>16, <1>17, <2>1, <3>1 DEF PullRight
    <3>2. CASE pull[r].tab # t
      <4>1. pull'[r] = pull[r] /\ pull[r].tab \in Tabs
        BY <1>17, <3>2 DEF WidgetInd, WidgetShaped, PullShape
      <4>2. tab'[pull[r].tab] = tab[pull[r].tab] /\ newest'[pull[r].tab] = newest[pull[r].tab]
        BY <1>14, <3>2, <4>1
      <4> QED
        BY <1>19, <4>1, <4>2 DEF WidgetRight
    <3> QED
      BY <3>1, <3>2
  <2> QED
    BY <1>12, <1>19, <2>4, <2>5 DEF WidgetRight
<1> QED
  BY <1>12, <1>18, <1>19, PageKeepsInd

\* a call moves on, and the pages stay as they are
LEMMA PullMoves ==
  ASSUME WidgetInd, UNCHANGED translationVars, NEW r \in Pulls, NEW p, PullShape(p), pull' = [pull EXCEPT ![r] = p],
         UNCHANGED <<tab, stored, shelf, newest, late>>,
         Untorn /\ WidgetRight => PullRight(p, tab[p.tab].locale, newest[p.tab])
  PROVE  WidgetInd'
<1>1. pull' = [o \in Pulls |-> pull'[o]] /\ \A o \in Pulls : pull'[o] = IF o = r THEN p ELSE pull[o]
  BY DEF WidgetInd, WidgetShaped
<1>2. WidgetShaped'
  <2>1. \A o \in Pulls : PullShape(pull'[o])
    BY <1>1 DEF WidgetInd, WidgetShaped
  <2>2. (\A u \in Tabs : TabShape(tab[u])') /\ (\A o \in Pulls : PullShape(pull[o])')
    BY <2>1 DEF TabShape, PullShape, WidgetInd, WidgetShaped
  <2> QED
    BY <1>1, <2>2 DEF WidgetInd, WidgetShaped
<1>3. ASSUME Untorn, WidgetRight
      PROVE  /\ \A k \in Locales : Fits(k, stored'[k])
             /\ Genuine(shelf')
             /\ \A u \in Tabs : /\ Fits(tab'[u].locale, tab'[u]) /\ Genuine(tab'[u].held)
                                /\ newest'[u] \in 0..Latest(releases)
             /\ \A o \in Pulls : PullRight(pull'[o], tab'[pull'[o].tab].locale, newest'[pull'[o].tab])
  <2>1. \A o \in Pulls : PullRight(pull'[o], tab[pull'[o].tab].locale, newest[pull'[o].tab])
    BY <1>1, <1>3 DEF WidgetRight
  <2> QED
    BY <1>3, <2>1 DEF WidgetRight
<1> QED
  BY <1>2, <1>3, PageKeepsInd

LEMMA CallSteps ==
  ASSUME WidgetInd, UNCHANGED translationVars, NEW r \in Pulls,
         (\E t \in Tabs : refresh(r, t)) \/ translationManifest(r) \/ translationBundle(r) \/ giveUp(r)
  PROVE  WidgetInd'
<1>0. PICK o : o = pull[r]
  OBVIOUS
<1>1. o = [tab |-> o.tab, pc |-> o.pc, manifest |-> o.manifest, locale |-> o.locale, version |-> o.version,
           strings |-> o.strings]
  BY <1>0 DEF WidgetInd, WidgetShaped, PullShape
<1>2. o.tab \in Tabs
  BY <1>0 DEF WidgetInd, WidgetShaped, PullShape
<1>3. WidgetRight => PullRight(o, tab[o.tab].locale, newest[o.tab])
  BY <1>0 DEF WidgetRight
<1>4. ASSUME NEW t \in Tabs, refresh(r, t) PROVE WidgetInd'
  <2>1. PICK n, h : n = NoPull(t) /\ h = tab[t].held
    OBVIOUS
  <2>2. n = [tab |-> t, pc |-> "idle", manifest |-> NoManifest, locale |-> NoLang, version |-> 0, strings |-> <<>>]
    BY <2>1, NoPullShaped
  <2>3. PICK p : p = [n EXCEPT !.pc = "ask", !.manifest = h]
    OBVIOUS
  <2>4. p = [tab |-> t, pc |-> "ask", manifest |-> h, locale |-> NoLang, version |-> 0, strings |-> <<>>]
    BY <2>2, <2>3
  <2>5. PullShape(p) /\ p.tab = t /\ p.pc = "ask" /\ p.manifest = h
    BY <2>4 DEF PullShape
  <2>6. pull' = [pull EXCEPT ![r] = p] /\ UNCHANGED <<tab, stored, shelf, newest, late>>
    BY <1>4, <2>1, <2>3 DEF refresh
  <2>7. Untorn /\ WidgetRight => PullRight(p, tab[p.tab].locale, newest[p.tab])
    BY <2>1, <2>5 DEF WidgetRight, PullRight
  <2> QED
    BY <2>5, <2>6, <2>7, PullMoves
<1>5. CASE translationManifest(r)
  <2>1. PICK m : m = IF Manifest = o.manifest THEN NoManifest ELSE Manifest
    OBVIOUS
  <2>2. Untorn => Genuine(m)
    <3>1. ASSUME Untorn PROVE Genuine(Manifest)
      <4>1. Manifest.version = Latest(releases)
        BY DEF Manifest
      <4>2. Latest(releases) \in Nat
        BY <3>1, Numbered
      <4>3. {l \in Locales : <<l, Latest(releases)>> \in TranslationManifest} = Offers(Latest(releases))
        BY DEF TranslationManifest, Offers
      <4>4. Manifest.locales = Offers(Latest(releases))
        BY <4>3 DEF Manifest
      <4> QED
        BY <4>1, <4>2, <4>4 DEF Genuine
    <3> QED
      BY <2>1, <3>1, NothingGenuine
  <2>3. PICK p : p = [o EXCEPT !.pc = "answer", !.manifest = m]
    OBVIOUS
  <2>4. p = [tab |-> o.tab, pc |-> "answer", manifest |-> m, locale |-> o.locale, version |-> o.version, strings |-> o.strings]
    BY <1>1, <2>3
  <2>5. PullShape(p) /\ p.tab = o.tab /\ p.pc = "answer" /\ p.manifest = m
    BY <1>2, <2>4 DEF PullShape
  <2>6. pull' = [pull EXCEPT ![r] = p] /\ UNCHANGED <<tab, stored, shelf, newest, late>>
    BY <1>0, <1>5, <2>1, <2>3 DEF translationManifest, WidgetInd, WidgetShaped
  <2>7. Untorn /\ WidgetRight => PullRight(p, tab[p.tab].locale, newest[p.tab])
    BY <2>2, <2>5 DEF PullRight
  <2> QED
    BY <2>5, <2>6, <2>7, PullMoves
<1>6. CASE translationBundle(r)
  <2>1. o.pc = "fetch" /\ <<o.locale, o.version>> \in DOMAIN bundles
    BY <1>0, <1>6 DEF translationBundle
  <2>2. PICK w : w = bundles[<<o.locale, o.version>>]
    OBVIOUS
  <2>3. PICK p : p = [o EXCEPT !.pc = "apply", !.strings = w]
    OBVIOUS
  <2>4. p = [tab |-> o.tab, pc |-> "apply", manifest |-> o.manifest, locale |-> o.locale, version |-> o.version, strings |-> w]
    BY <1>1, <2>3
  <2>5. PullShape(p) /\ p.tab = o.tab
    BY <1>2, <2>4 DEF PullShape
  <2>6. TranslationBundle(pull[r].locale, pull[r].version) = w
    BY <1>0, <2>1, <2>2 DEF TranslationBundle
  <2>7. pull' = [pull EXCEPT ![r] = p] /\ UNCHANGED <<tab, stored, shelf, newest, late>>
    BY <1>0, <1>6, <2>3, <2>6 DEF translationBundle, WidgetInd, WidgetShaped
  <2>8. Untorn /\ WidgetRight => PullRight(p, tab[p.tab].locale, newest[p.tab])
    BY <1>1, <1>3, <2>1, <2>2, <2>4 DEF PullRight
  <2> QED
    BY <2>5, <2>7, <2>8, PullMoves
<1>7. CASE giveUp(r)
  <2>1. PICK p : p = NoPull(o.tab)
    OBVIOUS
  <2>2. PullShape(p) /\ p.tab = o.tab /\ p.pc = "idle" /\ p.manifest = NoManifest
    BY <1>2, <2>1, NoPullShaped
  <2>3. pull' = [pull EXCEPT ![r] = p] /\ UNCHANGED <<tab, stored, shelf, newest, late>>
    BY <1>0, <1>7, <2>1 DEF giveUp, WidgetInd, WidgetShaped
  <2>4. Untorn /\ WidgetRight => PullRight(p, tab[p.tab].locale, newest[p.tab])
    BY <2>2, NothingGenuine DEF PullRight
  <2> QED
    BY <2>2, <2>3, <2>4, PullMoves
<1> QED
  BY <1>4, <1>5, <1>6, <1>7

\* what a page is after it has taken the manifest m
LEMMA Adopted ==
  ASSUME NEW x, TabShape(x), NEW m, x.held = m, NEW prefs \in DevicePrefs, m.locales \subseteq Locales, NEW y, y = adopt(x, m, prefs)
  PROVE  /\ TabShape(y) /\ y.held = m
         /\ \/ y = x
            \/ /\ x.locale \notin m.locales /\ y.locale \in Locales
               /\ y.version = load(y.locale).version /\ y.strings = load(y.locale).strings
<1>1. PICK best : best = negotiate(prefs, m.locales)
  OBVIOUS
<1>2. PICK l : l = IF best # NoLang THEN best ELSE m.fallback
  OBVIOUS
<1>3. y = IF x.explicit \/ x.locale \in m.locales \/ l \notin m.locales THEN x ELSE InLanguage(x, l)
  BY <1>1, <1>2 DEF adopt
<1>4. CASE y = x
  BY <1>4
<1>5. CASE x.locale \notin m.locales /\ l \in m.locales /\ y = InLanguage(x, l)
  <2>1. y = [explicit |-> x.explicit, locale |-> l, version |-> load(l).version, strings |-> load(l).strings, held |-> x.held]
    BY <1>5, InLanguageIs
  <2>2. TabShape(y) /\ y.locale = l /\ y.version = load(l).version /\ y.strings = load(l).strings /\ y.held = m
    BY <2>1 DEF TabShape
  <2> QED
    BY <1>5, <2>2
<1> QED
  BY <1>3, <1>4, <1>5

LEMMA HoldStep ==
  ASSUME WidgetInd, UNCHANGED translationVars, NEW r \in Pulls, hold(r)
  PROVE  WidgetInd'
<1>0. PICK o : o = pull[r]
  OBVIOUS
<1>1. PICK t : t = o.tab
  OBVIOUS
<1>2. t \in Tabs /\ TabShape(tab[t])
  BY <1>0, <1>1 DEF WidgetInd, WidgetShaped, PullShape
<1>3. PICK m : m = IF o.manifest = NoManifest THEN tab[t].held ELSE o.manifest
  OBVIOUS
<1>4. PICK prefs \in DevicePrefs :
        LET x == adopt([tab[t] EXCEPT !.held = m], m, prefs) IN
        /\ tab' = [tab EXCEPT ![t] = x]
        /\ shelf' \in writeSlot(shelf, m)
        /\ pull' = [pull EXCEPT ![r] =
                      IF x.locale \in m.locales /\ x.version # m.version
                      THEN [NoPull(t) EXCEPT !.pc = "fetch", !.locale = x.locale, !.version = m.version]
                      ELSE NoPull(t)]
        /\ late' = (late \/ m.version < newest[t])
        /\ newest' = [newest EXCEPT ![t] = m.version]
        /\ UNCHANGED stored
  BY <1>0, <1>1, <1>3 DEF hold
<1>5. PICK w : w = tab[t]
  OBVIOUS
<1>6. PICK x0 : x0 = [w EXCEPT !.held = m]
  OBVIOUS
<1>7. w = [explicit |-> w.explicit, locale |-> w.locale, version |-> w.version, strings |-> w.strings, held |-> w.held]
  BY <1>2, <1>5 DEF TabShape
<1>8. x0 = [explicit |-> w.explicit, locale |-> w.locale, version |-> w.version, strings |-> w.strings, held |-> m]
  BY <1>6, <1>7
<1>9. TabShape(x0) /\ x0.held = m /\ x0.locale = w.locale /\ x0.version = w.version /\ x0.strings = w.strings
  BY <1>8 DEF TabShape
<1>10. PICK x : x = adopt(x0, m, prefs)
  OBVIOUS
<1>11. PICK n : n = NoPull(t)
  OBVIOUS
<1>12. n = [tab |-> t, pc |-> "idle", manifest |-> NoManifest, locale |-> NoLang, version |-> 0, strings |-> <<>>]
  BY <1>2, <1>11, NoPullShaped
<1>13. PICK k, v : k = x.locale /\ v = m.version
  OBVIOUS
<1>14. PICK f : f = [n EXCEPT !.pc = "fetch", !.locale = k, !.version = v]
  OBVIOUS
<1>15. f = [tab |-> t, pc |-> "fetch", manifest |-> NoManifest, locale |-> k, version |-> v, strings |-> <<>>]
  BY <1>12, <1>14
<1>16. PICK p : p = IF x.locale \in m.locales /\ x.version # m.version THEN f ELSE n
  OBVIOUS
<1>17. /\ tab' = [tab EXCEPT ![t] = x] /\ shelf' \in {shelf, m} /\ pull' = [pull EXCEPT ![r] = p]
       /\ late' = (late \/ m.version < newest[t]) /\ newest' = [newest EXCEPT ![t] = v] /\ UNCHANGED stored
  BY <1>4, <1>5, <1>6, <1>10, <1>11, <1>13, <1>14, <1>16 DEF writeSlot
<1>18. /\ PullShape(p) /\ p.tab = t /\ p.manifest = NoManifest /\ p.pc \in {"idle", "fetch"}
       /\ p.pc = "fetch" => p.locale = x.locale /\ p.version = m.version /\ x.locale \in m.locales
  BY <1>2, <1>12, <1>13, <1>15, <1>16 DEF PullShape
<1>19. TabShape(x) /\ x.held = m
  <2>1. CASE x = x0
    BY <1>9, <2>1
  <2>2. PICK l : x = x0 \/ x = InLanguage(x0, l)
    BY <1>10 DEF adopt
  <2>3. CASE x = InLanguage(x0, l)
    <3>1. x = [explicit |-> x0.explicit, locale |-> l, version |-> load(l).version, strings |-> load(l).strings, held |-> x0.held]
      BY <1>9, <2>3, InLanguageIs
    <3> QED
      BY <1>9, <3>1 DEF TabShape
  <2> QED
    BY <2>1, <2>2, <2>3
<1>20. /\ tab' = [u \in Tabs |-> tab'[u]] /\ \A u \in Tabs : tab'[u] = IF u = t THEN x ELSE tab[u]
       /\ newest' = [u \in Tabs |-> newest'[u]] /\ \A u \in Tabs : newest'[u] = IF u = t THEN v ELSE newest[u]
       /\ pull' = [q \in Pulls |-> pull'[q]] /\ \A q \in Pulls : pull'[q] = IF q = r THEN p ELSE pull[q]
  BY <1>17 DEF WidgetInd, WidgetShaped
<1>21. late' \in BOOLEAN /\ (late => late')
  <2>1. late \in BOOLEAN
    BY DEF WidgetInd, WidgetShaped
  <2>2. (m.version < newest[t]) \in BOOLEAN
    BY SMT
  <2> QED
    BY <1>17, <2>1, <2>2, Zenon
<1>22. WidgetShaped'
  <2>1. \A u \in Tabs : TabShape(tab'[u])
    BY <1>19, <1>20 DEF WidgetInd, WidgetShaped
  <2>2. \A q \in Pulls : PullShape(pull'[q])
    BY <1>18, <1>20 DEF WidgetInd, WidgetShaped
  <2>3. (\A u \in Tabs : TabShape(tab[u])') /\ (\A q \in Pulls : PullShape(pull[q])')
    BY <2>1, <2>2 DEF TabShape, PullShape
  <2> QED
    BY <1>17, <1>20, <1>21, <2>3 DEF WidgetInd, WidgetShaped
<1>23. ASSUME ~late', Untorn, WidgetRight
       PROVE  /\ \A l \in Locales : Fits(l, stored'[l])
              /\ Genuine(shelf')
              /\ \A u \in Tabs : /\ Fits(tab'[u].locale, tab'[u]) /\ Genuine(tab'[u].held)
                                 /\ newest'[u] \in 0..Latest(releases)
              /\ \A q \in Pulls : PullRight(pull'[q], tab'[pull'[q].tab].locale, newest'[pull'[q].tab])
  <2>1. PICK top \in Nat : top = Latest(releases)
    BY <1>23, Numbered
  <2>2. Genuine(m) /\ m.locales \subseteq Locales /\ v \in 0..top /\ m.locales = Offers(v)
    <3>1. Genuine(m)
      BY <1>0, <1>1, <1>2, <1>3, <1>23 DEF WidgetRight, PullRight
    <3> QED
      BY <1>13, <2>1, <3>1 DEF Genuine, Offers
  <2>3. newest[t] \in 0..top /\ newest[t] <= v
    <3>1. newest[t] \in 0..top
      BY <1>2, <1>23, <2>1 DEF WidgetRight
    <3>2. ~(m.version < newest[t])
      BY <1>17, <1>21, <1>23
    <3> QED
      BY <1>13, <2>2, <3>1, <3>2
  <2>4. \/ x = x0
        \/ /\ x0.locale \notin m.locales /\ x.locale \in Locales
           /\ x.version = load(x.locale).version /\ x.strings = load(x.locale).strings
    BY <1>9, <1>10, <2>2, Adopted
  <2>5. Fits(w.locale, w)
    BY <1>2, <1>5, <1>23 DEF WidgetRight
  <2>6. Fits(x.locale, x)
    <3>1. CASE x = x0
      BY <1>9, <2>5, <3>1 DEF Fits
    <3>2. CASE x.locale \in Locales /\ x.version = load(x.locale).version /\ x.strings = load(x.locale).strings
      <4>1. Fits(x.locale, load(x.locale))
        BY <1>23, <3>2, LoadFits DEF WidgetRight
      <4> QED
        BY <3>2, <4>1 DEF Fits
    <3> QED
      BY <2>4, <3>1, <3>2
  <2>7. \A u \in Tabs : /\ Fits(tab'[u].locale, tab'[u]) /\ Genuine(tab'[u].held)
                        /\ newest'[u] \in 0..Latest(releases)
    BY <1>19, <1>20, <1>23, <2>1, <2>2, <2>6 DEF WidgetRight
  <2>8. Genuine(NoManifest) /\ Offers(0) = {}
    BY <1>23, NothingGenuine, Numbered
  <2>9. PullRight(p, x.locale, v)
    <3>1. p.pc = "fetch" => p.version = v /\ p.locale = x.locale /\ p.locale \in Offers(v) /\ v # 0
      BY <1>13, <1>18, <2>2, <2>8
    <3> QED
      BY <1>18, <2>2, <2>8, <3>1 DEF PullRight
  <2>10. ASSUME NEW q \in Pulls, q # r PROVE PullRight(pull'[q], tab'[pull'[q].tab].locale, newest'[pull'[q].tab])
    <3>1. PICK b : b = pull[q]
      OBVIOUS
    <3>2. b.tab \in Tabs /\ PullRight(b, tab[b.tab].locale, newest[b.tab])
      BY <1>23, <3>1 DEF WidgetRight, WidgetInd, WidgetShaped, PullShape
    <3>3. pull'[q] = b
      BY <1>20, <2>10, <3>1
    <3>4. CASE b.tab # t
      <4>1. tab'[b.tab] = tab[b.tab] /\ newest'[b.tab] = newest[b.tab]
        BY <1>20, <3>2, <3>4
      <4> QED
        BY <3>2, <3>3, <4>1
    <3>5. CASE b.tab = t
      <4>1. PullRight(b, w.locale, newest[t])
        BY <1>5, <3>2, <3>5
      <4>2. tab'[t] = x /\ newest'[t] = v
        BY <1>2, <1>20
      <4>3. ASSUME b.pc \in {"fetch", "apply"}
            PROVE  b.version \in 1..v /\ b.locale \in Offers(b.version) /\ (b.version = v => x.locale = b.locale)
        <5>1. b.version \in 1..newest[t] /\ b.locale \in Offers(b.version) /\ (b.version = newest[t] => w.locale = b.locale)
          BY <4>1, <4>3 DEF PullRight
        <5>2. b.version \in 1..v /\ (b.version = v => b.version = newest[t])
          BY <2>2, <2>3, <5>1
        <5>3. b.version = v => x0.locale = b.locale /\ b.locale \in m.locales
          BY <1>9, <2>2, <5>1, <5>2
        <5> QED
          BY <2>4, <5>1, <5>2, <5>3
      <4>4. PullRight(b, x.locale, v)
        BY <4>1, <4>3 DEF PullRight
      <4> QED
        BY <3>3, <3>5, <4>2, <4>4
    <3> QED
      BY <3>4, <3>5
  <2>11. \A q \in Pulls : PullRight(pull'[q], tab'[pull'[q].tab].locale, newest'[pull'[q].tab])
    <3>1. pull'[r] = p /\ tab'[t] = x /\ newest'[t] = v
      BY <1>2, <1>20
    <3>2. PullRight(pull'[r], tab'[pull'[r].tab].locale, newest'[pull'[r].tab])
      BY <1>18, <2>9, <3>1
    <3> QED
      BY <2>10, <3>2
  <2>12. Genuine(shelf') /\ \A l \in Locales : Fits(l, stored'[l])
    BY <1>17, <1>23, <2>2 DEF WidgetRight
  <2> QED
    BY <2>7, <2>11, <2>12
<1> QED
  BY <1>21, <1>22, <1>23, PageKeepsInd

LEMMA ApplyStep ==
  ASSUME WidgetInd, UNCHANGED translationVars, NEW r \in Pulls, apply(r)
  PROVE  WidgetInd'
<1>0. PICK o : o = pull[r]
  OBVIOUS
<1>1. PICK t : t = o.tab
  OBVIOUS
<1>2. t \in Tabs /\ TabShape(tab[t]) /\ o.pc = "apply"
  BY <1>0, <1>1 DEF WidgetInd, WidgetShaped, PullShape, apply
<1>3. PICK w : w = tab[t]
  OBVIOUS
<1>4. PICK bv, bs : bv = o.version /\ bs = o.strings
  OBVIOUS
<1>5. PICK b : b = [version |-> bv, strings |-> bs]
  OBVIOUS
<1>6. b.version = bv /\ b.strings = bs
  BY <1>5
<1>7. PICK x : x = [w EXCEPT !.version = bv, !.strings = bs]
  OBVIOUS
<1>8. w = [explicit |-> w.explicit, locale |-> w.locale, version |-> w.version, strings |-> w.strings, held |-> w.held]
  BY <1>2, <1>3 DEF TabShape
<1>9. x = [explicit |-> w.explicit, locale |-> w.locale, version |-> bv, strings |-> bs, held |-> w.held]
  BY <1>7, <1>8
<1>10. TabShape(x) /\ x.locale = w.locale /\ x.held = w.held /\ x.version = bv /\ x.strings = bs
  BY <1>9 DEF TabShape
<1>11. PICK none : none = NoPull(t)
  OBVIOUS
<1>12. PullShape(none) /\ none.tab = t /\ none.pc = "idle" /\ none.manifest = NoManifest
  BY <1>2, <1>11, NoPullShaped
<1>13. /\ tab' = [tab EXCEPT ![t] = x] /\ stored' \in {stored, [stored EXCEPT ![w.locale] = b]}
       /\ pull' = [pull EXCEPT ![r] = none] /\ UNCHANGED <<shelf, newest, late>>
  <2>1. tab' = [tab EXCEPT ![t] = [tab[t] EXCEPT !.version = bv, !.strings = bs]]
    BY <1>0, <1>1, <1>2, <1>4 DEF apply, WidgetInd, WidgetShaped
  <2>2. stored' \in {stored, [stored EXCEPT ![tab[t].locale] = b]}
    BY <1>0, <1>1, <1>4, <1>5 DEF apply, writeSlot
  <2> QED
    BY <1>0, <1>1, <1>3, <1>7, <1>11, <2>1, <2>2 DEF apply
<1>14. /\ tab' = [u \in Tabs |-> tab'[u]] /\ \A u \in Tabs : tab'[u] = IF u = t THEN x ELSE tab[u]
       /\ pull' = [q \in Pulls |-> pull'[q]] /\ \A q \in Pulls : pull'[q] = IF q = r THEN none ELSE pull[q]
  BY <1>13 DEF WidgetInd, WidgetShaped
<1>15. stored' = [l \in Locales |-> stored'[l]] /\ \A l \in Locales : stored'[l] = stored[l] \/ (l = w.locale /\ stored'[l] = b)
  <2>1. stored = [l \in Locales |-> stored[l]]
    BY DEF WidgetInd, WidgetShaped
  <2>2. CASE stored' = stored
    BY <2>1, <2>2
  <2>3. CASE stored' = [stored EXCEPT ![w.locale] = b]
    BY <2>1, <2>3
  <2> QED
    BY <1>13, <2>2, <2>3
<1>16. WidgetShaped'
  <2>1. \A u \in Tabs : TabShape(tab'[u])
    BY <1>10, <1>14 DEF WidgetInd, WidgetShaped
  <2>2. \A q \in Pulls : PullShape(pull'[q])
    BY <1>12, <1>14 DEF WidgetInd, WidgetShaped
  <2>3. (\A u \in Tabs : TabShape(tab[u])') /\ (\A q \in Pulls : PullShape(pull[q])')
    BY <2>1, <2>2 DEF TabShape, PullShape
  <2> QED
    BY <1>13, <1>14, <1>15, <2>3 DEF WidgetInd, WidgetShaped
<1>17. ASSUME Untorn, WidgetRight
       PROVE  /\ \A l \in Locales : Fits(l, stored'[l])
              /\ Genuine(shelf')
              /\ \A u \in Tabs : /\ Fits(tab'[u].locale, tab'[u]) /\ Genuine(tab'[u].held)
                                 /\ newest'[u] \in 0..Latest(releases)
              /\ \A q \in Pulls : PullRight(pull'[q], tab'[pull'[q].tab].locale, newest'[pull'[q].tab])
  <2>1. PICK top \in Nat : top = Latest(releases)
    BY <1>17, Numbered
  <2>2. newest[t] \in 0..top /\ PullRight(o, w.locale, newest[t])
    BY <1>0, <1>1, <1>2, <1>3, <1>17, <2>1 DEF WidgetRight
  <2>3. /\ bv \in 1..newest[t] /\ o.locale \in Offers(bv) /\ (bv = newest[t] => w.locale = o.locale)
        /\ bs = bundles[<<o.locale, bv>>]
    BY <1>2, <1>4, <2>2 DEF PullRight
  <2>4. bv \in 0..top /\ (bv = top => w.locale = o.locale)
    BY <2>2, <2>3
  <2>5. Fits(w.locale, b)
    BY <1>6, <2>1, <2>3, <2>4 DEF Fits, Offers
  <2>6. Fits(x.locale, x)
    BY <1>6, <1>10, <2>5 DEF Fits
  <2>7. \A l \in Locales : Fits(l, stored'[l])
    BY <1>15, <1>17, <2>5 DEF WidgetRight
  <2>8. Genuine(x.held)
    BY <1>2, <1>3, <1>10, <1>17 DEF WidgetRight
  <2>9. \A u \in Tabs : /\ Fits(tab'[u].locale, tab'[u]) /\ Genuine(tab'[u].held)
                        /\ newest'[u] \in 0..Latest(releases)
    BY <1>13, <1>14, <1>17, <2>6, <2>8 DEF WidgetRight
  <2>10. Genuine(NoManifest)
    BY <1>17, NothingGenuine
  <2>11. \A u \in Tabs : tab'[u].locale = tab[u].locale
    BY <1>3, <1>10, <1>14
  <2>12. ASSUME NEW q \in Pulls PROVE PullRight(pull'[q], tab'[pull'[q].tab].locale, newest'[pull'[q].tab])
    <3>1. CASE q = r
      BY <1>12, <1>14, <2>10, <3>1 DEF PullRight
    <3>2. CASE q # r
      <4>1. pull'[q] = pull[q] /\ pull[q].tab \in Tabs
        BY <1>14, <3>2 DEF WidgetInd, WidgetShaped, PullShape
      <4> QED
        BY <1>13, <1>17, <2>11, <4>1 DEF WidgetRight
    <3> QED
      BY <3>1, <3>2
  <2> QED
    BY <1>13, <1>17, <2>7, <2>9, <2>12 DEF WidgetRight
<1> QED
  BY <1>13, <1>16, <1>17, PageKeepsInd

\* what a step of the server does to the releases: nothing, or it adds the next version
LEMMA ServerReleases ==
  ASSUME ~Own, Untorn, TranslationsNext, ~torn'
  PROVE  /\ Untorn' /\ ~Own'
         /\ \/ UNCHANGED <<bundles, releases>>
            \/ /\ Latest(releases') = Latest(releases) + 1
               /\ \A lv \in DOMAIN bundles : lv \in DOMAIN bundles' /\ bundles'[lv] = bundles[lv]
               /\ \A lv \in DOMAIN bundles' : lv \in DOMAIN bundles \/ lv[2] = Latest(releases) + 1
<1>1. Untorn' /\ shipped' = shipped
  <2>1. Untorn'
    BY LiveIndKept DEF LiveInd
  <2>2. shipped' = shipped
    BY DEF TranslationsNext, SaveTranslationProject, CreateTranslationProject, DeleteTranslationProject,
           PutTranslationOverride, DeleteTranslationOverride, DeclareTranslationKey, UndeclareTranslationKey,
           PublishTranslations, RollbackTranslations, WriteEdit, publish, commitRelease, FailEdit, Start
  <2> QED
    BY <2>1, <2>2
<1>2. (\E e \in Edits : commitRelease(e)) \/ UNCHANGED <<bundles, releases>>
  BY DEF TranslationsNext, SaveTranslationProject, CreateTranslationProject, DeleteTranslationProject,
         PutTranslationOverride, DeleteTranslationOverride, DeclareTranslationKey, UndeclareTranslationKey,
         PublishTranslations, RollbackTranslations, WriteEdit, publish, FailEdit, Start
<1>3. ASSUME NEW e \in Edits, commitRelease(e)
      PROVE  /\ Latest(releases') = Latest(releases) + 1
             /\ \A lv \in DOMAIN bundles : lv \in DOMAIN bundles' /\ bundles'[lv] = bundles[lv]
             /\ \A lv \in DOMAIN bundles' : lv \in DOMAIN bundles \/ lv[2] = Latest(releases) + 1
  <2>1. PICK c : c = edit[e]
    OBVIOUS
  <2>2. EditShape(c) /\ EditKnows(c) /\ c.pc = "commit" /\ c.op # "idle"
    BY <1>3, <2>1 DEF Untorn, EditsShaped, commitRelease, EditShape
  <2>3. PICK n \in Nat : releases = 1..n /\ Latest(releases) = n
    BY LatestUpTo DEF Untorn, ReleasesNumbered
  <2>4. nextVersion(c) = n + 1
    <3>1. nextVersion(c) \notin releases
      BY <1>3, <2>1 DEF commitRelease
    <3>2. c.view.version \in Nat /\ c.view.version <= n
      BY <2>2, <2>3 DEF EditShape, EditKnows
    <3> QED
      BY <2>3, <3>1, <3>2 DEF nextVersion
  <2>5. Latest(releases') = n + 1
    <3>1. releases' = (1..n) \cup {n + 1}
      BY <1>3, <2>1, <2>3, <2>4 DEF commitRelease
    <3>2. releases' = 1..(n + 1)
      BY <3>1
    <3>3. Latest(1..(n + 1)) = n + 1
      BY LatestUpTo
    <3> QED
      BY <3>2, <3>3
  <2>6. PICK added : added = ReleaseRows(c)
    OBVIOUS
  <2>7. DOMAIN added = (DOMAIN c.strings) \X {n + 1}
    BY <2>4, <2>6 DEF ReleaseRows
  <2>8. bundles' = Over(bundles, added)
    BY <1>3, <2>1, <2>6 DEF commitRelease, CreateRelease
  <2>9. /\ DOMAIN bundles' = DOMAIN bundles \cup DOMAIN added
        /\ \A lv \in DOMAIN bundles : bundles'[lv] = bundles[lv]
    BY <2>8 DEF Over
  <2> QED
    BY <2>3, <2>5, <2>7, <2>9
<1> QED
  BY <1>1, <1>2, <1>3 DEF Own

LEMMA ServerStep ==
  ASSUME WidgetInd, TranslationsNext, UNCHANGED widgetVars
  PROVE  WidgetInd'
<1>1. UNCHANGED <<tab, stored, shelf, pull, newest, late>>
  BY DEF widgetVars
<1>2. LiveInd' /\ shipped' = shipped /\ Own' = Own
  <2>1. LiveInd'
    BY LiveIndKept DEF WidgetInd
  <2>2. shipped' = shipped
    BY DEF TranslationsNext, SaveTranslationProject, CreateTranslationProject, DeleteTranslationProject,
           PutTranslationOverride, DeleteTranslationOverride, DeclareTranslationKey, UndeclareTranslationKey,
           PublishTranslations, RollbackTranslations, WriteEdit, publish, commitRelease, FailEdit, Start
  <2> QED
    BY <2>1, <2>2 DEF Own
<1>3. WidgetShaped'
  BY <1>1 DEF WidgetInd, WidgetShaped, TabShape, PullShape
<1>4. ASSUME ~late', ~torn' PROVE WidgetRight'
  <2>1. ~torn
    BY <1>4 DEF TranslationsNext, SaveTranslationProject, CreateTranslationProject, DeleteTranslationProject,
           PutTranslationOverride, DeleteTranslationOverride, DeclareTranslationKey, UndeclareTranslationKey,
           PublishTranslations, RollbackTranslations, WriteEdit, publish, commitRelease, FailEdit, Start
  <2>2. Untorn /\ ~Own /\ WidgetRight
    BY <1>1, <1>4, <2>1 DEF WidgetInd, LiveInd
  <2>3. PICK n \in Nat : n = Latest(releases) /\ \A lv \in DOMAIN bundles : lv[2] \in 1..n
    BY <2>2, Numbered
  <2>4. CASE UNCHANGED <<bundles, releases>>
    BY <1>1, <2>2, <2>4 DEF WidgetRight, Fits, PullRight, Genuine, Offers
  <2>5. CASE /\ Latest(releases') = n + 1
             /\ \A lv \in DOMAIN bundles : lv \in DOMAIN bundles' /\ bundles'[lv] = bundles[lv]
             /\ \A lv \in DOMAIN bundles' : lv \in DOMAIN bundles \/ lv[2] = n + 1
    <3>1. ASSUME NEW v \in 0..n PROVE Offers(v)' = Offers(v)
      <4>1. ASSUME NEW l PROVE <<l, v>> \in DOMAIN bundles' <=> <<l, v>> \in DOMAIN bundles
        <5>1. PICK lv : lv = <<l, v>>
          OBVIOUS
        <5>2. lv[2] = v
          BY <5>1
        <5>3. lv[2] # n + 1
          BY <5>2
        <5> QED
          BY <2>5, <5>1, <5>3
      <4> QED
        BY <4>1 DEF Offers
    <3>2. ASSUME NEW m, Genuine(m) PROVE m.version \in 0..Latest(releases') /\ m.locales = Offers(m.version)'
      <4>1. PICK v : v = m.version
        OBVIOUS
      <4>2. v \in 0..n /\ m.locales = Offers(v)
        BY <2>3, <3>2, <4>1 DEF Genuine
      <4>3. Offers(v)' = Offers(v)
        BY <3>1, <4>2
      <4>4. v \in 0..Latest(releases')
        BY <2>5, <4>2
      <4> QED
        BY <4>1, <4>2, <4>3, <4>4 DEF Offers
    <3>3. ASSUME NEW l, NEW b, Fits(l, b) PROVE b.version \in 0..Latest(releases') /\ b.version # Latest(releases')
      BY <2>3, <2>5, <3>3 DEF Fits
    <3>4. \A l \in Locales : Fits(l, stored[l])'
      BY <1>1, <2>2, <3>3 DEF WidgetRight, Fits
    <3>5. Genuine(shelf)'
      BY <1>1, <2>2, <3>2 DEF WidgetRight, Genuine, Offers
    <3>6. ASSUME NEW t \in Tabs
          PROVE  Fits(tab[t].locale, tab[t])' /\ Genuine(tab[t].held)' /\ newest'[t] \in 0..Latest(releases')
      <4>1. Fits(tab[t].locale, tab[t]) /\ Genuine(tab[t].held) /\ newest[t] \in 0..n
        BY <2>2, <2>3 DEF WidgetRight
      <4>2. Fits(tab[t].locale, tab[t])'
        BY <1>1, <3>3, <4>1 DEF Fits
      <4>3. Genuine(tab[t].held)'
        BY <1>1, <3>2, <4>1 DEF Genuine, Offers
      <4> QED
        BY <1>1, <2>5, <4>1, <4>2, <4>3
    <3>7. ASSUME NEW r \in Pulls PROVE PullRight(pull[r], tab[pull[r].tab].locale, newest[pull[r].tab])'
      <4>1. PICK p, loc, new : p = pull[r] /\ loc = tab[p.tab].locale /\ new = newest[p.tab]
        OBVIOUS
      <4>2. PullRight(p, loc, new) /\ new \in 0..n
        BY <2>2, <2>3, <4>1 DEF WidgetRight, WidgetInd, WidgetShaped, PullShape
      <4>3. Genuine(p.manifest)'
        BY <3>2, <4>2 DEF PullRight, Genuine, Offers
      <4>4. ASSUME p.pc \in {"fetch", "apply"}
            PROVE  /\ p.version \in 1..new /\ p.locale \in Offers(p.version)' /\ (p.version = new => loc = p.locale)
                   /\ p.pc = "apply" => p.strings = bundles'[<<p.locale, p.version>>]
        <5>1. p.version \in 1..new /\ p.locale \in Offers(p.version) /\ (p.version = new => loc = p.locale)
          BY <4>2, <4>4 DEF PullRight
        <5>2. p.version \in 0..n
          BY <4>2, <5>1
        <5>3. <<p.locale, p.version>> \in DOMAIN bundles
          BY <5>1 DEF Offers
        <5>4. p.locale \in Offers(p.version)'
          BY <2>5, <5>1, <5>3 DEF Offers
        <5> QED
          BY <2>5, <4>2, <5>1, <5>3, <5>4 DEF PullRight
      <4>5. PullRight(p, loc, new)'
        BY <4>3, <4>4 DEF PullRight, Offers
      <4> QED
        BY <1>1, <4>1, <4>5 DEF PullRight, Genuine, Offers
    <3> QED
      BY <3>4, <3>5, <3>6, <3>7 DEF WidgetRight
  <2> QED
    BY <1>4, <2>2, <2>3, <2>4, <2>5, ServerReleases
<1> QED
  BY <1>2, <1>3, <1>4 DEF WidgetInd

LEMMA WidgetIndKept == WidgetInd /\ [WidgetNext]_<<widgetVars, translationVars>> => WidgetInd'
<1> SUFFICES ASSUME WidgetInd, [WidgetNext]_<<widgetVars, translationVars>> PROVE WidgetInd'
  OBVIOUS
<1>1. CASE PageNext /\ UNCHANGED translationVars
  BY <1>1, OpenStep, CallSteps, HoldStep, ApplyStep DEF PageNext
<1>2. CASE TranslationsNext /\ UNCHANGED widgetVars
  BY <1>2, ServerStep
<1>3. CASE UNCHANGED <<widgetVars, translationVars>>
  <2>1. UNCHANGED <<tab, stored, shelf, pull, newest, late>> /\ UNCHANGED translationVars
    BY <1>3 DEF widgetVars
  <2>2. WidgetShaped'
    BY <2>1 DEF WidgetInd, WidgetShaped, TabShape, PullShape
  <2>3. WidgetRight =>
             /\ \A l \in Locales : Fits(l, stored'[l])
             /\ Genuine(shelf')
             /\ \A t \in Tabs : /\ Fits(tab'[t].locale, tab'[t]) /\ Genuine(tab'[t].held)
                                /\ newest'[t] \in 0..Latest(releases)
             /\ \A r \in Pulls : PullRight(pull'[r], tab'[pull'[r].tab].locale, newest'[pull'[r].tab])
    BY <2>1 DEF WidgetRight
  <2> QED
    BY <2>1, <2>2, <2>3, PageKeepsInd
<1> QED
  BY <1>1, <1>2, <1>3 DEF WidgetNext

(* Whatever calls of refresh() overlap and whatever is edited, released or *)
(* rolled back meanwhile, a page that has the version of the newest        *)
(* release shows that release in its language, and what local storage has  *)
(* of it is that release (web/src/i18n/index.ts, refresh and apply).       *)
THEOREM ShowsTheReleaseHolds == WidgetSpec => []ShowsTheRelease
<1>1. WidgetInd => ShowsTheRelease
  <2> SUFFICES ASSUME WidgetRight PROVE ShowsTheRelease
    BY DEF WidgetInd, ShowsTheRelease
  <2> QED
    BY DEF WidgetRight, Fits, ShowsTheRelease
<1> QED
  BY <1>1, WidgetIndInit, WidgetIndKept, PTL DEF WidgetSpec

-----------------------------------------------------------------------------
(* Sign-in.  Of a session somebody holds, the provider of now vouched, or  *)
(* a write that ends every session is under way: writes of the provider    *)
(* that do not overlap come one at a time, and while a switch-off commits  *)
(* no exchange runs and every session there is goes with it.               *)

ProviderRow == [ver : Nat, only : BOOLEAN]
ExchangeRow ==
    [pc : {"idle", "validate", "member", "create", "check"}, ver : Nat, sub : Subs \cup {NoSub},
     until : Nat, who : Staff \cup {Service}, exp : Nat]
WriteRow ==
    [pc : {"idle", "upsert", "end", "commit"}, prev : Nat, next : ProviderRow, ends : BOOLEAN,
     doomed : SUBSET Session]
TokenRow == [who : Staff, exp : Nat, until : Nat]

SignInTypes ==
    /\ provider \in ProviderRow /\ vers \in Nat /\ link \in [Staff -> Subs \cup {NoSub}]
    /\ embed \in SUBSET Session /\ cookies \in SUBSET CookieSession /\ tokens \in SUBSET TokenRow
    /\ keys \in Nat /\ signIns \in Nat /\ clock \in Nat /\ overlap \in BOOLEAN
    /\ xch \in [Exchanges -> ExchangeRow] /\ wr \in [Writers -> WriteRow]

SignInBounds ==
    /\ provider.ver <= vers /\ \A w \in Writers : wr[w].next.ver <= vers
    /\ keys <= signIns /\ signIns <= MaxSignIns

\* an exchange has a provider, then an identity and an end, then a member
Knows(c) ==
    /\ c.pc # "idle" => c.ver # 0
    /\ c.pc \in {"member", "create", "check"} => c.sub \in Subs /\ (c.until # 0 => c.exp <= c.until)
    /\ c.pc \in {"create", "check"} => c.who \in Staff

Capped(t) == t.until # 0 => t.exp <= t.until

Vouched ==
    /\ \A w, o \in Writers : wr[w].pc # "idle" /\ wr[o].pc # "idle" => w = o
    /\ \A s \in embed : s.handed => s.ver = provider.ver \/ \E w \in Writers : wr[w].pc = "end"
    /\ \A w \in Writers : wr[w].pc = "upsert" /\ ~wr[w].ends =>
          wr[w].next.ver = provider.ver \/ provider.ver = 0
    /\ \A w \in Writers : wr[w].pc = "commit" =>
          /\ \A x \in Exchanges : xch[x].pc = "idle"
          /\ \A s \in embed : Row(s) \in wr[w].doomed

Grounded ==
    /\ \A x \in Exchanges : Knows(xch[x])
    /\ \A s \in embed : Capped(s) /\ s.ver # 0
    /\ \A t \in tokens : Capped(t)

SignInInd == SignInTypes /\ SignInBounds /\ Grounded /\ (~overlap => Vouched)

LEMMA SignInRows ==
  /\ NoProvider \in ProviderRow
  /\ NoExchange \in ExchangeRow /\ NoExchange.pc = "idle" /\ Knows(NoExchange)
  /\ NoWrite \in WriteRow /\ NoWrite.pc = "idle" /\ NoWrite.next.ver = 0
BY DEF NoProvider, NoExchange, NoWrite, ProviderRow, ExchangeRow, WriteRow, Knows

LEMMA SignInIndInit == SignInInit => SignInInd
<1> SUFFICES ASSUME SignInInit PROVE SignInInd
  OBVIOUS
<1>1. \A x \in Exchanges : xch[x] = NoExchange
  BY DEF SignInInit
<1>2. \A w \in Writers : wr[w] = NoWrite
  BY DEF SignInInit
<1>3. SignInTypes
  <2>1. link \in [Staff -> Subs \cup {NoSub}]
    BY DEF SignInInit
  <2> QED
    BY <2>1, SignInRows DEF SignInInit, SignInTypes, ProviderRow
<1>4. SignInBounds
  BY <1>2, SignInRows, SignInAssumption DEF SignInInit, SignInBounds
<1>5. Grounded
  BY <1>1, SignInRows DEF SignInInit, Grounded
<1>6. Vouched
  BY <1>2, SignInRows DEF SignInInit, Vouched
<1> QED
  BY <1>3, <1>4, <1>5, <1>6 DEF SignInInd

\* an exchange moves on and no session changes
LEMMA ExchangeMoves ==
  ASSUME SignInInd, NEW x \in Exchanges, NEW c \in ExchangeRow, Knows(c),
         xch' = [xch EXCEPT ![x] = c], signIns' \in Nat, signIns <= signIns', signIns' <= MaxSignIns,
         UNCHANGED <<provider, vers, link, embed, wr, rest>>, overlap' \in BOOLEAN, overlap => overlap',
         c.pc # "idle" /\ ~overlap' => \A w \in Writers : wr[w].pc # "commit"
  PROVE  SignInInd'
<1>1. xch' \in [Exchanges -> ExchangeRow] /\ \A o \in Exchanges : xch'[o] = IF o = x THEN c ELSE xch[o]
  BY DEF SignInInd, SignInTypes
<1>2. SignInTypes'
  BY <1>1 DEF SignInInd, SignInTypes, rest
<1>3. SignInBounds'
  BY DEF SignInInd, SignInTypes, SignInBounds, rest
<1>4. Grounded'
  BY <1>1 DEF SignInInd, Grounded, rest, Knows, Capped
<1>5. ASSUME ~overlap' PROVE Vouched'
  <2>1. Vouched
    BY <1>5 DEF SignInInd
  <2>2. \A w \in Writers : wr[w].pc = "commit" => \A o \in Exchanges : xch'[o].pc = "idle"
    BY <2>1, <1>1, <1>5 DEF Vouched
  <2> QED
    BY <2>1, <2>2 DEF Vouched, Row
<1> QED
  BY <1>2, <1>3, <1>4, <1>5 DEF SignInInd

LEMMA ExchangeStep ==
  ASSUME SignInInd, NEW x \in Exchanges,
         exchangeEmbedded(x) \/ Validate(x) \/ AdminBySub(x) \/ DieInExchange(x)
  PROVE  SignInInd'
<1>0. SignInTypes /\ SignInBounds /\ Knows(xch[x]) /\ xch[x] \in ExchangeRow
  BY DEF SignInInd, SignInTypes, Grounded
<1>1. CASE exchangeEmbedded(x)
  <2>1. PICK n \in ExchangeRow : n = NoExchange
    BY SignInRows
  <2>2. PICK c : c = [n EXCEPT !.pc = "validate", !.ver = provider.ver]
    OBVIOUS
  <2>3. c \in ExchangeRow /\ Knows(c)
    BY <1>0, <1>1, <2>2 DEF exchangeEmbedded, SignInTypes, ExchangeRow, ProviderRow, Knows
  <2>4. xch' = [xch EXCEPT ![x] = c] /\ UNCHANGED <<provider, vers, link, embed, wr, rest>>
        /\ overlap' = (overlap \/ \E w \in Writers : wr[w].pc = "commit")
        /\ signIns' = signIns + 1 /\ signIns < MaxSignIns
    BY <1>1, <2>1, <2>2 DEF exchangeEmbedded, Request
  <2>5. signIns' \in Nat /\ signIns <= signIns' /\ signIns' <= MaxSignIns
    BY <2>4, <1>0, SignInAssumption DEF SignInTypes
  <2> QED
    BY <2>3, <2>4, <2>5, ExchangeMoves
<1>2. CASE Validate(x)
  <2>0. UNCHANGED <<provider, vers, link, embed, wr, signIns, overlap, rest>> /\ xch[x].pc = "validate"
    BY <1>2 DEF Validate
  <2>1. PICK c \in ExchangeRow : Knows(c) /\ xch' = [xch EXCEPT ![x] = c]
    <3>1. CASE xch' = [xch EXCEPT ![x] = NoExchange]
      BY <3>1, SignInRows
    <3>2. CASE xch' # [xch EXCEPT ![x] = NoExchange]
      <4>1. PICK s \in Subs, until \in 0..MaxClock :
              xch' = [xch EXCEPT ![x].pc = "member", ![x].sub = s, ![x].until = until,
                                 ![x].exp = SessionEnd(until)]
        BY <1>2, <3>2 DEF Validate
      <4>2. PICK b \in ExchangeRow : b = xch[x]
        BY <1>0
      <4>3. PICK e : e = SessionEnd(until)
        OBVIOUS
      <4>4. e \in Nat /\ (until # 0 => e <= until) /\ until \in Nat
        BY <4>3, <1>0, SignInAssumption DEF SessionEnd, Least, SignInTypes
      <4>5. PICK c : c = [b EXCEPT !.pc = "member", !.sub = s, !.until = until, !.exp = e]
        OBVIOUS
      <4>6. c \in ExchangeRow /\ Knows(c)
        BY <4>2, <4>4, <4>5, <2>0, <1>0 DEF ExchangeRow, Knows
      <4>7. xch' = [xch EXCEPT ![x] = c]
        BY <4>1, <4>2, <4>3, <4>5, <1>0 DEF SignInTypes
      <4> QED
        BY <4>6, <4>7
    <3> QED
      BY <3>1, <3>2
  <2>2. ~overlap => \A w \in Writers : wr[w].pc # "commit"
    BY <2>0 DEF SignInInd, Vouched
  <2>3. /\ signIns' \in Nat /\ signIns <= signIns' /\ signIns' <= MaxSignIns
        /\ overlap' \in BOOLEAN /\ (overlap => overlap') /\ UNCHANGED <<provider, vers, link, embed, wr, rest>>
    BY <2>0, <1>0 DEF SignInTypes, SignInBounds
  <2> QED
    BY <2>0, <2>1, <2>2, <2>3, ExchangeMoves
<1>3. CASE AdminBySub(x)
  <2>0. UNCHANGED <<provider, vers, link, embed, wr, signIns, overlap, rest>> /\ xch[x].pc = "member"
    BY <1>3 DEF AdminBySub
  <2>1. PICK c \in ExchangeRow : Knows(c) /\ xch' = [xch EXCEPT ![x] = c]
    <3>1. CASE xch' = [xch EXCEPT ![x] = NoExchange]
      BY <3>1, SignInRows
    <3>2. CASE xch' # [xch EXCEPT ![x] = NoExchange]
      <4>1. PICK m \in Staff : xch' = [xch EXCEPT ![x].pc = "create", ![x].who = m]
        BY <1>3, <3>2 DEF AdminBySub
      <4>2. PICK b \in ExchangeRow : b = xch[x]
        BY <1>0
      <4>5. PICK c : c = [b EXCEPT !.pc = "create", !.who = m]
        OBVIOUS
      <4>6. c \in ExchangeRow /\ Knows(c)
        BY <4>2, <4>5, <2>0, <1>0 DEF ExchangeRow, Knows
      <4>7. xch' = [xch EXCEPT ![x] = c]
        BY <4>1, <4>2, <4>5, <1>0 DEF SignInTypes
      <4> QED
        BY <4>6, <4>7
    <3> QED
      BY <3>1, <3>2
  <2>2. ~overlap => \A w \in Writers : wr[w].pc # "commit"
    BY <2>0 DEF SignInInd, Vouched
  <2>3. /\ signIns' \in Nat /\ signIns <= signIns' /\ signIns' <= MaxSignIns
        /\ overlap' \in BOOLEAN /\ (overlap => overlap') /\ UNCHANGED <<provider, vers, link, embed, wr, rest>>
    BY <2>0, <1>0 DEF SignInTypes, SignInBounds
  <2> QED
    BY <2>0, <2>1, <2>2, <2>3, ExchangeMoves
<1>4. CASE DieInExchange(x)
  <2>0. /\ UNCHANGED <<provider, vers, link, embed, wr, signIns, overlap, rest>>
        /\ xch' = [xch EXCEPT ![x] = NoExchange]
    BY <1>4 DEF DieInExchange
  <2>1. PICK c : c = NoExchange
    OBVIOUS
  <2>3. /\ signIns' \in Nat /\ signIns <= signIns' /\ signIns' <= MaxSignIns
        /\ overlap' \in BOOLEAN /\ (overlap => overlap') /\ UNCHANGED <<provider, vers, link, embed, wr, rest>>
    BY <2>0, <1>0 DEF SignInTypes, SignInBounds
  <2> QED
    BY <2>0, <2>1, <2>3, SignInRows, ExchangeMoves
<1> QED
  BY <1>1, <1>2, <1>3, <1>4

LEMMA MintedTyped ==
  ASSUME NEW c \in ExchangeRow, Knows(c), c.pc \in {"create", "check"}
  PROVE  /\ Minted(c) \in Session /\ Capped(Minted(c)) /\ Minted(c).ver # 0 /\ ~Minted(c).handed
         /\ LET s == [Minted(c) EXCEPT !.handed = TRUE] IN
              s \in Session /\ Capped(s) /\ s.ver # 0 /\ s.ver = c.ver
BY DEF Minted, ExchangeRow, Session, Knows, Capped

\* an exchange writes sessions: its own, or one that the provider of now vouched for
LEMMA EmbedMoves ==
  ASSUME SignInInd, NEW x \in Exchanges, NEW c \in ExchangeRow, Knows(c), xch[x].pc # "idle",
         xch' = [xch EXCEPT ![x] = c], UNCHANGED <<provider, vers, link, wr, signIns, overlap, rest>>,
         embed' \in SUBSET Session,
         \A s \in embed' : s \in embed \/ (Capped(s) /\ s.ver # 0 /\ (s.handed => s.ver = provider.ver))
  PROVE  SignInInd'
<1>1. xch' \in [Exchanges -> ExchangeRow] /\ \A o \in Exchanges : xch'[o] = IF o = x THEN c ELSE xch[o]
  BY DEF SignInInd, SignInTypes
<1>2. SignInTypes'
  BY <1>1 DEF SignInInd, SignInTypes, rest
<1>3. SignInBounds'
  BY DEF SignInInd, SignInBounds, rest
<1>4. Grounded'
  BY <1>1 DEF SignInInd, Grounded, rest, Knows, Capped
<1>5. ASSUME ~overlap' PROVE Vouched'
  <2>1. Vouched
    BY <1>5 DEF SignInInd
  <2>2. \A w \in Writers : wr[w].pc # "commit"
    BY <2>1 DEF Vouched
  <2> QED
    BY <2>1, <2>2 DEF Vouched
<1> QED
  BY <1>2, <1>3, <1>4, <1>5 DEF SignInInd

LEMMA SessionStep ==
  ASSUME SignInInd, NEW x \in Exchanges, CreateSession(x) \/ Recheck(x)
  PROVE  SignInInd'
<1>0. SignInTypes /\ \A s \in embed : s \in Session
  BY DEF SignInInd, SignInTypes
<1>1. PICK c \in ExchangeRow : c = xch[x] /\ Knows(c)
  BY DEF SignInInd, SignInTypes, Grounded
<1>2. CASE CreateSession(x)
  <2>1. /\ c.pc = "create" /\ UNCHANGED <<provider, vers, link, wr, signIns, overlap, rest>>
        /\ embed' = {s \in embed : ~(s.who = c.who /\ s.exp < clock)} \cup {Minted(c)}
        /\ xch' = [xch EXCEPT ![x].pc = "check"]
    BY <1>1, <1>2 DEF CreateSession
  <2>2. PICK d : d = [c EXCEPT !.pc = "check"]
    OBVIOUS
  <2>3. d \in ExchangeRow /\ Knows(d)
    BY <2>1, <2>2, <1>1 DEF ExchangeRow, Knows
  <2>4. xch' = [xch EXCEPT ![x] = d]
    BY <2>1, <2>2, <1>0, <1>1 DEF SignInTypes
  <2>5. embed' \in SUBSET Session
    BY <2>1, <1>0, <1>1, MintedTyped
  <2>6. \A s \in embed' : s \in embed \/ (Capped(s) /\ s.ver # 0 /\ (s.handed => s.ver = provider.ver))
    BY <2>1, <1>1, MintedTyped
  <2> QED
    BY <2>1, <2>3, <2>4, <2>5, <2>6, <1>1, EmbedMoves
<1>3. CASE Recheck(x)
  <2>1. /\ c.pc = "check" /\ UNCHANGED <<provider, vers, link, wr, signIns, overlap, rest>>
        /\ xch' = [xch EXCEPT ![x] = NoExchange]
    BY <1>1, <1>3 DEF Recheck
  <2>2. PICK d \in ExchangeRow : d = NoExchange /\ Knows(d)
    BY SignInRows
  <2>3. \A s \in embed' : s \in embed \/ (provider.ver = c.ver /\ s = [Minted(c) EXCEPT !.handed = TRUE])
    BY <1>1, <1>3 DEF Recheck
  <2>4. embed' \in SUBSET Session
    BY <2>1, <2>3, <1>0, <1>1, MintedTyped
  <2>5. \A s \in embed' : s \in embed \/ (Capped(s) /\ s.ver # 0 /\ (s.handed => s.ver = provider.ver))
    BY <2>1, <2>3, <1>1, MintedTyped
  <2> QED
    BY <2>1, <2>2, <2>4, <2>5, <1>1, EmbedMoves
<1> QED
  BY <1>2, <1>3

LEMMA SetIdentityProviderStep ==
  ASSUME SignInInd, NEW w \in Writers, SetIdentityProvider(w)
  PROVE  SignInInd'
<1>0. SignInTypes /\ SignInBounds /\ Grounded
  BY DEF SignInInd
<1>1. PICK only \in BOOLEAN, rotate \in BOOLEAN :
        /\ wr[w].pc = "idle" /\ signIns < MaxSignIns /\ signIns' = signIns + 1
        /\ vers' = IF rotate THEN vers + 1 ELSE vers
        /\ wr' = [wr EXCEPT ![w] =
                    [pc |-> "upsert", prev |-> provider.ver, doomed |-> {},
                     next |-> [ver |-> IF rotate THEN vers + 1 ELSE provider.ver, only |-> only],
                     ends |-> rotate /\ provider.ver # 0]]
        /\ overlap' = (overlap \/ Overlaps(w))
        /\ UNCHANGED <<provider, link, embed, xch, rest>>
  BY DEF SetIdentityProvider, Request
<1>2. PICK v : v = [ver |-> IF rotate THEN vers + 1 ELSE provider.ver, only |-> only]
  OBVIOUS
<1>3. v \in ProviderRow /\ v.ver <= vers' /\ vers' \in Nat /\ vers <= vers' /\ (~rotate => v.ver = provider.ver)
  BY <1>0, <1>1, <1>2 DEF SignInTypes, SignInBounds, ProviderRow
<1>4. PICK b : b = (rotate /\ provider.ver # 0)
  OBVIOUS
<1>5. PICK c : c = [pc |-> "upsert", prev |-> provider.ver, doomed |-> {}, next |-> v, ends |-> b]
  OBVIOUS
<1>6. c \in WriteRow /\ c.pc = "upsert" /\ c.next = v /\ c.ends = b
  <2>1. provider.ver \in Nat /\ b \in BOOLEAN
    BY <1>0, <1>1, <1>4 DEF SignInTypes, ProviderRow
  <2> QED
    BY <2>1, <1>3, <1>5 DEF WriteRow
<1>7. wr' \in [Writers -> WriteRow] /\ \A o \in Writers : wr'[o] = IF o = w THEN c ELSE wr[o]
  BY <1>0, <1>1, <1>2, <1>4, <1>5, <1>6 DEF SignInTypes
<1>8. SignInTypes'
  BY <1>0, <1>1, <1>3, <1>7 DEF SignInTypes, rest
<1>9. SignInBounds'
  <2>1. \A o \in Writers : wr'[o].next.ver <= vers'
    <3>1. \A o \in Writers : wr[o].next.ver \in Nat /\ wr[o].next.ver <= vers
      BY <1>0 DEF SignInTypes, SignInBounds, WriteRow, ProviderRow
    <3> QED
      BY <3>1, <1>0, <1>3, <1>6, <1>7 DEF SignInTypes
  <2>2. provider'.ver <= vers'
    BY <1>0, <1>1, <1>3 DEF SignInTypes, SignInBounds, ProviderRow
  <2>3. keys' <= signIns' /\ signIns' <= MaxSignIns
    BY <1>0, <1>1, SignInAssumption DEF SignInTypes, SignInBounds, rest
  <2> QED
    BY <2>1, <2>2, <2>3 DEF SignInBounds
<1>10. Grounded'
  BY <1>0, <1>1 DEF Grounded, rest, Knows, Capped
<1>11. ASSUME ~overlap' PROVE Vouched'
  <2>1. ~overlap /\ Vouched /\ ~Overlaps(w)
    BY <1>1, <1>11 DEF SignInInd
  <2>2. \A o \in Writers \ {w} : wr'[o].pc = "idle"
    BY <2>1, <1>7 DEF Overlaps
  <2>3. \A s \in embed : s.handed => s.ver = provider.ver
    BY <2>1, <1>1, <1>7, <2>2 DEF Vouched
  <2> QED
    BY <2>2, <2>3, <1>1, <1>3, <1>4, <1>6, <1>7 DEF Vouched
<1> QED
  BY <1>8, <1>9, <1>10, <1>11 DEF SignInInd

\* a write of the provider moves on; sessions only go
LEMMA WriteMoves ==
  ASSUME SignInInd, NEW w \in Writers, NEW c \in WriteRow, c.next.ver <= vers, wr' = [wr EXCEPT ![w] = c],
         UNCHANGED <<vers, link, xch, rest>>, embed' \in SUBSET embed,
         provider' \in ProviderRow, provider'.ver <= vers,
         signIns' \in Nat, signIns <= signIns', signIns' <= MaxSignIns, overlap' \in BOOLEAN,
         ~overlap' => Vouched'
  PROVE  SignInInd'
<1>1. wr' \in [Writers -> WriteRow] /\ \A o \in Writers : wr'[o] = IF o = w THEN c ELSE wr[o]
  BY DEF SignInInd, SignInTypes
<1>2. SignInTypes'
  BY <1>1 DEF SignInInd, SignInTypes, rest
<1>3. SignInBounds'
  BY <1>1 DEF SignInInd, SignInTypes, SignInBounds, rest
<1>4. Grounded'
  BY DEF SignInInd, Grounded, rest, Knows, Capped
<1> QED
  BY <1>2, <1>3, <1>4 DEF SignInInd

LEMMA UpsertProviderStep ==
  ASSUME SignInInd, NEW w \in Writers, UpsertProvider(w)
  PROVE  SignInInd'
<1>0. SignInTypes /\ SignInBounds /\ Grounded
  BY DEF SignInInd
<1>1. PICK b \in WriteRow : b = wr[w]
  BY <1>0 DEF SignInTypes
<1>2. /\ b.pc = "upsert" /\ provider' = b.next
      /\ UNCHANGED <<vers, link, embed, xch, signIns, overlap, rest>>
  BY <1>1 DEF UpsertProvider
<1>3. PICK c : c = IF b.ends THEN [b EXCEPT !.pc = "end"] ELSE NoWrite
  OBVIOUS
<1>4. /\ c \in WriteRow /\ c.next.ver <= vers
      /\ b.ends => c.pc = "end"
      /\ ~b.ends => c.pc = "idle"
  <2>1. CASE b.ends
    <3>1. [b EXCEPT !.pc = "end"] \in WriteRow /\ [b EXCEPT !.pc = "end"].next = b.next
      BY <1>1 DEF WriteRow
    <3> QED
      BY <2>1, <3>1, <1>0, <1>1, <1>3 DEF SignInBounds
  <2>2. CASE ~b.ends
    BY <2>2, <1>0, <1>3, SignInRows DEF SignInTypes
  <2> QED
    BY <2>1, <2>2
<1>5. wr' = [wr EXCEPT ![w] = c]
  BY <1>0, <1>1, <1>3 DEF UpsertProvider, SignInTypes
<1>6. \A o \in Writers : wr'[o] = IF o = w THEN c ELSE wr[o]
  BY <1>0, <1>5 DEF SignInTypes
<1>7. b.next \in ProviderRow /\ b.next.ver <= vers
  BY <1>0, <1>1 DEF WriteRow, SignInBounds
<1>8. ASSUME ~overlap' PROVE Vouched'
  <2>1. Vouched
    BY <1>2, <1>8 DEF SignInInd
  <2>2. \A o \in Writers \ {w} : wr[o].pc = "idle"
    BY <2>1, <1>1, <1>2 DEF Vouched
  <2>3. \A s \in embed : s.handed => s.ver = provider.ver
    BY <2>1, <2>2, <1>1, <1>2 DEF Vouched
  <2>4. \A s \in embed' : s.handed => s.ver = provider'.ver \/ \E o \in Writers : wr'[o].pc = "end"
    <3>1. CASE b.ends
      BY <3>1, <1>4, <1>6
    <3>2. CASE ~b.ends
      <4>1. b.next.ver = provider.ver \/ provider.ver = 0
        BY <2>1, <3>2, <1>1, <1>2 DEF Vouched
      <4> QED
        BY <4>1, <2>3, <1>0, <1>2 DEF Grounded
    <3> QED
      BY <3>1, <3>2
  <2> QED
    BY <2>1, <2>2, <2>4, <1>4, <1>6 DEF Vouched
<1>9. /\ signIns' \in Nat /\ signIns <= signIns' /\ signIns' <= MaxSignIns
      /\ overlap' \in BOOLEAN /\ embed' \in SUBSET embed /\ UNCHANGED <<vers, link, xch, rest>>
  BY <1>0, <1>2 DEF SignInTypes, SignInBounds
<1> QED
  BY <1>2, <1>4, <1>5, <1>7, <1>8, <1>9, WriteMoves

LEMMA ProviderWriteStep ==
  ASSUME SignInInd, NEW w \in Writers, EndTenantSessions(w) \/ DeleteProvider(w) \/ DieInWrite(w)
  PROVE  SignInInd'
<1>0. SignInTypes /\ SignInBounds /\ Grounded
  BY DEF SignInInd
<1>1. PICK c \in WriteRow : c = NoWrite /\ c.pc = "idle" /\ c.next.ver <= vers
  BY <1>0, SignInRows DEF SignInTypes
<1>2. wr' = [wr EXCEPT ![w] = c] /\ UNCHANGED <<vers, link, xch, rest>> /\ embed' \in SUBSET embed
  BY <1>1 DEF EndTenantSessions, DeleteProvider, DieInWrite
<1>3. \A o \in Writers : wr'[o] = IF o = w THEN c ELSE wr[o]
  BY <1>0, <1>2 DEF SignInTypes
<1>4. /\ signIns' \in Nat /\ signIns <= signIns' /\ signIns' <= MaxSignIns
      /\ overlap' \in BOOLEAN
  <2>1. signIns' = signIns /\ signIns \in Nat /\ signIns <= MaxSignIns
    BY <1>0 DEF EndTenantSessions, DeleteProvider, DieInWrite, SignInTypes, SignInBounds
  <2>2. overlap' = overlap \/ overlap' = TRUE
    BY DEF EndTenantSessions, DeleteProvider, DieInWrite
  <2>3. overlap' \in BOOLEAN
    BY <2>2, <1>0 DEF SignInTypes
  <2> QED
    BY <2>1, <2>3
<1>5. provider' \in ProviderRow /\ provider'.ver <= vers
  <2>1. NoProvider.ver <= vers
    BY <1>0 DEF NoProvider, SignInTypes
  <2> QED
    BY <2>1, <1>0, SignInRows DEF EndTenantSessions, DeleteProvider, DieInWrite, SignInTypes, SignInBounds
<1>6. ASSUME ~overlap' PROVE Vouched'
  <2>1. Vouched /\ ~DieInWrite(w)
    BY <1>6 DEF SignInInd, EndTenantSessions, DeleteProvider, DieInWrite
  <2>2. embed' = {}
    <3>1. CASE EndTenantSessions(w)
      BY <3>1 DEF EndTenantSessions
    <3>2. CASE DeleteProvider(w)
      BY <3>2, <2>1 DEF DeleteProvider, Vouched
    <3> QED
      BY <3>1, <3>2, <2>1
  <2>3. \A o \in Writers : wr'[o].pc = "idle"
    <3>1. wr[w].pc # "idle"
      BY DEF EndTenantSessions, DeleteProvider, DieInWrite
    <3> QED
      BY <3>1, <2>1, <1>1, <1>3 DEF Vouched
  <2> QED
    BY <2>2, <2>3 DEF Vouched
<1> QED
  BY <1>1, <1>2, <1>4, <1>5, <1>6, WriteMoves

LEMMA DeleteSessionsStep ==
  ASSUME SignInInd, NEW w \in Writers, DeleteSessions(w)
  PROVE  SignInInd'
<1>0. SignInTypes /\ SignInBounds /\ Grounded
  BY DEF SignInInd
<1>1. /\ wr[w].pc = "idle" /\ signIns < MaxSignIns /\ signIns' = signIns + 1
      /\ overlap' = (overlap \/ Overlaps(w) \/ \E x \in Exchanges : xch[x].pc # "idle")
      /\ UNCHANGED <<provider, vers, link, embed, xch, rest>>
  BY DEF DeleteSessions, Request
<1>2. PICK n \in WriteRow : n = NoWrite /\ n.next.ver = 0
  BY SignInRows
<1>3. PICK D : D = {Row(s) : s \in embed}
  OBVIOUS
<1>4. D \in SUBSET Session
  <2>1. \A s \in Session : Row(s) \in Session
    BY DEF Row, Session
  <2> QED
    BY <2>1, <1>0, <1>3 DEF SignInTypes
<1>5. PICK c : c = [n EXCEPT !.pc = "commit", !.doomed = D]
  OBVIOUS
<1>6. c \in WriteRow /\ c.next.ver = 0 /\ c.pc = "commit" /\ c.doomed = D
  BY <1>2, <1>4, <1>5 DEF WriteRow
<1>7. wr' = [wr EXCEPT ![w] = c]
  BY <1>2, <1>3, <1>5 DEF DeleteSessions
<1>8. \A o \in Writers : wr'[o] = IF o = w THEN c ELSE wr[o]
  BY <1>0, <1>7 DEF SignInTypes
<1>9. /\ signIns' \in Nat /\ signIns <= signIns' /\ signIns' <= MaxSignIns /\ c.next.ver <= vers
      /\ overlap' \in BOOLEAN /\ embed' \in SUBSET embed /\ provider' \in ProviderRow /\ provider'.ver <= vers
  BY <1>0, <1>1, <1>6, SignInAssumption DEF SignInTypes, SignInBounds
<1>10. ASSUME ~overlap' PROVE Vouched'
  <2>1. Vouched /\ ~Overlaps(w) /\ \A x \in Exchanges : xch[x].pc = "idle"
    BY <1>1, <1>10 DEF SignInInd
  <2>2. \A o \in Writers \ {w} : wr[o].pc = "idle"
    BY <2>1 DEF Overlaps
  <2>3. \A s \in embed : s.handed => s.ver = provider.ver
    BY <2>1, <2>2, <1>1 DEF Vouched
  <2>4. \A s \in embed : Row(s) \in D
    BY <1>3
  <2>5. \A s : Row(s)' = Row(s)
    BY DEF Row
  <2> QED
    BY <2>1, <2>2, <2>3, <2>4, <2>5, <1>1, <1>6, <1>8 DEF Vouched
<1> QED
  BY <1>1, <1>6, <1>7, <1>9, <1>10, WriteMoves

\* neither the provider nor an exchange moves; sessions only go
LEMMA AroundStep ==
  ASSUME SignInInd, UNCHANGED <<provider, vers, xch, wr, overlap>>, embed' \in SUBSET embed,
         link' \in [Staff -> Subs \cup {NoSub}], cookies' \in SUBSET CookieSession, tokens' \in SUBSET TokenRow,
         \A t \in tokens' : Capped(t), keys' \in Nat, signIns' \in Nat, keys' <= signIns', signIns' <= MaxSignIns,
         clock' \in Nat
  PROVE  SignInInd'
<1>1. SignInTypes'
  BY DEF SignInInd, SignInTypes
<1>2. SignInBounds'
  BY DEF SignInInd, SignInBounds
<1>3. Grounded'
  BY DEF SignInInd, Grounded, Knows, Capped
<1>4. ~overlap' => Vouched'
  <2>1. \A s : Row(s)' = Row(s)
    BY DEF Row
  <2> QED
    BY <2>1 DEF SignInInd, Vouched
<1> QED
  BY <1>1, <1>2, <1>3, <1>4 DEF SignInInd

LEMMA AroundSteps ==
  ASSUME SignInInd,
         \/ \E m \in Staff, s \in Subs \cup {NoSub} : SetExternalSub(m, s)
         \/ \E m \in Staff : mintSession(m)
         \/ \E c \in cookies : Logout(c)
         \/ \E s \in embed : EndEmbedSession(s) \/ realtimeToken(s)
         \/ CreateServiceKey \/ RevokeAPIKey \/ Pass \/ UNCHANGED signInVars
  PROVE  SignInInd'
<1>0. /\ SignInTypes /\ SignInBounds /\ Grounded
      /\ keys \in Nat /\ signIns \in Nat /\ clock \in Nat /\ keys <= signIns /\ signIns <= MaxSignIns /\ MaxSignIns \in Nat
      /\ cookies \in SUBSET CookieSession /\ tokens \in SUBSET TokenRow /\ embed \in SUBSET Session
      /\ link \in [Staff -> Subs \cup {NoSub}] /\ \A t \in tokens : Capped(t)
  BY SignInAssumption DEF SignInInd, SignInTypes, SignInBounds, Grounded
<1>1. ASSUME NEW m \in Staff, NEW s \in Subs \cup {NoSub}, SetExternalSub(m, s) PROVE SignInInd'
  BY <1>0, <1>1, AroundStep DEF SetExternalSub, Request, rest
<1>2. ASSUME NEW m \in Staff, mintSession(m) PROVE SignInInd'
  <2>1. cookies' \in SUBSET CookieSession
    BY <1>0, <1>2, SignInAssumption DEF mintSession, CookieSession
  <2> QED
    BY <2>1, <1>0, <1>2, AroundStep DEF mintSession, Request
<1>3. ASSUME NEW c \in cookies, Logout(c) PROVE SignInInd'
  BY <1>0, <1>3, AroundStep DEF Logout
<1>4. ASSUME NEW s \in embed, EndEmbedSession(s) PROVE SignInInd'
  BY <1>0, <1>4, AroundStep DEF EndEmbedSession, rest
<1>5. ASSUME NEW s \in embed, realtimeToken(s) PROVE SignInInd'
  <2>1. PICK t : t = [who |-> s.who, exp |-> TokenEnd(s), until |-> s.until]
    OBVIOUS
  <2>2. s \in Session /\ Capped(s)
    BY <1>0 DEF Grounded
  <2>3. t \in TokenRow /\ Capped(t)
    BY <2>1, <2>2, <1>0, SignInAssumption DEF TokenEnd, Least, TokenRow, Session, Capped
  <2>4. tokens' = tokens \cup {t}
    BY <1>5, <2>1 DEF realtimeToken
  <2> QED
    BY <2>3, <2>4, <1>0, <1>5, AroundStep DEF realtimeToken
<1>6. CASE CreateServiceKey
  BY <1>0, <1>6, AroundStep DEF CreateServiceKey, Request
<1>7. CASE RevokeAPIKey
  BY <1>0, <1>7, AroundStep DEF RevokeAPIKey
<1>8. CASE Pass
  BY <1>0, <1>8, AroundStep DEF Pass
<1>9. CASE UNCHANGED signInVars
  BY <1>0, <1>9, AroundStep DEF signInVars
<1> QED
  BY <1>1, <1>2, <1>3, <1>4, <1>5, <1>6, <1>7, <1>8, <1>9

LEMMA SignInIndHolds == SignInSpec => []SignInInd
<1>1. SignInInd /\ [SignInNext]_signInVars => SignInInd'
  <2> SUFFICES ASSUME SignInInd, [SignInNext]_signInVars PROVE SignInInd'
    OBVIOUS
  <2>1. ASSUME NEW x \in Exchanges, \/ exchangeEmbedded(x) \/ Validate(x) \/ AdminBySub(x)
                                    \/ CreateSession(x) \/ Recheck(x) \/ DieInExchange(x)
        PROVE  SignInInd'
    BY <2>1, ExchangeStep, SessionStep
  <2>2. ASSUME NEW w \in Writers, \/ SetIdentityProvider(w) \/ UpsertProvider(w) \/ EndTenantSessions(w)
                                  \/ DeleteSessions(w) \/ DeleteProvider(w) \/ DieInWrite(w)
        PROVE  SignInInd'
    BY <2>2, SetIdentityProviderStep, UpsertProviderStep, ProviderWriteStep, DeleteSessionsStep
  <2> QED
    BY <2>1, <2>2, AroundSteps DEF SignInNext
<1> QED
  BY <1>1, SignInIndInit, PTL DEF SignInSpec

(* A session minted by an exchange (domain/identity.go, ExchangeEmbedToken)*)
(* that still resolves was vouched for by the provider of now, when writes *)
(* of the provider did not overlap, however exchanges ran next to them.    *)
THEOREM VouchedByCurrentHolds == SignInSpec => []VouchedByCurrent
<1>1. SignInInd => VouchedByCurrent
  BY DEF SignInInd, Vouched, VouchedByCurrent, resolveEmbedded
<1> QED
  BY <1>1, SignInIndHolds, PTL

(* No session, and no realtime token minted for one, outlives the token    *)
(* the validator vouched for; and a member the tenant refuses every other  *)
(* way in (middleware/auth.go) gets in by such a session only.             *)
THEOREM NeverOutlivesHolds == SignInSpec => []NeverOutlives
<1>1. SignInInd => NeverOutlives
  <2> SUFFICES ASSUME SignInInd PROVE NeverOutlives
    OBVIOUS
  <2>0. SignInTypes /\ SignInBounds /\ Grounded
    BY DEF SignInInd
  <2>1. SignInTypeOK
    <3>1. provider \in [ver : 0..vers, only : BOOLEAN]
      BY <2>0 DEF SignInTypes, SignInBounds, ProviderRow
    <3>2. keys \in 0..MaxSignIns
      BY <2>0, SignInAssumption DEF SignInTypes, SignInBounds
    <3> QED
      BY <2>0, <3>1, <3>2 DEF SignInTypeOK, SignInTypes
  <2>2. \A t \in embed \cup tokens : t.until # 0 => t.exp <= t.until
    BY <2>0 DEF Grounded, Capped
  <2>3. ASSUME NEW m \in Staff, Refused(m), m \in Actors
        PROVE  \E s \in embed : s.who = m /\ resolveEmbedded(s) /\ (s.until # 0 => clock <= s.until)
    <3>1. \A c \in cookies : resolveAdmin(c) => c.who # m
      BY <2>3 DEF resolveAdmin
    <3>2. m \notin resolveAPIKey
      BY SignInAssumption DEF resolveAPIKey
    <3>3. PICK s \in embed : s.who = m /\ resolveEmbedded(s)
      BY <2>3, <3>1, <3>2 DEF Actors
    <3>4. s.exp \in Nat /\ s.until \in Nat /\ clock \in Nat /\ clock <= s.exp
      BY <3>3, <2>0 DEF SignInTypes, Session, resolveEmbedded
    <3> QED
      BY <3>3, <3>4, <2>2
  <2> QED
    BY <2>1, <2>2, <2>3 DEF NeverOutlives
<1> QED
  BY <1>1, SignInIndHolds, PTL

-----------------------------------------------------------------------------
(* The assistant.  A step that waits is fresh, or an approval that is no   *)
(* older has named it; an approval in flight that will be no older names   *)
(* it too, or another one has.                                             *)

AssistantTypes ==
    /\ time \in Nat /\ 1 <= time /\ assertions \in Nat
    /\ steps = [s \in Slots |-> steps[s]] /\ showing = [w \in Turns |-> showing[w]]
    /\ \A s \in Slots : steps[s].at \in Nat /\ steps[s].at <= time /\ DOMAIN steps[s].of \subseteq Labels
    /\ \A w \in Turns : showing[w].pc = "write" =>
          /\ showing[w].to \in Slots /\ DOMAIN showing[w].of \subseteq Labels
          /\ showing[w].at \in Nat /\ 1 <= showing[w].at /\ showing[w].at <= time
    /\ \A a \in approvals : a.items \subseteq Labels /\ a.at \in Nat /\ 1 <= a.at /\ a.at <= time
    /\ approving \in [Approvers -> [pc : {"idle", "stamp", "send"}, at : Nat, items : SUBSET Labels]]
    /\ \A a \in Approvers : approving[a].pc = "send" => 1 <= approving[a].at /\ approving[a].at <= time
    /\ minting \in [Minters -> {"idle", "record"}]

HasLatest == approvals # {} => \E a \in approvals : \A b \in approvals : b.at <= a.at

Answer(s, l) == \E b \in approvals : b.at >= steps[s].at /\ l \in b.items

\* an approval in flight that will hide the message
Hides(a, s) == approving[a].pc = "stamp" \/ (approving[a].pc = "send" /\ approving[a].at >= steps[s].at)

AnsweredAt(s, l) ==
    Waits(s, l) =>
        /\ Fresh(s) \/ Answer(s, l)
        /\ \A a \in Approvers : Hides(a, s) => l \in approving[a].items \/ Answer(s, l)
Answered == \A s \in Slots, l \in Labels : s \notin crossed => AnsweredAt(s, l)

Recording == {m \in Minters : minting[m] = "record"}
Counted == assertions + Cardinality(Recording) < MaxAssertions + Cardinality(Minters)

AssistantInd == AssistantTypes /\ HasLatest /\ Answered /\ Counted

LEMMA LatestApproval ==
  ASSUME AssistantTypes, HasLatest
  PROVE  /\ ApprovedAt \in Nat
         /\ \A b \in approvals : b.at <= ApprovedAt
         /\ approvals # {} => \E b \in approvals : b.at = ApprovedAt
<1>1. CASE approvals = {}
  BY <1>1 DEF ApprovedAt, AssistantTypes
<1>2. CASE approvals # {}
  <2>1. \E t \in {a.at : a \in approvals} : \A a \in approvals : a.at <= t
    BY <1>2 DEF HasLatest
  <2>2. ApprovedAt \in {a.at : a \in approvals} /\ \A a \in approvals : a.at <= ApprovedAt
    BY <1>2, <2>1 DEF ApprovedAt
  <2> QED
    BY <2>2 DEF AssistantTypes
<1> QED
  BY <1>1, <1>2

LEMMA RecordingFinite ==
  ASSUME AssistantTypes
  PROVE  /\ IsFiniteSet(Recording) /\ Cardinality(Recording) \in Nat /\ Cardinality(Minters) \in Nat
         /\ Cardinality(Recording) <= Cardinality(Minters)
<1>1. Recording \in SUBSET Minters
  BY DEF Recording
<1>2. IsFiniteSet(Recording) /\ Cardinality(Recording) <= Cardinality(Minters)
  BY <1>1, FS_Subset, AssistantAssumption
<1> QED
  BY <1>2, FS_CardinalityType, AssistantAssumption

LEMMA AssistantIndInit == AssistantInit => AssistantInd
<1> SUFFICES ASSUME AssistantInit PROVE AssistantInd
  OBVIOUS
<1>1. AssistantTypes
  <2>1. \A s \in Slots : steps[s] = NoSteps
    BY DEF AssistantInit
  <2>2. NoSteps.at = 0 /\ DOMAIN NoSteps.of = {}
    BY DEF NoSteps
  <2>3. steps = [s \in Slots |-> steps[s]] /\ showing = [w \in Turns |-> showing[w]]
    BY DEF AssistantInit
  <2>4. /\ approving \in [Approvers -> [pc : {"idle", "stamp", "send"}, at : Nat, items : SUBSET Labels]]
        /\ \A a \in Approvers : approving[a].pc = "idle"
    BY DEF AssistantInit, NotApproving
  <2>5. minting \in [Minters -> {"idle", "record"}]
    BY DEF AssistantInit
  <2>6. \A s \in Slots : steps[s].at \in Nat /\ steps[s].at <= 0 /\ DOMAIN steps[s].of \subseteq Labels
    BY <2>1, <2>2
  <2>7. time = 1 /\ assertions = 0 /\ approvals = {}
    BY DEF AssistantInit
  <2>8. \A w \in Turns : showing[w].pc = "idle"
    BY DEF AssistantInit, NotShowing
  <2> QED
    BY <2>3, <2>4, <2>5, <2>6, <2>7, <2>8 DEF AssistantTypes
<1>2. HasLatest
  BY DEF AssistantInit, HasLatest
<1>3. Answered
  <2>1. \A s \in Slots, l \in Labels : ~Waits(s, l)
    BY DEF AssistantInit, Waits, NoSteps
  <2> QED
    BY <2>1 DEF Answered, AnsweredAt
<1>4. Counted
  <2>1. Recording = {}
    BY DEF AssistantInit, Recording
  <2>2. Cardinality(Recording) = 0 /\ Cardinality(Minters) \in Nat /\ assertions = 0
    BY <2>1, FS_EmptySet, FS_CardinalityType, AssistantAssumption DEF AssistantInit
  <2> QED
    BY <2>2, AssistantAssumption DEF Counted
<1> QED
  BY <1>1, <1>2, <1>3, <1>4 DEF AssistantInd

\* what no step of a message and no approval changes
LEMMA AnswersLast ==
  ASSUME UNCHANGED <<steps, approvals>>, NEW s \in Slots, NEW l \in Labels, AnsweredAt(s, l),
         \A a \in Approvers : Hides(a, s)' => Hides(a, s) /\ approving'[a].items = approving[a].items
  PROVE  AnsweredAt(s, l)'
<1>1. (Fresh(s)' <=> Fresh(s)) /\ (Waits(s, l)' <=> Waits(s, l)) /\ (Answer(s, l)' <=> Answer(s, l))
  BY DEF Fresh, ApprovedAt, Waits, Answer
<1> QED
  BY <1>1 DEF AnsweredAt

LEMMA ShowStep ==
  ASSUME AssistantInd, NEW w \in Turns, NEW s \in Slots, NEW of \in Documents, Show(w, s, of)
  PROVE  AssistantInd'
<1>0. AssistantTypes /\ HasLatest /\ Counted /\ Answered
  BY DEF AssistantInd
<1>1. UNCHANGED <<steps, approvals, approving, minting, assertions, time, crossed>>
  BY DEF Show
<1>r. PICK r : r = [pc |-> "write", to |-> s, at |-> time, of |-> of]
  OBVIOUS
<1>2. showing' = [showing EXCEPT ![w] = r] /\ r.to = s /\ r.at = time /\ r.of = of
  BY <1>r DEF Show
<1>3. \A o \in Turns : showing'[o] = IF o = w THEN r ELSE showing[o]
  BY <1>0, <1>2 DEF AssistantTypes
<1>4. AssistantTypes'
  <2>1. DOMAIN of \subseteq Labels
    BY DEF Documents
  <2>2. showing' = [o \in Turns |-> showing'[o]]
    BY <1>0, <1>2 DEF AssistantTypes
  <2>3. \A o \in Turns : showing'[o].pc = "write" =>
          /\ showing'[o].to \in Slots /\ DOMAIN showing'[o].of \subseteq Labels
          /\ showing'[o].at \in Nat /\ 1 <= showing'[o].at /\ showing'[o].at <= time'
    BY <2>1, <1>0, <1>1, <1>2, <1>3 DEF AssistantTypes
  <2> QED
    BY <2>2, <2>3, <1>0, <1>1 DEF AssistantTypes
<1>5. HasLatest' /\ Counted'
  BY <1>0, <1>1 DEF HasLatest, Counted, Recording
<1>6. Answered'
  <2>1. \A o \in Slots, a \in Approvers : Hides(a, o)' => Hides(a, o)
    BY <1>1 DEF Hides
  <2> QED
    BY <2>1, <1>0, <1>1, AnswersLast DEF Answered
<1> QED
  BY <1>4, <1>5, <1>6 DEF AssistantInd

LEMMA WriteStepsStep ==
  ASSUME AssistantInd, NEW w \in Turns, WriteSteps(w)
  PROVE  AssistantInd'
<1>0. AssistantTypes /\ HasLatest /\ Counted /\ Answered
  BY DEF AssistantInd
<1>s. PICK s : s = showing[w].to
  OBVIOUS
<1>r. PICK r : r = [sent |-> IF steps[s].at = 0 THEN showing[w].at ELSE steps[s].sent,
                    at |-> showing[w].at, of |-> showing[w].of]
  OBVIOUS
<1>1. /\ showing[w].pc = "write" /\ s \in Slots /\ DOMAIN showing[w].of \subseteq Labels
      /\ showing[w].at \in Nat /\ 1 <= showing[w].at /\ showing[w].at <= time
  BY <1>0, <1>s DEF WriteSteps, AssistantTypes
<1>2. /\ steps' = [steps EXCEPT ![s] = r] /\ r.at = showing[w].at /\ r.of = showing[w].of
      /\ showing' = [showing EXCEPT ![w] = NotShowing]
      /\ crossed' = IF Overtaken(r.at) THEN crossed \cup {s} ELSE crossed \ {s}
      /\ UNCHANGED <<approvals, approving, minting, assertions, time>>
  BY <1>0, <1>1, <1>s, <1>r DEF WriteSteps, AssistantTypes
<1>3. \A o \in Slots : steps'[o] = IF o = s THEN r ELSE steps[o]
  BY <1>0, <1>1, <1>2 DEF AssistantTypes
<1>4. AssistantTypes'
  <2>1. steps' = [o \in Slots |-> steps'[o]] /\ showing' = [o \in Turns |-> showing'[o]]
    BY <1>0, <1>2 DEF AssistantTypes
  <2>2. \A o \in Turns : showing'[o].pc = "write" => showing'[o] = showing[o] /\ showing[o].pc = "write"
    BY <1>0, <1>2 DEF AssistantTypes, NotShowing
  <2>3. \A o \in Turns : showing'[o].pc = "write" =>
          /\ showing'[o].to \in Slots /\ DOMAIN showing'[o].of \subseteq Labels
          /\ showing'[o].at \in Nat /\ 1 <= showing'[o].at /\ showing'[o].at <= time'
    BY <2>2, <1>0, <1>2 DEF AssistantTypes
  <2>4. \A o \in Slots : steps'[o].at \in Nat /\ steps'[o].at <= time' /\ DOMAIN steps'[o].of \subseteq Labels
    BY <1>0, <1>1, <1>2, <1>3 DEF AssistantTypes
  <2> QED
    BY <2>1, <2>3, <2>4, <1>0, <1>2 DEF AssistantTypes
<1>5. HasLatest' /\ Counted'
  BY <1>0, <1>2 DEF HasLatest, Counted, Recording
<1>6. ASSUME NEW o \in Slots, NEW l \in Labels, o \notin crossed' PROVE AnsweredAt(o, l)'
  <2>1. ApprovedAt' = ApprovedAt /\ ApprovedAt \in Nat /\ (approvals # {} => \E b \in approvals : b.at = ApprovedAt)
    BY <1>0, <1>2, LatestApproval DEF ApprovedAt
  <2>2. CASE o = s
    <3>1. ~Overtaken(r.at) /\ steps'[s].at = r.at /\ r.at \in Nat /\ 1 <= r.at
      BY <2>2, <1>1, <1>2, <1>3, <1>6
    <3>2. \A a \in Approvers : ~Hides(a, s)'
      BY <3>1, <1>2 DEF Overtaken, Hides
    <3>3. approvals = {} => ApprovedAt = 0
      BY DEF ApprovedAt
    <3>4. Fresh(s)'
      BY <3>1, <3>3, <2>1, <1>2 DEF Overtaken, Fresh
    <3> QED
      BY <3>2, <3>4, <2>2 DEF AnsweredAt
  <2>3. CASE o # s
    <3>1. steps'[o] = steps[o] /\ o \notin crossed /\ AnsweredAt(o, l)
      BY <2>3, <1>0, <1>2, <1>3, <1>6 DEF Answered
    <3>2. /\ (Fresh(o)' <=> Fresh(o)) /\ (Waits(o, l)' <=> Waits(o, l)) /\ (Answer(o, l)' <=> Answer(o, l))
          /\ \A a \in Approvers : Hides(a, o)' <=> Hides(a, o)
      BY <3>1, <2>1, <1>2 DEF Fresh, Waits, Answer, Hides
    <3> QED
      BY <3>1, <3>2, <1>2 DEF AnsweredAt
  <2> QED
    BY <2>2, <2>3
<1> QED
  BY <1>4, <1>5, <1>6 DEF AssistantInd, Answered

LEMMA ApproveStep ==
  ASSUME AssistantInd, NEW a \in Approvers, ApproveDataAccess(a)
  PROVE  AssistantInd'
<1>0. AssistantTypes /\ HasLatest /\ Counted /\ Answered
  BY DEF AssistantInd
<1>1. PICK S \in Named :
        /\ approving' = [approving EXCEPT ![a] = [pc |-> "stamp", at |-> 0, items |-> S]]
        /\ crossed' = crossed \cup {s \in Slots : Fresh(s) /\ \E l \in Labels \ S : Waits(s, l)}
        /\ UNCHANGED <<steps, showing, approvals, minting, assertions, time>>
  BY DEF ApproveDataAccess
<1>2. S \in SUBSET Labels
  BY DEF Named, awaitingApproval
<1>3. \A o \in Approvers : approving'[o] = IF o = a THEN [pc |-> "stamp", at |-> 0, items |-> S] ELSE approving[o]
  BY <1>0, <1>1 DEF AssistantTypes
<1>4. AssistantTypes'
  <2>1. approving' \in [Approvers -> [pc : {"idle", "stamp", "send"}, at : Nat, items : SUBSET Labels]]
    BY <1>0, <1>1, <1>2 DEF AssistantTypes
  <2>2. \A o \in Approvers : approving'[o].pc = "send" => approving'[o] = approving[o]
    BY <1>3
  <2> QED
    BY <2>1, <2>2, <1>0, <1>1 DEF AssistantTypes
<1>5. HasLatest' /\ Counted'
  BY <1>0, <1>1 DEF HasLatest, Counted, Recording
<1>6. ASSUME NEW s \in Slots, NEW l \in Labels, s \notin crossed' PROVE AnsweredAt(s, l)'
  <2>1. AnsweredAt(s, l) /\ (Fresh(s) /\ Waits(s, l) => l \in S)
    BY <1>0, <1>1, <1>6 DEF Answered
  <2>2. (Fresh(s)' <=> Fresh(s)) /\ (Waits(s, l)' <=> Waits(s, l)) /\ (Answer(s, l)' <=> Answer(s, l))
    BY <1>1 DEF Fresh, ApprovedAt, Waits, Answer
  <2>3. /\ approving'[a].items = S
        /\ \A o \in Approvers \ {a} : approving'[o] = approving[o] /\ (Hides(o, s)' <=> Hides(o, s))
    BY <1>1, <1>3 DEF Hides
  <2> QED
    BY <2>1, <2>2, <2>3 DEF AnsweredAt
<1> QED
  BY <1>4, <1>5, <1>6 DEF AssistantInd, Answered

LEMMA StampApprovalStep ==
  ASSUME AssistantInd, NEW a \in Approvers, StampApproval(a)
  PROVE  AssistantInd'
<1>0. AssistantTypes /\ HasLatest /\ Counted /\ Answered
  BY DEF AssistantInd
<1>1. /\ approving[a].pc = "stamp" /\ approving' = [approving EXCEPT ![a] = [@ EXCEPT !.pc = "send", !.at = time]]
      /\ UNCHANGED <<steps, showing, approvals, minting, assertions, time, crossed>>
  BY DEF StampApproval
<1>2. /\ approving[a] \in [pc : {"idle", "stamp", "send"}, at : Nat, items : SUBSET Labels]
      /\ time \in Nat /\ 1 <= time
  BY <1>0 DEF AssistantTypes
<1>3. /\ approving' \in [Approvers -> [pc : {"idle", "stamp", "send"}, at : Nat, items : SUBSET Labels]]
      /\ approving'[a].at = time /\ approving'[a].items = approving[a].items
      /\ \A o \in Approvers \ {a} : approving'[o] = approving[o]
  BY <1>0, <1>1, <1>2 DEF AssistantTypes
<1>4. \A o \in Approvers : approving'[o].pc = "send" => 1 <= approving'[o].at /\ approving'[o].at <= time'
  BY <1>0, <1>1, <1>2, <1>3 DEF AssistantTypes
<1>5. AssistantTypes' /\ HasLatest' /\ Counted'
  BY <1>0, <1>1, <1>3, <1>4 DEF AssistantTypes, HasLatest, Counted, Recording
<1>6. \A s \in Slots, o \in Approvers : Hides(o, s)' => Hides(o, s) /\ approving'[o].items = approving[o].items
  BY <1>1, <1>3 DEF Hides
<1>7. Answered'
  BY <1>0, <1>1, <1>6, AnswersLast DEF Answered
<1> QED
  BY <1>5, <1>7 DEF AssistantInd

LEMMA SendApprovalStep ==
  ASSUME AssistantInd, NEW a \in Approvers, SendApproval(a)
  PROVE  AssistantInd'
<1>0. AssistantTypes /\ HasLatest /\ Counted /\ Answered
  BY DEF AssistantInd
<1>1. PICK n : n = [at |-> approving[a].at, items |-> approving[a].items]
  OBVIOUS
<1>2. /\ approving[a].pc = "send"
      /\ approvals' = approvals \cup {n}
      /\ approving' = [approving EXCEPT ![a] = NotApproving]
      /\ UNCHANGED <<steps, showing, minting, assertions, time, crossed>>
  BY <1>1 DEF SendApproval
<1>3. /\ n.at = approving[a].at /\ n.items = approving[a].items /\ n.items \subseteq Labels
      /\ n.at \in Nat /\ 1 <= n.at /\ n.at <= time
  BY <1>0, <1>1, <1>2 DEF AssistantTypes
<1>t. \A b \in approvals : b.at \in Nat
  BY <1>0 DEF AssistantTypes
<1>4. AssistantTypes'
  <2>1. approving' \in [Approvers -> [pc : {"idle", "stamp", "send"}, at : Nat, items : SUBSET Labels]]
    BY <1>0, <1>2 DEF AssistantTypes, NotApproving
  <2>2. \A b \in approvals' : b.items \subseteq Labels /\ b.at \in Nat /\ 1 <= b.at /\ b.at <= time'
    BY <1>0, <1>2, <1>3 DEF AssistantTypes
  <2>3. \A o \in Approvers : approving'[o].pc = "send" => approving'[o] = approving[o]
    BY <1>0, <1>2 DEF AssistantTypes, NotApproving
  <2> QED
    BY <2>1, <2>2, <2>3, <1>0, <1>2 DEF AssistantTypes
<1>5. HasLatest'
  <2>1. CASE approvals = {}
    BY <2>1, <1>2, <1>3 DEF HasLatest
  <2>2. CASE approvals # {}
    <3>1. PICK m \in approvals : \A b \in approvals : b.at <= m.at
      BY <2>2, <1>0 DEF HasLatest
    <3>2. CASE n.at <= m.at
      BY <3>1, <3>2, <1>2, <1>3, <1>t DEF HasLatest
    <3>3. CASE ~(n.at <= m.at)
      BY <3>1, <3>3, <1>2, <1>3, <1>t DEF HasLatest
    <3> QED
      BY <3>2, <3>3
  <2> QED
    BY <2>1, <2>2
<1>6. Counted'
  BY <1>0, <1>2 DEF Counted, Recording
<1>7. ASSUME NEW s \in Slots, NEW l \in Labels, s \notin crossed' PROVE AnsweredAt(s, l)'
  <2>1. AnsweredAt(s, l) /\ (Waits(s, l)' <=> Waits(s, l)) /\ (Answer(s, l) => Answer(s, l)')
    BY <1>0, <1>2, <1>7 DEF Answered, Waits, Answer
  <2>2. l \in n.items /\ n.at >= steps[s].at => Answer(s, l)'
    BY <1>2 DEF Answer
  <2>3. \A o \in Approvers : Hides(o, s)' => Hides(o, s) /\ approving'[o].items = approving[o].items
    BY <1>0, <1>2 DEF Hides, AssistantTypes, NotApproving
  <2>4. n.at >= steps[s].at => Hides(a, s)
    BY <1>2, <1>3 DEF Hides
  <2>5. Fresh(s) => Fresh(s)' \/ n.at >= steps[s].at
    <3>2. \E b \in approvals' : b.at = ApprovedAt'
      <4>1. \E t \in {b.at : b \in approvals'} : \A b \in approvals' : b.at <= t
        BY <1>2, <1>5 DEF HasLatest
      <4> QED
        BY <4>1, <1>2 DEF ApprovedAt
    <3>3. PICK b \in approvals' : b.at = ApprovedAt'
      BY <3>2
    <3>4. steps[s].at \in Nat /\ steps'[s] = steps[s]
      BY <1>0, <1>2 DEF AssistantTypes
    <3>5. CASE b = n
      BY <3>3, <3>4, <3>5, <1>3 DEF Fresh
    <3>6. CASE b \in approvals
      BY <3>3, <3>4, <3>6, <1>0, <1>t, LatestApproval DEF Fresh
    <3> QED
      BY <3>3, <3>5, <3>6, <1>2
  <2> QED
    BY <2>1, <2>2, <2>3, <2>4, <2>5, <1>3 DEF AnsweredAt
<1> QED
  BY <1>4, <1>5, <1>6, <1>7 DEF AssistantInd, Answered

LEMMA AssertionStep ==
  ASSUME AssistantInd, NEW m \in Minters, MintRequesterAssertion(m) \/ RecordAssertion(m)
  PROVE  AssistantInd'
<1>0. AssistantTypes /\ HasLatest /\ Counted /\ Answered
  BY DEF AssistantInd
<1>1. UNCHANGED <<steps, showing, approvals, approving, time, crossed>>
  BY DEF MintRequesterAssertion, RecordAssertion
<1>2. minting' \in [Minters -> {"idle", "record"}] /\ assertions' \in Nat
  BY <1>0 DEF MintRequesterAssertion, RecordAssertion, AssistantTypes
<1>3. AssistantTypes' /\ HasLatest'
  BY <1>0, <1>1, <1>2 DEF AssistantTypes, HasLatest
<1>4. Answered'
  <2>1. \A o \in Slots, a \in Approvers : Hides(a, o)' => Hides(a, o)
    BY <1>1 DEF Hides
  <2> QED
    BY <2>1, <1>0, <1>1, AnswersLast DEF Answered
<1>5. Counted'
  <2>1. /\ IsFiniteSet(Recording) /\ Cardinality(Recording) \in Nat /\ Cardinality(Minters) \in Nat
        /\ MaxAssertions \in Nat /\ assertions \in Nat
    BY <1>0, RecordingFinite, AssistantAssumption DEF AssistantTypes
  <2>2. CASE MintRequesterAssertion(m)
    <3>1. assertions' = assertions /\ assertions < MaxAssertions
      BY <2>2 DEF MintRequesterAssertion
    <3>2. (AssistantTypes => Cardinality(Recording) \in Nat /\ Cardinality(Recording) <= Cardinality(Minters))'
      BY RecordingFinite, PTL
    <3>3. Cardinality(Recording)' \in Nat /\ Cardinality(Recording)' <= Cardinality(Minters)
      BY <3>2, <1>3
    <3> QED
      BY <3>1, <3>3, <2>1 DEF Counted
  <2>3. CASE RecordAssertion(m)
    <3>1. assertions' = assertions + 1 /\ m \in Recording /\ Recording' = Recording \ {m}
      BY <2>3, <1>0 DEF RecordAssertion, Recording, AssistantTypes
    <3>2. Cardinality(Recording)' = Cardinality(Recording) - 1
      BY <3>1, <2>1, FS_RemoveElement
    <3> QED
      BY <3>1, <3>2, <2>1, <1>0 DEF Counted
  <2> QED
    BY <2>2, <2>3
<1> QED
  BY <1>3, <1>4, <1>5 DEF AssistantInd

(* No approval (domain/requester_assertion.go, ApproveDataAccess) passes   *)
(* over a step that waits for the requester, unless the step was written   *)
(* after an approval that is no older had read, or the approval had more   *)
(* to name than it can; and the assertions recorded exceed their limit by  *)
(* fewer than the requests that may count at the same time.                *)
THEOREM ApprovalCoversHolds == AssistantSpec => []ApprovalCovers
<1>1. AssistantInd /\ [AssistantNext]_assistantVars => AssistantInd'
  <2> SUFFICES ASSUME AssistantInd, [AssistantNext]_assistantVars PROVE AssistantInd'
    OBVIOUS
  <2>1. ASSUME NEW w \in Turns, SendSteps(w) \/ UpdateMessageParts(w) PROVE AssistantInd'
    BY <2>1, ShowStep DEF SendSteps, UpdateMessageParts
  <2>2. CASE Around \/ UNCHANGED assistantVars
    <3>0. AssistantTypes /\ HasLatest /\ Counted /\ Answered
      BY DEF AssistantInd
    <3>1. UNCHANGED <<steps, showing, approvals, approving, minting, assertions, crossed>>
      BY <2>2 DEF Around, assistantVars
    <3>2. time' \in Nat /\ time <= time'
      BY <2>2, <3>0 DEF Around, assistantVars, AssistantTypes
    <3>3. AssistantTypes'
      <4>1. \A s \in Slots : steps[s].at <= time'
        BY <3>0, <3>2 DEF AssistantTypes
      <4>2. \A b \in approvals : b.at <= time'
        BY <3>0, <3>2 DEF AssistantTypes
      <4>3. \A o \in Approvers : approving[o].pc = "send" => approving[o].at <= time'
        BY <3>0, <3>2 DEF AssistantTypes
      <4>4. \A w \in Turns : showing[w].pc = "write" => showing[w].at <= time'
        BY <3>0, <3>2 DEF AssistantTypes
      <4>5. 1 <= time'
        BY <3>0, <3>2 DEF AssistantTypes
      <4> QED
        BY <3>0, <3>1, <3>2, <4>1, <4>2, <4>3, <4>4, <4>5 DEF AssistantTypes
    <3>4. HasLatest' /\ Counted'
      BY <3>0, <3>1 DEF HasLatest, Counted, Recording
    <3>5. \A o \in Slots, a \in Approvers : Hides(a, o)' => Hides(a, o)
      BY <3>1 DEF Hides
    <3>6. Answered'
      BY <3>0, <3>1, <3>5, AnswersLast DEF Answered
    <3> QED
      BY <3>3, <3>4, <3>6 DEF AssistantInd
  <2> QED
    BY <2>1, <2>2, WriteStepsStep, ApproveStep, StampApprovalStep, SendApprovalStep, AssertionStep
    DEF AssistantNext
<1>2. AssistantInd => ApprovalCovers
  <2> SUFFICES ASSUME AssistantInd PROVE ApprovalCovers
    OBVIOUS
  <2>1. AssistantTypes /\ HasLatest /\ Counted /\ Answered
    BY DEF AssistantInd
  <2>2. AssistantTypeOK
    BY <2>1 DEF AssistantTypes, AssistantTypeOK
  <2>3. ASSUME NEW s \in Slots \ crossed, NEW l \in Labels, Waits(s, l)
        PROVE  l \in awaitingApproval \/ \E a \in approvals : a.at >= steps[s].at /\ l \in a.items
    BY <2>1, <2>3 DEF Answered, AnsweredAt, Answer, awaitingApproval
  <2>4. assertions < MaxAssertions + Cardinality(Minters)
    BY <2>1, RecordingFinite, AssistantAssumption DEF Counted, AssistantTypes
  <2> QED
    BY <2>2, <2>3, <2>4 DEF ApprovalCovers
<1> QED
  BY <1>1, <1>2, AssistantIndInit, PTL DEF AssistantSpec

-----------------------------------------------------------------------------
(* Mail.  Of a mail with a Message-ID that nothing excuses, whoever is     *)
(* past the claim owns the unfinished claim; and once it is stored, its    *)
(* claim is finished or about to be, by its owner.                         *)

Stored(m) == Copies(m) # {}
PastClaim == {"upload", "find", "store", "release", "complete"}
MailKeys == {Letter[m].key : m \in Mails}

ConfigRow == [spam : BOOLEAN, verified : BOOLEAN]
TryRow ==
    [mail : Mails, pc : {"idle", "claim", "finish"} \cup PastClaim, cfg : ConfigRow,
     claimed : BOOLEAN, thread : Nat, created : BOOLEAN]
ClaimRow == [owner : Attempts, at : Nat, done : BOOLEAN]
ThreadRow == [n : Nat, key : MailKeys, open : BOOLEAN, mails : SUBSET (Mails \X Nat)]

MailTypes ==
    /\ spool \in SUBSET Mails /\ acked \in SUBSET Mails /\ dropped \in SUBSET Mails /\ excused \in SUBSET Mails
    /\ emailConfig \in ConfigRow /\ try \in [Attempts -> TryRow] /\ deliveries \in Nat /\ mailClock \in Nat
    /\ DOMAIN ingests \in SUBSET Mails /\ ingests \in [DOMAIN ingests -> ClaimRow]

\* threads are numbered as they are opened, and hold finitely many copies of a mail
ThreadsNumbered ==
    /\ threads \in SUBSET ThreadRow /\ IsFiniteSet(threads)
    /\ \A t, u \in threads : t.n = u.n => t = u
    /\ \A t \in threads : 1 <= t.n /\ t.n <= Cardinality(threads)
    /\ \A m \in Mails : IsFiniteSet(Copies(m))

\* what is acknowledged, finished or about to be is stored
TryKnows(c) ==
    /\ c.pc \in {"complete", "finish"} => Stored(c.mail)
    /\ c.pc = "store" /\ c.thread # 0 => \E t \in threads : t.n = c.thread
    /\ c.pc \in PastClaim /\ Letter[c.mail].mid => c.claimed

MailTracked ==
    /\ \A a \in Attempts : TryKnows(try[a])
    /\ \A m \in DOMAIN ingests : ingests[m].done => Stored(m)
    /\ \A m \in acked \ dropped : Stored(m)

\* where an attempt is with the mail it has claimed
Phase(c, m) == IF c.mail = m /\ c.claimed THEN c.pc ELSE "none"

MailHolds(m) ==
    Letter[m].mid /\ m \notin excused =>
        /\ \A a \in Attempts : Phase(try[a], m) \in PastClaim =>
              m \in DOMAIN ingests /\ ingests[m].owner = a /\ ~ingests[m].done
        /\ Stored(m) => /\ m \in DOMAIN ingests
                        /\ ingests[m].done \/ Phase(try[ingests[m].owner], m) = "complete"
        /\ \A x, y \in Copies(m) : x = y

MailInd == MailTypes /\ ThreadsNumbered /\ MailTracked /\ \A m \in Mails : MailHolds(m)

LEMMA NoTryTyped ==
  NoTry \in TryRow /\ NoTry.pc = "idle" /\ NoTry.claimed = FALSE
<1>1. (CHOOSE m \in Mails : TRUE) \in Mails
  BY InboundAssumption
<1> QED
  BY <1>1 DEF NoTry, TryRow, ConfigRow

LEMMA NoTryKnows == TryKnows(NoTry) /\ \A m : Phase(NoTry, m) = "none"
BY NoTryTyped DEF TryKnows, Phase, PastClaim

LEMMA MailIndInit == InboundInit => MailInd
<1> SUFFICES ASSUME InboundInit PROVE MailInd
  OBVIOUS
<1>1. \A a \in Attempts : try[a] = NoTry
  BY DEF InboundInit
<1>2. MailTypes
  <2>1. try \in [Attempts -> TryRow]
    BY NoTryTyped DEF InboundInit
  <2>2. DOMAIN ingests = {} /\ ingests \in [DOMAIN ingests -> ClaimRow]
    BY DEF InboundInit
  <2> QED
    BY <2>1, <2>2 DEF InboundInit, MailTypes, ConfigRow
<1>3. \A m : Copies(m) = {}
  BY DEF InboundInit, Copies
<1>4. ThreadsNumbered
  BY <1>3, FS_EmptySet DEF InboundInit, ThreadsNumbered
<1>5. MailTracked
  <2>1. \A a \in Attempts : TryKnows(try[a])
    BY <1>1, NoTryKnows
  <2> QED
    BY <2>1 DEF InboundInit, MailTracked
<1>6. \A m \in Mails : MailHolds(m)
  BY <1>1, <1>3, NoTryKnows DEF MailHolds, Stored, PastClaim
<1> QED
  BY <1>2, <1>4, <1>5, <1>6 DEF MailInd

\* an attempt moves on, and neither claims nor threads change
LEMMA TryMoves ==
  ASSUME MailInd, NEW a \in Attempts, NEW c \in TryRow, TryKnows(c), try' = [try EXCEPT ![a] = c],
         UNCHANGED <<ingests, threads, mailClock>>, deliveries' \in Nat, emailConfig' \in ConfigRow,
         spool' \in SUBSET Mails, acked' \in SUBSET Mails, dropped' \in SUBSET Mails, excused' \in SUBSET Mails,
         excused \subseteq excused', \A m \in acked' \ dropped' : Stored(m),
         \A m \in Mails : Letter[m].mid /\ m \notin excused' =>
            /\ Phase(c, m) \in PastClaim => Phase(try[a], m) \in PastClaim
            /\ Phase(try[a], m) = "complete" => Phase(c, m) = "complete"
  PROVE  MailInd'
<1>0. MailTypes /\ ThreadsNumbered /\ MailTracked
  BY DEF MailInd
<1>1. try' \in [Attempts -> TryRow] /\ \A b \in Attempts : try'[b] = IF b = a THEN c ELSE try[b]
  BY <1>0 DEF MailTypes
<1>2. \A m : Copies(m)' = Copies(m) /\ (Stored(m)' <=> Stored(m))
  BY DEF Copies, Stored
<1>3. MailTypes'
  BY <1>0, <1>1 DEF MailTypes
<1>4. ThreadsNumbered'
  BY <1>0, <1>2 DEF ThreadsNumbered
<1>5. MailTracked'
  <2>1. \A b \in Attempts : TryKnows(try[b])'
    <3>1. \A b \in Attempts : TryKnows(try'[b])
      BY <1>0, <1>1 DEF MailTracked
    <3> QED
      BY <3>1, <1>2 DEF TryKnows
  <2> QED
    BY <2>1, <1>0, <1>2 DEF MailTracked
<1>6. ASSUME NEW m \in Mails PROVE MailHolds(m)'
  <2> SUFFICES ASSUME Letter[m].mid, m \notin excused' PROVE MailHolds(m)'
    BY DEF MailHolds
  <2>1. /\ \A b \in Attempts : Phase(try[b], m) \in PastClaim =>
             m \in DOMAIN ingests /\ ingests[m].owner = b /\ ~ingests[m].done
        /\ Stored(m) => /\ m \in DOMAIN ingests
                        /\ ingests[m].done \/ Phase(try[ingests[m].owner], m) = "complete"
        /\ \A x, y \in Copies(m) : x = y
    BY DEF MailInd, MailHolds
  <2>2. \A b \in Attempts : Phase(try'[b], m) \in PastClaim => Phase(try[b], m) \in PastClaim
    BY <1>1
  <2>3. \A b \in Attempts : Phase(try[b], m) = "complete" => Phase(try'[b], m) = "complete"
    BY <1>1
  <2>4. m \in DOMAIN ingests => ingests[m].owner \in Attempts
    BY <1>0 DEF MailTypes, ClaimRow
  <2>5. \A b : Phase(try[b], m)' = Phase(try'[b], m)
    BY DEF Phase
  <2>6. Stored(m)' => m \in DOMAIN ingests' /\ (ingests'[m].done \/ Phase(try[ingests[m].owner], m)' = "complete")
    BY <2>1, <2>3, <2>4, <2>5, <1>2
  <2> QED
    BY <2>1, <2>2, <2>5, <2>6, <1>2 DEF MailHolds
<1> QED
  BY <1>3, <1>4, <1>5, <1>6 DEF MailInd

LEMMA MailFacts ==
  ASSUME MailInd, NEW a \in Attempts
  PROVE  /\ MailTypes /\ ThreadsNumbered /\ MailTracked /\ try[a] \in TryRow /\ TryKnows(try[a])
         /\ try[a].mail \in Mails
         /\ spool \in SUBSET Mails /\ acked \in SUBSET Mails /\ dropped \in SUBSET Mails /\ excused \in SUBSET Mails
         /\ deliveries \in Nat /\ emailConfig \in ConfigRow /\ \A m \in acked \ dropped : Stored(m)
<1>1. try[a] \in TryRow /\ TryKnows(try[a])
  BY DEF MailInd, MailTypes, MailTracked
<1>2. try[a].mail \in Mails
  BY <1>1 DEF TryRow
<1> QED
  BY <1>1, <1>2 DEF MailInd, MailTypes, MailTracked

LEMMA ArriveStep ==
  ASSUME MailInd, NEW a \in Attempts, NEW m \in Mails, HandleForwarded(a, m) \/ HandleInbound(a, m)
  PROVE  MailInd'
<1>0. /\ MailTypes /\ TryKnows(try[a]) /\ try[a] \in TryRow
      /\ spool \in SUBSET Mails /\ acked \in SUBSET Mails /\ dropped \in SUBSET Mails /\ excused \in SUBSET Mails
      /\ deliveries \in Nat /\ emailConfig \in ConfigRow /\ \A x \in acked \ dropped : Stored(x)
  BY MailFacts
<1>1. /\ try[a].pc = "idle" /\ deliveries' = deliveries + 1
      /\ UNCHANGED <<emailConfig, ingests, threads, mailClock, excused>>
  BY DEF HandleForwarded, HandleInbound, Arrive
<1>d. deliveries' \in Nat /\ emailConfig' \in ConfigRow /\ excused' \in SUBSET Mails /\ excused \subseteq excused'
  BY <1>0, <1>1
<1>2. CASE dropped' = dropped \cup {m} /\ Acknowledge(m) /\ UNCHANGED try
  <2>1. PICK c : c = try[a]
    OBVIOUS
  <2>2. try' = [try EXCEPT ![a] = c]
    BY <2>1, <1>0, <1>2 DEF MailTypes
  <2>3. acked' \in SUBSET Mails /\ spool' \in SUBSET Mails /\ dropped' \in SUBSET Mails
    BY <1>0, <1>2 DEF Acknowledge
  <2>4. \A x \in acked' \ dropped' : Stored(x)
    BY <1>0, <1>2 DEF Acknowledge
  <2> QED
    BY <2>1, <2>2, <2>3, <2>4, <1>0, <1>1, <1>d, TryMoves
<1>3. CASE Accept(a, m)
  <2>1. PICK n \in TryRow : n = NoTry /\ n.claimed = FALSE
    BY NoTryTyped
  <2>2. PICK c : c = [n EXCEPT !.mail = m, !.pc = "claim", !.cfg = emailConfig]
    OBVIOUS
  <2>3. c \in TryRow /\ c.pc = "claim" /\ c.claimed = FALSE
    BY <2>1, <2>2, <1>0 DEF TryRow
  <2>4. TryKnows(c) /\ \A x : Phase(c, x) = "none"
    BY <2>3 DEF TryKnows, Phase, PastClaim
  <2>5. try' = [try EXCEPT ![a] = c] /\ UNCHANGED <<spool, acked, dropped>>
    BY <1>3, <2>1, <2>2 DEF Accept
  <2>6. \A x : Phase(try[a], x) # "complete"
    BY <1>1 DEF Phase
  <2>7. "none" \notin PastClaim
    BY DEF PastClaim
  <2>8. spool' \in SUBSET Mails /\ acked' \in SUBSET Mails /\ dropped' \in SUBSET Mails
        /\ \A x \in acked' \ dropped' : Stored(x)
    BY <2>5, <1>0
  <2> QED
    BY <2>3, <2>4, <2>5, <2>6, <2>7, <2>8, <1>0, <1>1, <1>d, TryMoves
<1> QED
  BY <1>2, <1>3 DEF HandleForwarded, HandleInbound

\* an attempt only moves on in the work it has claimed
LEMMA GoStep ==
  ASSUME MailInd, NEW a \in Attempts, NEW pc \in PastClaim, NEW thread \in Nat, try[a].pc \in PastClaim \cup {"claim"},
         try[a].pc # "complete", pc # "complete", try[a].pc = "claim" => ~Letter[try[a].mail].mid,
         pc = "store" /\ thread # 0 => \E t \in threads : t.n = thread,
         try' = [try EXCEPT ![a].pc = pc, ![a].thread = thread],
         UNCHANGED <<spool, emailConfig, ingests, threads, deliveries, mailClock, acked, dropped, excused>>
  PROVE  MailInd'
<1>0. /\ MailTypes /\ TryKnows(try[a]) /\ try[a] \in TryRow
      /\ spool \in SUBSET Mails /\ acked \in SUBSET Mails /\ dropped \in SUBSET Mails /\ excused \in SUBSET Mails
      /\ deliveries \in Nat /\ emailConfig \in ConfigRow /\ \A x \in acked \ dropped : Stored(x)
  BY MailFacts
<1>1. PICK b \in TryRow : b = try[a]
  BY <1>0
<1>2. PICK c : c = [b EXCEPT !.pc = pc, !.thread = thread]
  OBVIOUS
<1>3. c \in TryRow /\ c.pc = pc /\ c.thread = thread /\ c.mail = b.mail /\ c.claimed = b.claimed
  BY <1>2 DEF TryRow, PastClaim
<1>4. try' = [try EXCEPT ![a] = c]
  BY <1>0, <1>1, <1>2 DEF MailTypes
<1>5. TryKnows(c)
  BY <1>0, <1>1, <1>3 DEF TryKnows, PastClaim
<1>6. ASSUME NEW m \in Mails, Letter[m].mid
      PROVE  /\ Phase(c, m) \in PastClaim => Phase(try[a], m) \in PastClaim
             /\ Phase(try[a], m) = "complete" => Phase(c, m) = "complete"
  BY <1>1, <1>3, <1>6 DEF Phase, PastClaim
<1> QED
  BY <1>0, <1>3, <1>4, <1>5, <1>6, TryMoves

LEMMA GreatestOf ==
  ASSUME NEW S \in SUBSET Nat, S # {}, NEW N \in Nat, \A i \in S : i <= N
  PROVE  \E i \in S : \A j \in S : j <= i
<1> DEFINE D == {N - i : i \in S}
<1>1. D \in SUBSET Nat /\ D # {}
  <2>1. \A i \in S : N - i \in Nat
    OBVIOUS
  <2> QED
    BY <2>1
<1>2. PICK k \in D : \A l \in D : <<l, k>> \notin OpToRel(<, Nat)
  <2> HIDE DEF D
  <2> QED
    BY <1>1, NatLessThanWellFounded, WFMin
<1>3. \A l \in D : ~(l < k)
  BY <1>1, <1>2 DEF OpToRel
<1>4. PICK i \in S : k = N - i
  OBVIOUS
<1>5. ASSUME NEW j \in S PROVE j <= i
  <2>1. ~(N - j < N - i)
    BY <1>3, <1>4
  <2> QED
    BY <2>1
<1> QED
  BY <1>5

LEMMA NewestFound ==
  ASSUME ThreadsNumbered, NEW S \in SUBSET {t.n : t \in threads}
  PROVE  Newest(S) \in Nat /\ (Newest(S) # 0 => \E t \in threads : t.n = Newest(S))
<1>1. CASE S = {}
  BY <1>1 DEF Newest
<1>2. CASE S # {}
  <2>1. S \in SUBSET Nat /\ Cardinality(threads) \in Nat /\ \A i \in S : i <= Cardinality(threads)
    BY FS_CardinalityType DEF ThreadsNumbered, ThreadRow
  <2>2. \E i \in S : \A j \in S : j <= i
    <3>1. PICK N : N = Cardinality(threads)
      OBVIOUS
    <3> QED
      BY <3>1, <2>1, <1>2, GreatestOf
  <2>3. Newest(S) \in S
    BY <1>2, <2>2 DEF Newest
  <2> QED
    BY <2>1, <2>3
<1> QED
  BY <1>1, <1>2

LEMMA IngestStep ==
  ASSUME MailInd, NEW a \in Attempts, ingest(a)
  PROVE  MailInd'
<1>0. ThreadsNumbered /\ try[a].mail \in Mails
  BY MailFacts
<1>1. PICK m : m = try[a].mail
  OBVIOUS
<1>2. FindOpenByToken(m) \in Nat
      /\ (FindOpenByToken(m) # 0 => \E t \in threads : t.n = FindOpenByToken(m))
  <2>1. PICK S : S = {t.n : t \in {t \in threads : t.open /\ t.n = Letter[m].token}}
    OBVIOUS
  <2>2. FindOpenByToken(m) = Newest(S)
    BY <2>1 DEF FindOpenByToken, OpenThreads
  <2>3. S \in SUBSET {t.n : t \in threads}
    BY <2>1
  <2> QED
    BY <2>2, <2>3, <1>0, NewestFound
<1>3. FindOpenBySenderSubject(m) \in Nat
      /\ (FindOpenBySenderSubject(m) # 0 => \E t \in threads : t.n = FindOpenBySenderSubject(m))
  <2>1. PICK S : S = {t.n : t \in {t \in threads : t.open /\ t.key = Letter[m].key}}
    OBVIOUS
  <2>2. FindOpenBySenderSubject(m) = Newest(S)
    BY <2>1 DEF FindOpenBySenderSubject, OpenThreads
  <2>3. S \in SUBSET {t.n : t \in threads}
    BY <2>1
  <2> QED
    BY <2>2, <2>3, <1>0, NewestFound
<1>4. PICK n : /\ n \in Nat /\ (n # 0 => \E t \in threads : t.n = n)
               /\ try' = [try EXCEPT ![a].pc = "store", ![a].thread = n]
  BY <1>1, <1>2, <1>3 DEF ingest
<1>5. /\ try[a].pc = "find"
      /\ UNCHANGED <<spool, emailConfig, ingests, threads, deliveries, mailClock, acked, dropped, excused>>
  BY DEF ingest
<1>6. PICK pc : pc = "store"
  OBVIOUS
<1>7. pc \in PastClaim /\ try[a].pc \in PastClaim \cup {"claim"} /\ try[a].pc # "complete" /\ pc # "complete"
      /\ try[a].pc # "claim"
  BY <1>5, <1>6 DEF PastClaim
<1> QED
  BY <1>4, <1>5, <1>6, <1>7, GoStep

\* the steps that keep the thread that was found
LEMMA GoesOn ==
  ASSUME MailInd, NEW a \in Attempts, SkipClaim(a) \/ uploadInboundAttachments(a) \/ StoreFails(a)
  PROVE  MailInd'
<1>0. try[a] \in TryRow /\ try \in [Attempts -> TryRow] /\ TryKnows(try[a])
  BY MailFacts DEF MailTypes
<1>1. PICK pc \in {"upload", "find", "release"} : try' = [try EXCEPT ![a].pc = pc]
  BY DEF SkipClaim, uploadInboundAttachments, StoreFails, Go
<1>2. PICK n : n = try[a].thread
  OBVIOUS
<1>3. n \in Nat /\ try' = [try EXCEPT ![a].pc = pc, ![a].thread = n]
  <2>1. PICK b \in TryRow : b = try[a]
    BY <1>0
  <2>2. [b EXCEPT !.pc = pc] = [b EXCEPT !.pc = pc, !.thread = n] /\ n \in Nat
    BY <2>1, <1>2 DEF TryRow
  <2> QED
    BY <2>1, <2>2, <1>0, <1>1
<1>4. /\ try[a].pc \in PastClaim \cup {"claim"} /\ try[a].pc # "complete"
      /\ try[a].pc = "claim" => ~Letter[try[a].mail].mid
      /\ UNCHANGED <<spool, emailConfig, ingests, threads, deliveries, mailClock, acked, dropped, excused>>
  BY DEF SkipClaim, uploadInboundAttachments, StoreFails, PastClaim
<1>5. pc \in PastClaim /\ pc # "complete" /\ pc # "store"
  BY DEF PastClaim
<1> QED
  BY <1>3, <1>4, <1>5, GoStep

\* an attempt is over, and the mail perhaps acknowledged
LEMMA DoneStep ==
  ASSUME MailInd, NEW a \in Attempts, Done(a), UNCHANGED <<ingests, threads, mailClock, deliveries, dropped>>,
         emailConfig' \in ConfigRow, excused' \in SUBSET Mails, excused \subseteq excused',
         spool' \in SUBSET Mails, acked' \subseteq acked \cup {try[a].mail},
         acked' # acked => Stored(try[a].mail),
         try[a].pc = "complete" /\ try[a].claimed => try[a].mail \in excused'
  PROVE  MailInd'
<1>0. /\ MailTypes /\ TryKnows(try[a]) /\ try[a] \in TryRow /\ try[a].mail \in Mails
      /\ acked \in SUBSET Mails /\ dropped \in SUBSET Mails
      /\ deliveries \in Nat /\ \A x \in acked \ dropped : Stored(x)
  BY MailFacts
<1>1. PICK c \in TryRow : c = NoTry
  BY NoTryTyped
<1>2. try' = [try EXCEPT ![a] = c] /\ TryKnows(c) /\ \A x : Phase(c, x) = "none"
  BY <1>1, NoTryKnows DEF Done
<1>3. \A x \in acked' \ dropped' : Stored(x)
  BY <1>0
<1>4. ASSUME NEW m \in Mails, m \notin excused' PROVE Phase(try[a], m) # "complete"
  BY <1>4 DEF Phase
<1>5. "none" \notin PastClaim
  BY DEF PastClaim
<1> QED
  BY <1>0, <1>2, <1>3, <1>4, <1>5, TryMoves

LEMMA EndStep ==
  ASSUME MailInd, NEW a \in Attempts, Finish(a) \/ DieInDelivery(a)
  PROVE  MailInd'
<1>0. /\ TryKnows(try[a]) /\ try[a] \in TryRow /\ try[a].mail \in Mails /\ emailConfig \in ConfigRow
      /\ spool \in SUBSET Mails /\ excused \in SUBSET Mails
  BY MailFacts
<1>1. CASE Finish(a)
  <2>1. PICK c \in TryRow : c = try[a]
    BY <1>0
  <2>2. /\ c.pc = "finish" /\ Acknowledge(c.mail) /\ Done(a)
        /\ UNCHANGED <<ingests, threads, deliveries, mailClock, dropped, excused>>
        /\ emailConfig' = IF Letter[c.mail].via = "smtp" /\ ~c.cfg.verified
                          THEN [c.cfg EXCEPT !.verified = TRUE] ELSE emailConfig
    BY <1>1, <2>1 DEF Finish
  <2>3. emailConfig' \in ConfigRow
    <3>1. c.cfg \in ConfigRow
      BY DEF TryRow
    <3>2. [c.cfg EXCEPT !.verified = TRUE] \in ConfigRow
      BY <3>1 DEF ConfigRow
    <3> QED
      BY <3>2, <2>2, <1>0
  <2>4. Stored(c.mail)
    BY <1>0, <2>1, <2>2 DEF TryKnows
  <2>5. spool' \in SUBSET Mails /\ acked' \subseteq acked \cup {try[a].mail} /\ try[a].pc # "complete"
    BY <1>0, <2>1, <2>2 DEF Acknowledge
  <2> QED
    BY <2>1, <2>2, <2>3, <2>4, <2>5, <1>0, DoneStep
<1>2. CASE DieInDelivery(a)
  <2>1. /\ excused' = IF try[a].pc = "complete" /\ try[a].claimed THEN excused \cup {try[a].mail} ELSE excused
        /\ Done(a) /\ UNCHANGED <<spool, emailConfig, ingests, threads, deliveries, mailClock, acked, dropped>>
    BY <1>2 DEF DieInDelivery
  <2>2. excused' \in SUBSET Mails /\ excused \subseteq excused'
        /\ (try[a].pc = "complete" /\ try[a].claimed => try[a].mail \in excused')
    BY <1>0, <2>1
  <2> QED
    BY <2>1, <2>2, <1>0, DoneStep
<1> QED
  BY <1>1, <1>2

\* an attempt writes the claim of its mail
LEMMA ClaimChanges ==
  ASSUME MailInd, NEW a \in Attempts, NEW c \in TryRow, NEW m \in Mails, m = try[a].mail, TryKnows(c),
         try' = [try EXCEPT ![a] = c], UNCHANGED <<spool, threads, mailClock, deliveries, emailConfig, acked, dropped>>,
         \A x \in Mails \ {m} : Phase(c, x) = "none",
         DOMAIN ingests' \in SUBSET Mails, ingests' \in [DOMAIN ingests' -> ClaimRow],
         \A x \in Mails \ {m} : (x \in DOMAIN ingests' <=> x \in DOMAIN ingests) /\ (x \in DOMAIN ingests => ingests'[x] = ingests[x]),
         m \in DOMAIN ingests' /\ ingests'[m].done => Stored(m),
         excused' \in SUBSET Mails, excused \subseteq excused', MailHolds(m)'
  PROVE  MailInd'
<1>0. MailTypes /\ ThreadsNumbered /\ MailTracked
  BY DEF MailInd
<1>1. try' \in [Attempts -> TryRow] /\ \A b \in Attempts : try'[b] = IF b = a THEN c ELSE try[b]
  BY <1>0 DEF MailTypes
<1>2. \A x : Copies(x)' = Copies(x) /\ (Stored(x)' <=> Stored(x))
  BY DEF Copies, Stored
<1>3. MailTypes'
  BY <1>0, <1>1 DEF MailTypes
<1>4. ThreadsNumbered'
  BY <1>0, <1>2 DEF ThreadsNumbered
<1>5. MailTracked'
  <2>1. \A b \in Attempts : TryKnows(try[b])'
    <3>1. \A b \in Attempts : TryKnows(try'[b])
      BY <1>0, <1>1 DEF MailTracked
    <3> QED
      BY <3>1, <1>2 DEF TryKnows
  <2>2. \A x \in DOMAIN ingests' : ingests'[x].done => Stored(x)
    BY <1>0 DEF MailTracked
  <2> QED
    BY <2>1, <2>2, <1>0, <1>2 DEF MailTracked
<1>6. ASSUME NEW x \in Mails, x # m PROVE MailHolds(x)'
  <2> SUFFICES ASSUME Letter[x].mid, x \notin excused' PROVE MailHolds(x)'
    BY DEF MailHolds
  <2>1. /\ \A b \in Attempts : Phase(try[b], x) \in PastClaim =>
             x \in DOMAIN ingests /\ ingests[x].owner = b /\ ~ingests[x].done
        /\ Stored(x) => /\ x \in DOMAIN ingests
                        /\ ingests[x].done \/ Phase(try[ingests[x].owner], x) = "complete"
        /\ \A y, z \in Copies(x) : y = z
    BY DEF MailInd, MailHolds
  <2>2. \A b \in Attempts : Phase(try'[b], x) = Phase(try[b], x)
    <3>1. Phase(try[a], x) = "none" /\ Phase(c, x) = "none"
      BY <1>6 DEF Phase
    <3> QED
      BY <3>1, <1>1
  <2>3. \A b : Phase(try[b], x)' = Phase(try'[b], x)
    BY DEF Phase
  <2>4. x \in DOMAIN ingests => ingests[x].owner \in Attempts
    BY <1>0 DEF MailTypes, ClaimRow
  <2>5. (x \in DOMAIN ingests' <=> x \in DOMAIN ingests) /\ (x \in DOMAIN ingests => ingests'[x] = ingests[x])
    BY <1>6
  <2>6. x \in DOMAIN ingests => Phase(try[ingests[x].owner], x)' = Phase(try'[ingests[x].owner], x)
    BY <2>5 DEF Phase
  <2>7. Stored(x)' => x \in DOMAIN ingests' /\ (ingests'[x].done \/ Phase(try[ingests[x].owner], x)' = "complete")
    BY <2>1, <2>2, <2>4, <2>5, <2>6, <1>2
  <2>8. \A b \in Attempts : Phase(try[b], x)' \in PastClaim =>
             x \in DOMAIN ingests' /\ ingests'[x].owner = b /\ ~ingests'[x].done
    BY <2>1, <2>2, <2>3, <2>5
  <2> QED
    BY <2>1, <2>7, <2>8, <1>2 DEF MailHolds
<1> QED
  BY <1>3, <1>4, <1>5, <1>6 DEF MailInd

LEMMA TakeStep ==
  ASSUME MailInd, NEW a \in Attempts, NEW m \in Mails, m = try[a].mail, try[a].pc = "claim", Letter[m].mid,
         Take(a, m), UNCHANGED <<emailConfig, threads, deliveries, mailClock, dropped>>,
         excused' \in SUBSET Mails, excused \subseteq excused',
         m \in DOMAIN ingests => ~ingests[m].done /\ (m \in excused' \/ ~Running(ingests[m].owner, m))
  PROVE  MailInd'
<1>0. MailTypes /\ MailTracked /\ TryKnows(try[a]) /\ try[a] \in TryRow
  BY MailFacts
<1>1. PICK b \in TryRow : b = try[a]
  BY <1>0
<1>2. PICK c : c = [b EXCEPT !.pc = "upload", !.claimed = TRUE]
  OBVIOUS
<1>3. c \in TryRow /\ c.pc = "upload" /\ c.claimed = TRUE /\ c.mail = m
  BY <1>1, <1>2 DEF TryRow, PastClaim
<1>4. try' = [try EXCEPT ![a] = c] /\ UNCHANGED <<spool, acked>>
  BY <1>0, <1>1, <1>2 DEF Take, MailTypes
<1>5. TryKnows(c) /\ \A x \in Mails \ {m} : Phase(c, x) = "none"
  BY <1>3 DEF TryKnows, Phase, PastClaim
<1>6. PICK r : r = [owner |-> a, at |-> mailClock, done |-> FALSE]
  OBVIOUS
<1>7. r \in ClaimRow /\ r.owner = a /\ ~r.done
  BY <1>0, <1>6 DEF ClaimRow, MailTypes
<1>8. ingests' = [x \in DOMAIN ingests \cup {m} |-> IF x = m THEN r ELSE ingests[x]]
  BY <1>6 DEF Take
<1>9. /\ DOMAIN ingests' = DOMAIN ingests \cup {m} /\ ingests'[m] = r
      /\ \A x \in DOMAIN ingests \ {m} : ingests'[x] = ingests[x]
      /\ ingests' \in [DOMAIN ingests' -> ClaimRow] /\ DOMAIN ingests' \in SUBSET Mails
  BY <1>0, <1>7, <1>8 DEF MailTypes
<1>10. ASSUME m \notin excused' PROVE ~Stored(m) /\ \A o \in Attempts : Phase(try[o], m) \notin PastClaim
  <2>1. m \notin excused /\ MailHolds(m)
    BY <1>10 DEF MailInd
  <2>2. CASE m \notin DOMAIN ingests
    BY <2>1, <2>2 DEF MailHolds
  <2>3. CASE m \in DOMAIN ingests
    <3>1. ~ingests[m].done /\ ~Running(ingests[m].owner, m) /\ ingests[m].owner \in Attempts
      BY <2>3, <1>0, <1>10 DEF MailTypes, ClaimRow
    <3>2. Phase(try[ingests[m].owner], m) = "none"
      BY <3>1 DEF Running, Phase
    <3>3. "none" \notin PastClaim
      BY DEF PastClaim
    <3> QED
      BY <2>1, <3>1, <3>2, <3>3 DEF MailHolds
  <2> QED
    BY <2>2, <2>3
<1>11. MailHolds(m)'
  <2> SUFFICES ASSUME m \notin excused' PROVE MailHolds(m)'
    BY DEF MailHolds
  <2>1. ~Stored(m) /\ \A o \in Attempts : Phase(try[o], m) \notin PastClaim
    BY <1>10
  <2>2. Copies(m)' = Copies(m) /\ (Stored(m)' <=> Stored(m))
    BY DEF Copies, Stored
  <2>3. \A o \in Attempts : Phase(try[o], m)' \in PastClaim => o = a
    <3>1. \A o \in Attempts : Phase(try[o], m)' = Phase(try'[o], m)
      BY DEF Phase
    <3>2. \A o \in Attempts : try'[o] = IF o = a THEN c ELSE try[o]
      BY <1>0, <1>4 DEF MailTypes
    <3> QED
      BY <3>1, <3>2, <2>1
  <2> QED
    BY <2>1, <2>2, <2>3, <1>7, <1>9 DEF MailHolds, Stored
<1>12. \A x \in Mails \ {m} : (x \in DOMAIN ingests' <=> x \in DOMAIN ingests) /\ (x \in DOMAIN ingests => ingests'[x] = ingests[x])
  <2>1. \A x \in Mails \ {m} : x \in DOMAIN ingests' <=> x \in DOMAIN ingests
    BY <1>9
  <2> QED
    BY <2>1, <1>9
<1> QED
  BY <1>3, <1>4, <1>5, <1>7, <1>9, <1>11, <1>12, ClaimChanges

LEMMA ClaimIngestStep ==
  ASSUME MailInd, NEW a \in Attempts, ClaimIngest(a)
  PROVE  MailInd'
<1>0. /\ MailTypes /\ MailTracked /\ try[a].mail \in Mails /\ emailConfig \in ConfigRow
      /\ spool \in SUBSET Mails /\ excused \in SUBSET Mails
  BY MailFacts
<1>1. PICK m \in Mails : m = try[a].mail
  BY <1>0
<1>2. try[a].pc = "claim" /\ Letter[m].mid /\ UNCHANGED <<emailConfig, threads, deliveries, mailClock, dropped>>
  BY <1>1 DEF ClaimIngest
<1>3. CASE m \notin DOMAIN ingests /\ Take(a, m) /\ UNCHANGED excused
  BY <1>0, <1>1, <1>2, <1>3, TakeStep
<1>4. CASE /\ m \in DOMAIN ingests /\ ~ingests[m].done /\ Stale(ingests[m]) /\ Take(a, m)
           /\ excused' = IF Running(ingests[m].owner, m) /\ mailClock > ingests[m].at + ClaimStale
                         THEN excused \cup {m} ELSE excused
  <2>1. ingests[m].at \in Nat /\ mailClock \in Nat /\ ClaimStale \in Nat
    BY <1>0, <1>4, InboundAssumption DEF MailTypes, ClaimRow
  <2>2. mailClock > ingests[m].at + ClaimStale
    BY <2>1, <1>4 DEF Stale
  <2>3. excused' = IF Running(ingests[m].owner, m) THEN excused \cup {m} ELSE excused
    BY <2>2, <1>4
  <2>4. excused' \in SUBSET Mails /\ excused \subseteq excused' /\ (m \in excused' \/ ~Running(ingests[m].owner, m))
    BY <2>3, <1>0
  <2> QED
    BY <2>4, <1>1, <1>2, <1>4, TakeStep
<1>5. CASE m \in DOMAIN ingests /\ ingests[m].done /\ Acknowledge(m) /\ Done(a) /\ UNCHANGED <<ingests, excused>>
  <2>1. Stored(m) /\ spool' \in SUBSET Mails /\ acked' \subseteq acked \cup {try[a].mail}
    BY <1>0, <1>1, <1>5 DEF Acknowledge, MailTracked
  <2> QED
    BY <2>1, <1>0, <1>1, <1>2, <1>5, DoneStep
<1>6. CASE Done(a) /\ UNCHANGED <<spool, acked, ingests, excused>>
  BY <1>0, <1>1, <1>2, <1>6, DoneStep
<1> QED
  BY <1>1, <1>3, <1>4, <1>5, <1>6 DEF ClaimIngest

LEMMA CompleteIngestStep ==
  ASSUME MailInd, NEW a \in Attempts, CompleteIngest(a)
  PROVE  MailInd'
<1>0. /\ MailTypes /\ MailTracked /\ TryKnows(try[a]) /\ try[a] \in TryRow /\ try[a].mail \in Mails
      /\ excused \in SUBSET Mails
  BY MailFacts
<1>1. PICK m \in Mails : m = try[a].mail
  BY <1>0
<1>2. PICK b \in TryRow : b = try[a]
  BY <1>0
<1>3. PICK c : c = [b EXCEPT !.pc = "finish"]
  OBVIOUS
<1>4. b.pc = "complete" /\ UNCHANGED <<spool, emailConfig, threads, deliveries, mailClock, acked, dropped>>
  BY <1>2 DEF CompleteIngest
<1>5. c \in TryRow /\ c.pc = "finish" /\ c.mail = m /\ c.claimed = b.claimed
  BY <1>1, <1>2, <1>3 DEF TryRow
<1>6. try' = [try EXCEPT ![a] = c]
  BY <1>0, <1>2, <1>3 DEF CompleteIngest, Go, MailTypes
<1>7. Stored(m) /\ (Letter[m].mid => b.claimed)
  BY <1>0, <1>1, <1>2, <1>4 DEF TryKnows, PastClaim
<1>8. TryKnows(c) /\ \A x \in Mails \ {m} : Phase(c, x) = "none"
  BY <1>5, <1>7 DEF TryKnows, Phase, PastClaim
<1>9. "finish" \notin PastClaim /\ "none" \notin PastClaim /\ "complete" \in PastClaim
  BY DEF PastClaim
<1>10. excused' \in SUBSET Mails /\ excused \subseteq excused'
  BY <1>0, <1>1 DEF CompleteIngest
<1>11. CASE m \in DOMAIN ingests /\ ingests' = [ingests EXCEPT ![m].done = TRUE] /\ UNCHANGED excused
  <2>1. PICK r \in ClaimRow : r = ingests[m]
    BY <1>0, <1>11 DEF MailTypes
  <2>2. PICK s : s = [r EXCEPT !.done = TRUE]
    OBVIOUS
  <2>3. s \in ClaimRow /\ s.done = TRUE /\ s.owner = r.owner
    BY <2>2 DEF ClaimRow
  <2>4. ingests' = [ingests EXCEPT ![m] = s]
    BY <1>0, <1>11, <2>1, <2>2 DEF MailTypes
  <2>5. /\ DOMAIN ingests' = DOMAIN ingests /\ ingests'[m] = s
        /\ \A x \in DOMAIN ingests \ {m} : ingests'[x] = ingests[x]
        /\ ingests' \in [DOMAIN ingests' -> ClaimRow] /\ DOMAIN ingests' \in SUBSET Mails
    BY <1>0, <1>11, <2>3, <2>4 DEF MailTypes
  <2>6. MailHolds(m)'
    <3> SUFFICES ASSUME Letter[m].mid, m \notin excused PROVE MailHolds(m)'
      BY <1>11 DEF MailHolds
    <3>1. MailHolds(m) /\ b.claimed
      BY <1>7 DEF MailInd
    <3>2. Phase(try[a], m) \in PastClaim
      BY <1>1, <1>2, <1>4, <1>9, <3>1 DEF Phase
    <3>3. \A o \in Attempts : Phase(try[o], m) \in PastClaim => o = a
      BY <3>1, <3>2 DEF MailHolds
    <3>4. \A o \in Attempts : Phase(try[o], m)' \notin PastClaim
      <4>1. \A o \in Attempts : Phase(try[o], m)' = Phase(try'[o], m)
        BY DEF Phase
      <4>2. \A o \in Attempts : try'[o] = IF o = a THEN c ELSE try[o]
        BY <1>0, <1>6 DEF MailTypes
      <4>3. Phase(c, m) \notin PastClaim
        BY <1>5, <1>9 DEF Phase
      <4> QED
        BY <4>1, <4>2, <4>3, <3>3
    <3>5. Copies(m)' = Copies(m)
      BY <1>4 DEF Copies
    <3> QED
      BY <3>1, <3>4, <3>5, <2>3, <2>5, <1>11 DEF MailHolds
  <2>7. \A x \in Mails \ {m} : (x \in DOMAIN ingests' <=> x \in DOMAIN ingests) /\ (x \in DOMAIN ingests => ingests'[x] = ingests[x])
    BY <2>5
  <2> QED
    BY <2>5, <2>6, <2>7, <1>1, <1>4, <1>5, <1>6, <1>7, <1>8, <1>10, ClaimChanges
<1>12. CASE UNCHANGED ingests /\ (Letter[m].mid => m \in excused')
  <2>1. MailHolds(m)'
    BY <1>12 DEF MailHolds
  <2>2. DOMAIN ingests' \in SUBSET Mails /\ ingests' \in [DOMAIN ingests' -> ClaimRow]
    BY <1>0, <1>12 DEF MailTypes
  <2>3. \A x \in Mails \ {m} : (x \in DOMAIN ingests' <=> x \in DOMAIN ingests) /\ (x \in DOMAIN ingests => ingests'[x] = ingests[x])
    BY <1>12
  <2> QED
    BY <2>1, <2>2, <2>3, <1>1, <1>4, <1>5, <1>6, <1>7, <1>8, <1>10, ClaimChanges
<1>13. CASE Letter[m].mid /\ m \notin excused' /\ ~Owns(a)
  <2>1. m \notin excused /\ MailHolds(m) /\ b.claimed
    BY <1>13, <1>10, <1>7 DEF MailInd
  <2>2. Phase(try[a], m) \in PastClaim
    BY <1>1, <1>2, <1>4, <1>9, <2>1 DEF Phase
  <2>3. m \in DOMAIN ingests /\ ingests[m].owner = a
    BY <2>1, <2>2, <1>13 DEF MailHolds
  <2> QED
    BY <2>1, <2>3, <1>1, <1>2, <1>13 DEF Owns
<1>14. CASE ~Owns(a) /\ (Letter[m].mid => m \in excused')
  <2>1. UNCHANGED ingests
    BY <1>14 DEF CompleteIngest
  <2> QED
    BY <2>1, <1>12, <1>14
<1>15. CASE Owns(a)
  <2>1. m \in DOMAIN ingests
    BY <1>1, <1>15 DEF Owns
  <2>2. \/ ingests' = [ingests EXCEPT ![m].done = TRUE] /\ UNCHANGED excused
        \/ excused' = excused \cup {m} /\ UNCHANGED ingests
    BY <1>1, <1>15 DEF CompleteIngest
  <2> QED
    BY <2>1, <2>2, <1>11, <1>12
<1> QED
  BY <1>13, <1>14, <1>15

LEMMA ReleaseIngestStep ==
  ASSUME MailInd, NEW a \in Attempts, ReleaseIngest(a)
  PROVE  MailInd'
<1>0. /\ MailTypes /\ MailTracked /\ TryKnows(try[a]) /\ try[a] \in TryRow /\ try[a].mail \in Mails
      /\ excused \in SUBSET Mails /\ emailConfig \in ConfigRow /\ spool \in SUBSET Mails
  BY MailFacts
<1>1. PICK m \in Mails : m = try[a].mail
  BY <1>0
<1>2. /\ try[a].pc = "release" /\ Done(a)
      /\ UNCHANGED <<spool, emailConfig, threads, deliveries, mailClock, acked, dropped, excused>>
  BY DEF ReleaseIngest
<1>3. CASE UNCHANGED ingests
  BY <1>0, <1>2, <1>3, DoneStep
<1>4. CASE Owns(a) /\ ingests' = [x \in DOMAIN ingests \ {m} |-> ingests[x]]
  <2>1. PICK c \in TryRow : c = NoTry
    BY NoTryTyped
  <2>2. try' = [try EXCEPT ![a] = c] /\ TryKnows(c) /\ \A x : Phase(c, x) = "none"
    BY <2>1, <1>2, NoTryKnows DEF Done
  <2>3. /\ DOMAIN ingests' = DOMAIN ingests \ {m}
        /\ \A x \in DOMAIN ingests \ {m} : ingests'[x] = ingests[x]
        /\ ingests' \in [DOMAIN ingests' -> ClaimRow] /\ DOMAIN ingests' \in SUBSET Mails
    BY <1>0, <1>4 DEF MailTypes
  <2>4. MailHolds(m)'
    <3> SUFFICES ASSUME Letter[m].mid, m \notin excused PROVE MailHolds(m)'
      BY <1>2 DEF MailHolds
    <3>1. MailHolds(m) /\ try[a].claimed /\ m \in DOMAIN ingests
      BY <1>1, <1>4 DEF MailInd, Owns
    <3>2. Phase(try[a], m) = "release" /\ "release" \in PastClaim /\ "none" \notin PastClaim
      BY <1>1, <1>2, <3>1 DEF Phase, PastClaim
    <3>3. ingests[m].owner = a /\ ~ingests[m].done /\ (\A o \in Attempts : Phase(try[o], m) \in PastClaim => o = a)
      BY <3>1, <3>2 DEF MailHolds
    <3>4. ~Stored(m)
      BY <3>1, <3>2, <3>3 DEF MailHolds
    <3>5. \A o \in Attempts : Phase(try[o], m)' \notin PastClaim
      <4>1. \A o \in Attempts : Phase(try[o], m)' = Phase(try'[o], m)
        BY DEF Phase
      <4>2. \A o \in Attempts : try'[o] = IF o = a THEN c ELSE try[o]
        BY <1>0, <2>2 DEF MailTypes
      <4> QED
        BY <4>1, <4>2, <2>2, <3>2, <3>3
    <3>6. Copies(m)' = Copies(m) /\ ~Stored(m)'
      BY <1>2, <3>4 DEF Copies, Stored
    <3> QED
      BY <3>1, <3>5, <3>6 DEF MailHolds
  <2>5. \A x \in Mails \ {m} : (x \in DOMAIN ingests' <=> x \in DOMAIN ingests) /\ (x \in DOMAIN ingests => ingests'[x] = ingests[x])
    BY <2>3
  <2>6. m \notin DOMAIN ingests' /\ \A x \in Mails \ {m} : Phase(c, x) = "none"
    BY <2>2, <2>3
  <2> QED
    BY <2>2, <2>3, <2>4, <2>5, <2>6, <1>0, <1>1, <1>2, ClaimChanges
<1> QED
  BY <1>1, <1>3, <1>4 DEF ReleaseIngest

\* one thread gives way to another of its number
LEMMA ThreadReplaced ==
  ASSUME ThreadsNumbered, NEW t \in threads, NEW u \in ThreadRow, u.n = t.n, threads' = (threads \ {t}) \cup {u}
  PROVE  /\ threads' \in SUBSET ThreadRow /\ IsFiniteSet(threads')
         /\ \A v, w \in threads' : v.n = w.n => v = w
         /\ \A v \in threads' : 1 <= v.n /\ v.n <= Cardinality(threads')
         /\ \A v \in threads : \E w \in threads' : w.n = v.n
<1>0. /\ threads \in SUBSET ThreadRow /\ IsFiniteSet(threads)
      /\ \A v, w \in threads : v.n = w.n => v = w
      /\ \A v \in threads : 1 <= v.n /\ v.n <= Cardinality(threads)
  BY DEF ThreadsNumbered
<1>1. PICK R : R = threads \ {t}
  OBVIOUS
<1>2. IsFiniteSet(R) /\ Cardinality(R) = Cardinality(threads) - 1 /\ Cardinality(threads) \in Nat
  BY <1>0, <1>1, FS_RemoveElement, FS_CardinalityType
<1>3. u \notin R
  BY <1>0, <1>1
<1>4. IsFiniteSet(R \cup {u}) /\ Cardinality(R \cup {u}) = Cardinality(R) + 1
  BY <1>2, <1>3, FS_AddElement
<1>5. IsFiniteSet(threads') /\ Cardinality(threads') = Cardinality(threads)
  BY <1>1, <1>2, <1>4
<1>6. \A v, w \in threads' : v.n = w.n => v = w
  BY <1>0
<1>7. \A v \in threads' : 1 <= v.n /\ v.n <= Cardinality(threads)
  BY <1>0
<1>8. \A v \in threads : \E w \in threads' : w.n = v.n
  BY <1>0
<1> QED
  BY <1>0, <1>5, <1>6, <1>7, <1>8

LEMMA MessageTyped ==
  ASSUME ThreadsNumbered, NEW m \in Mails
  PROVE  Message(m) \in Mails \X Nat /\ Message(m)[1] = m
<1>1. Message(m) = <<m, Cardinality(Copies(m))>>
  BY DEF Message, Copies
<1>2. Cardinality(Copies(m)) \in Nat
  BY FS_CardinalityType DEF ThreadsNumbered
<1> QED
  BY <1>1, <1>2

\* an attempt stores its mail
LEMMA StoreStep ==
  ASSUME MailInd, NEW a \in Attempts, NEW c \in TryRow, NEW m \in Mails, m = try[a].mail, try[a].pc = "store",
         c.mail = m, c.claimed = try[a].claimed, c.pc = "complete",
         try' = [try EXCEPT ![a] = c],
         UNCHANGED <<spool, emailConfig, ingests, deliveries, mailClock, acked, dropped, excused>>,
         threads' \in SUBSET ThreadRow, IsFiniteSet(threads'),
         \A v, w \in threads' : v.n = w.n => v = w,
         \A v \in threads' : 1 <= v.n /\ v.n <= Cardinality(threads'),
         \A v \in threads : \E w \in threads' : w.n = v.n,
         NEW e, Copies(m)' = Copies(m) \cup {e}, \A x \in Mails \ {m} : Copies(x)' = Copies(x)
  PROVE  MailInd'
<1>0. MailTypes /\ ThreadsNumbered /\ MailTracked /\ TryKnows(try[a])
  BY MailFacts
<1>1. try' \in [Attempts -> TryRow] /\ \A b \in Attempts : try'[b] = IF b = a THEN c ELSE try[b]
  BY <1>0 DEF MailTypes
<1>2. Stored(m)' /\ \A x \in Mails : Stored(x) => Stored(x)'
  BY DEF Stored
<1>3. MailTypes'
  BY <1>0, <1>1 DEF MailTypes
<1>4. ThreadsNumbered'
  <2>1. \A x \in Mails : IsFiniteSet(Copies(x)')
    <3>1. PICK S : S = Copies(m)
      OBVIOUS
    <3>2. IsFiniteSet(S) /\ \A x \in Mails : IsFiniteSet(Copies(x))
      BY <1>0, <3>1 DEF ThreadsNumbered
    <3>3. IsFiniteSet(S \cup {e})
      BY <3>2, FS_AddElement
    <3> QED
      BY <3>1, <3>2, <3>3
  <2> QED
    BY <2>1 DEF ThreadsNumbered
<1>5. MailTracked'
  <2>1. ASSUME NEW b \in Attempts PROVE TryKnows(try[b])'
    <3>1. CASE b = a
      <4>1. try'[b] = c
        BY <3>1, <1>1
      <4>2. Letter[m].mid => c.claimed
        BY <1>0 DEF TryKnows, PastClaim
      <4> QED
        BY <4>1, <4>2, <1>2 DEF TryKnows
    <3>2. CASE b # a
      <4>1. try'[b] = try[b] /\ TryKnows(try[b]) /\ try[b].mail \in Mails
        BY <3>2, <1>0, <1>1 DEF MailTracked, MailTypes, TryRow
      <4>2. Stored(try[b].mail) => Stored(try[b].mail)'
        <5>1. PICK x \in Mails : x = try[b].mail
          BY <4>1
        <5>2. Stored(try[b].mail)' <=> Stored(x)'
          BY <4>1, <5>1 DEF Stored, Copies
        <5> QED
          BY <5>1, <5>2, <1>2
      <4>3. (\E t \in threads : t.n = try[b].thread) => \E t \in threads' : t.n = try'[b].thread
        BY <4>1
      <4> QED
        BY <4>1, <4>2, <4>3 DEF TryKnows
    <3> QED
      BY <3>1, <3>2
  <2>2. \A x \in DOMAIN ingests' : ingests'[x].done => Stored(x)'
    BY <1>0, <1>2 DEF MailTracked, MailTypes
  <2>3. \A x \in acked' \ dropped' : Stored(x)'
    BY <1>0, <1>2 DEF MailTracked, MailTypes
  <2> QED
    BY <2>1, <2>2, <2>3 DEF MailTracked
<1>p. "store" \in PastClaim /\ "complete" \in PastClaim /\ "none" \notin PastClaim
  BY DEF PastClaim
<1>6. MailHolds(m)'
  <2> SUFFICES ASSUME Letter[m].mid, m \notin excused PROVE MailHolds(m)'
    BY DEF MailHolds
  <2>1. MailHolds(m) /\ try[a].claimed
    BY <1>0, <1>p DEF MailInd, TryKnows
  <2>2. Phase(try[a], m) = "store" /\ Phase(c, m) = "complete"
    BY <2>1 DEF Phase
  <2>3. /\ m \in DOMAIN ingests /\ ingests[m].owner = a /\ ~ingests[m].done
        /\ \A o \in Attempts : Phase(try[o], m) \in PastClaim => o = a
    BY <2>1, <2>2, <1>p DEF MailHolds
  <2>4. ~Stored(m)
    BY <2>1, <2>2, <2>3 DEF MailHolds
  <2>5. Copies(m)' = {e}
    BY <2>4 DEF Stored
  <2>6. \A o \in Attempts : Phase(try[o], m)' = Phase(try'[o], m)
    BY DEF Phase
  <2>7. \A o \in Attempts : Phase(try[o], m)' \in PastClaim => o = a
    BY <2>3, <2>6, <1>1
  <2>8. Phase(try[ingests[m].owner], m)' = "complete"
    <3>1. Phase(try[ingests[m].owner], m)' = Phase(try'[ingests'[m].owner], m)
      BY DEF Phase
    <3> QED
      BY <3>1, <2>2, <2>3, <1>1
  <2> QED
    BY <2>3, <2>5, <2>7, <2>8 DEF MailHolds
<1>7. ASSUME NEW x \in Mails, x # m PROVE MailHolds(x)'
  <2> SUFFICES ASSUME Letter[x].mid, x \notin excused PROVE MailHolds(x)'
    BY DEF MailHolds
  <2>1. /\ \A b \in Attempts : Phase(try[b], x) \in PastClaim =>
             x \in DOMAIN ingests /\ ingests[x].owner = b /\ ~ingests[x].done
        /\ Stored(x) => /\ x \in DOMAIN ingests
                        /\ ingests[x].done \/ Phase(try[ingests[x].owner], x) = "complete"
        /\ \A y, z \in Copies(x) : y = z
    BY DEF MailInd, MailHolds
  <2>2. \A b \in Attempts : Phase(try'[b], x) = Phase(try[b], x)
    <3>1. Phase(try[a], x) = "none" /\ Phase(c, x) = "none"
      BY <1>7 DEF Phase
    <3> QED
      BY <3>1, <1>1
  <2>3. \A b : Phase(try[b], x)' = Phase(try'[b], x)
    BY DEF Phase
  <2>4. x \in DOMAIN ingests => ingests[x].owner \in Attempts
    BY <1>0 DEF MailTypes, ClaimRow
  <2>5. Copies(x)' = Copies(x)
    BY <1>7
  <2>6. Phase(try[ingests[x].owner], x)' = Phase(try'[ingests[x].owner], x)
    BY DEF Phase
  <2>7. Stored(x)' => x \in DOMAIN ingests' /\ (ingests'[x].done \/ Phase(try[ingests[x].owner], x)' = "complete")
    BY <2>1, <2>2, <2>4, <2>5, <2>6 DEF Stored
  <2>8. \A b \in Attempts : Phase(try[b], x)' \in PastClaim =>
             x \in DOMAIN ingests' /\ ingests'[x].owner = b /\ ~ingests'[x].done
    BY <2>1, <2>2, <2>3
  <2> QED
    BY <2>1, <2>5, <2>7, <2>8 DEF MailHolds
<1> QED
  BY <1>3, <1>4, <1>5, <1>6, <1>7 DEF MailInd

LEMMA AppendStep ==
  ASSUME MailInd, NEW a \in Attempts, appendInbound(a)
  PROVE  MailInd'
<1>0. /\ MailTypes /\ ThreadsNumbered /\ TryKnows(try[a]) /\ try[a] \in TryRow /\ try[a].mail \in Mails
  BY MailFacts
<1>1. PICK m \in Mails : m = try[a].mail
  BY <1>0
<1>2. PICK b \in TryRow : b = try[a]
  BY <1>0
<1>3. PICK c : c = [b EXCEPT !.pc = "complete"]
  OBVIOUS
<1>4. c \in TryRow /\ c.pc = "complete" /\ c.mail = m /\ c.claimed = b.claimed
  BY <1>1, <1>2, <1>3 DEF TryRow, PastClaim
<1>5. try' = [try EXCEPT ![a] = c] /\ b.pc = "store" /\ b.thread # 0
      /\ UNCHANGED <<spool, emailConfig, ingests, deliveries, mailClock, acked, dropped, excused>>
  BY <1>0, <1>2, <1>3 DEF appendInbound, Go, MailTypes
<1>6. PICK e : e = Message(m)
  OBVIOUS
<1>7. e \in Mails \X Nat /\ e[1] = m
  BY <1>0, <1>6, MessageTyped
<1>8. PICK t \in threads : t.n = b.thread
  BY <1>0, <1>2, <1>5 DEF TryKnows
<1>9. PICK u : u = [t EXCEPT !.mails = @ \cup {e}]
  OBVIOUS
<1>10. t \in ThreadRow
  BY <1>0, <1>8 DEF ThreadsNumbered
<1>11. u \in ThreadRow /\ u.n = t.n /\ u.mails = t.mails \cup {e}
  BY <1>7, <1>9, <1>10 DEF ThreadRow
<1>12. threads' = (threads \ {t}) \cup {u}
  <2>1. threads' = {IF v.n = b.thread THEN [v EXCEPT !.mails = @ \cup {e}] ELSE v : v \in threads}
    BY <1>1, <1>2, <1>6 DEF appendInbound
  <2>2. \A v \in threads : v.n = b.thread <=> v = t
    BY <1>0, <1>8 DEF ThreadsNumbered
  <2>3. threads' = {IF v = t THEN u ELSE v : v \in threads}
    <3>1. \A v \in threads : (IF v.n = b.thread THEN [v EXCEPT !.mails = @ \cup {e}] ELSE v) = IF v = t THEN u ELSE v
      BY <2>2, <1>9
    <3> QED
      BY <2>1, <3>1
  <2> QED
    BY <2>3
<1>13. Copies(m)' = Copies(m) \cup {e}
  <2>1. ASSUME NEW x PROVE x \in Copies(m)' <=> x \in Copies(m) \cup {e}
    <3>1. x \in Copies(m)' <=> x[1] = m /\ \E v \in threads' : x \in v.mails
      BY DEF Copies
    <3>2. x \in Copies(m) <=> x[1] = m /\ \E v \in threads : x \in v.mails
      BY DEF Copies
    <3>3. (\E v \in threads' : x \in v.mails) <=> x = e \/ \E v \in threads : x \in v.mails
      BY <1>11, <1>12
    <3> QED
      BY <3>1, <3>2, <3>3, <1>7
  <2> QED
    BY <2>1
<1>14. ASSUME NEW y \in Mails \ {m} PROVE Copies(y)' = Copies(y)
  <2>1. ASSUME NEW x PROVE x \in Copies(y)' <=> x \in Copies(y)
    <3>1. x \in Copies(y)' <=> x[1] = y /\ \E v \in threads' : x \in v.mails
      BY DEF Copies
    <3>2. x \in Copies(y) <=> x[1] = y /\ \E v \in threads : x \in v.mails
      BY DEF Copies
    <3>3. (\E v \in threads' : x \in v.mails) <=> x = e \/ \E v \in threads : x \in v.mails
      BY <1>11, <1>12
    <3> QED
      BY <3>1, <3>2, <3>3, <1>7
  <2> QED
    BY <2>1
<1>15. /\ threads' \in SUBSET ThreadRow /\ IsFiniteSet(threads')
       /\ \A v, w \in threads' : v.n = w.n => v = w
       /\ \A v \in threads' : 1 <= v.n /\ v.n <= Cardinality(threads')
       /\ \A v \in threads : \E w \in threads' : w.n = v.n
  BY <1>0, <1>11, <1>12, ThreadReplaced
<1> QED
  BY <1>1, <1>2, <1>4, <1>5, <1>13, <1>14, <1>15, StoreStep

LEMMA CreateStep ==
  ASSUME MailInd, NEW a \in Attempts, createFromInbound(a)
  PROVE  MailInd'
<1>0. /\ MailTypes /\ ThreadsNumbered /\ TryKnows(try[a]) /\ try[a] \in TryRow /\ try[a].mail \in Mails
  BY MailFacts
<1>1. PICK m \in Mails : m = try[a].mail
  BY <1>0
<1>2. PICK b \in TryRow : b = try[a]
  BY <1>0
<1>3. PICK c : c = [b EXCEPT !.pc = "complete", !.created = TRUE]
  OBVIOUS
<1>4. c \in TryRow /\ c.pc = "complete" /\ c.mail = m /\ c.claimed = b.claimed
  BY <1>1, <1>2, <1>3 DEF TryRow, PastClaim
<1>5. try' = [try EXCEPT ![a] = c] /\ b.pc = "store"
      /\ UNCHANGED <<spool, emailConfig, ingests, deliveries, mailClock, acked, dropped, excused>>
  BY <1>0, <1>2, <1>3 DEF createFromInbound, MailTypes
<1>6. PICK e : e = Message(m)
  OBVIOUS
<1>7. e \in Mails \X Nat /\ e[1] = m
  BY <1>0, <1>6, MessageTyped
<1>8. PICK N \in Nat : N = Cardinality(threads)
  BY <1>0, FS_CardinalityType DEF ThreadsNumbered
<1>9. PICK u : u = [n |-> N + 1, key |-> Letter[m].key, open |-> TRUE, mails |-> {e}]
  OBVIOUS
<1>10. u \in ThreadRow /\ u.n = N + 1 /\ u.mails = {e}
  BY <1>7, <1>9 DEF ThreadRow, MailKeys
<1>11. threads' = threads \cup {u}
  BY <1>1, <1>6, <1>8, <1>9 DEF createFromInbound
<1>12. /\ threads \in SUBSET ThreadRow /\ IsFiniteSet(threads)
       /\ \A v, w \in threads : v.n = w.n => v = w
       /\ \A v \in threads : v.n \in Nat /\ 1 <= v.n /\ v.n <= N
  BY <1>0, <1>8 DEF ThreadsNumbered, ThreadRow
<1>13. u \notin threads
  BY <1>10, <1>12
<1>14. IsFiniteSet(threads') /\ Cardinality(threads') = N + 1
  <2>1. PICK S : S = threads
    OBVIOUS
  <2>2. IsFiniteSet(S \cup {u}) /\ Cardinality(S \cup {u}) = N + 1
    BY <2>1, <1>8, <1>12, <1>13, FS_AddElement
  <2> QED
    BY <2>1, <2>2, <1>11
<1>15. /\ threads' \in SUBSET ThreadRow
       /\ \A v, w \in threads' : v.n = w.n => v = w
       /\ \A v \in threads' : 1 <= v.n /\ v.n <= Cardinality(threads')
       /\ \A v \in threads : \E w \in threads' : w.n = v.n
  <2>1. threads' \in SUBSET ThreadRow /\ \A v \in threads : \E w \in threads' : w.n = v.n
    BY <1>10, <1>11, <1>12
  <2>2. \A v \in threads : v.n # u.n
    BY <1>10, <1>12
  <2>3. \A v, w \in threads' : v.n = w.n => v = w
    BY <2>2, <1>11, <1>12
  <2>4. \A v \in threads' : 1 <= v.n /\ v.n <= N + 1
    BY <1>10, <1>11, <1>12
  <2> QED
    BY <2>1, <2>3, <2>4, <1>14
<1>16. Copies(m)' = Copies(m) \cup {e}
  <2>1. ASSUME NEW x PROVE x \in Copies(m)' <=> x \in Copies(m) \cup {e}
    <3>1. x \in Copies(m)' <=> x[1] = m /\ \E v \in threads' : x \in v.mails
      BY DEF Copies
    <3>2. x \in Copies(m) <=> x[1] = m /\ \E v \in threads : x \in v.mails
      BY DEF Copies
    <3>3. (\E v \in threads' : x \in v.mails) <=> x = e \/ \E v \in threads : x \in v.mails
      BY <1>10, <1>11
    <3> QED
      BY <3>1, <3>2, <3>3, <1>7
  <2> QED
    BY <2>1
<1>17. ASSUME NEW y \in Mails \ {m} PROVE Copies(y)' = Copies(y)
  <2>1. ASSUME NEW x PROVE x \in Copies(y)' <=> x \in Copies(y)
    <3>1. x \in Copies(y)' <=> x[1] = y /\ \E v \in threads' : x \in v.mails
      BY DEF Copies
    <3>2. x \in Copies(y) <=> x[1] = y /\ \E v \in threads : x \in v.mails
      BY DEF Copies
    <3>3. (\E v \in threads' : x \in v.mails) <=> x = e \/ \E v \in threads : x \in v.mails
      BY <1>10, <1>11
    <3> QED
      BY <3>1, <3>2, <3>3, <1>7
  <2> QED
    BY <2>1
<1> QED
  BY <1>1, <1>2, <1>4, <1>5, <1>14, <1>15, <1>16, <1>17, StoreStep

LEMMA CloseThreadStep ==
  ASSUME MailInd, CloseThread
  PROVE  MailInd'
<1>0. MailTypes /\ ThreadsNumbered /\ MailTracked
  BY DEF MailInd
<1>1. PICK t \in threads :
        /\ threads' = (threads \ {t}) \cup {[t EXCEPT !.open = FALSE]}
        /\ UNCHANGED <<spool, emailConfig, ingests, try, deliveries, mailClock, acked, dropped, excused>>
  BY DEF CloseThread
<1>2. PICK u : u = [t EXCEPT !.open = FALSE]
  OBVIOUS
<1>3. t \in ThreadRow
  BY <1>0 DEF ThreadsNumbered
<1>4. u \in ThreadRow /\ u.n = t.n /\ u.mails = t.mails /\ threads' = (threads \ {t}) \cup {u}
  BY <1>1, <1>2, <1>3 DEF ThreadRow
<1>5. /\ threads' \in SUBSET ThreadRow /\ IsFiniteSet(threads')
      /\ \A v, w \in threads' : v.n = w.n => v = w
      /\ \A v \in threads' : 1 <= v.n /\ v.n <= Cardinality(threads')
      /\ \A v \in threads : \E w \in threads' : w.n = v.n
  BY <1>0, <1>4, ThreadReplaced
<1>6. ASSUME NEW y PROVE Copies(y)' = Copies(y)
  <2>1. ASSUME NEW x PROVE x \in Copies(y)' <=> x \in Copies(y)
    <3>1. x \in Copies(y)' <=> x[1] = y /\ \E v \in threads' : x \in v.mails
      BY DEF Copies
    <3>2. x \in Copies(y) <=> x[1] = y /\ \E v \in threads : x \in v.mails
      BY DEF Copies
    <3>3. (\E v \in threads' : x \in v.mails) <=> \E v \in threads : x \in v.mails
      BY <1>4
    <3> QED
      BY <3>1, <3>2, <3>3
  <2> QED
    BY <2>1
<1>7. \A y : Stored(y)' <=> Stored(y)
  BY <1>6 DEF Stored
<1>8. MailTypes' /\ ThreadsNumbered'
  BY <1>0, <1>1, <1>5, <1>6 DEF MailTypes, ThreadsNumbered
<1>9. MailTracked'
  <2>1. ASSUME NEW b \in Attempts PROVE TryKnows(try[b])'
    <3>1. TryKnows(try[b]) /\ try'[b] = try[b]
      BY <1>0, <1>1 DEF MailTracked
    <3>2. Stored(try[b].mail)' <=> Stored(try[b].mail)
      <4>1. Stored(try[b].mail)' <=> Copies(try[b].mail)' # {}
        BY DEF Stored
      <4>2. PICK x : x = try[b].mail
        OBVIOUS
      <4>3. Copies(try[b].mail)' = Copies(x)'
        BY <4>2, <3>1 DEF Copies
      <4> QED
        BY <4>1, <4>2, <4>3, <1>6 DEF Stored
    <3> QED
      BY <3>1, <3>2, <1>5 DEF TryKnows
  <2> QED
    BY <2>1, <1>0, <1>1, <1>7 DEF MailTracked
<1>10. ASSUME NEW m \in Mails PROVE MailHolds(m)'
  <2>1. MailHolds(m)
    BY DEF MailInd
  <2>2. \A b : Phase(try[b], m)' = Phase(try[b], m)
    BY <1>1 DEF Phase
  <2>3. Phase(try[ingests[m].owner], m)' = Phase(try[ingests[m].owner], m)
    BY <1>1 DEF Phase
  <2> QED
    BY <2>1, <2>2, <2>3, <1>1, <1>6, <1>7 DEF MailHolds
<1> QED
  BY <1>8, <1>9, <1>10 DEF MailInd

\* the settings, the clock, or nothing
LEMMA AroundMail ==
  ASSUME MailInd, UpdateEmailChannel \/ MailTick \/ UNCHANGED inboundVars
  PROVE  MailInd'
<1>0. MailTypes /\ ThreadsNumbered /\ MailTracked /\ emailConfig \in ConfigRow /\ deliveries \in Nat /\ mailClock \in Nat
  BY DEF MailInd, MailTypes
<1>1. UNCHANGED <<spool, ingests, threads, try, acked, dropped, excused>>
  BY DEF UpdateEmailChannel, MailTick, inboundVars
<1>2. [emailConfig EXCEPT !.spam = ~@] \in ConfigRow
  BY <1>0 DEF ConfigRow
<1>3. emailConfig' \in ConfigRow /\ deliveries' \in Nat /\ mailClock' \in Nat
  BY <1>0, <1>2 DEF UpdateEmailChannel, MailTick, inboundVars
<1>4. \A x : Copies(x)' = Copies(x) /\ (Stored(x)' <=> Stored(x))
  BY <1>1 DEF Copies, Stored
<1>5. MailTypes' /\ ThreadsNumbered'
  BY <1>0, <1>1, <1>3, <1>4 DEF MailTypes, ThreadsNumbered
<1>6. MailTracked'
  BY <1>0, <1>1 DEF MailTracked, TryKnows, Stored, Copies
<1>7. ASSUME NEW m \in Mails PROVE MailHolds(m)'
  <2>1. MailHolds(m)
    BY DEF MailInd
  <2> QED
    BY <2>1, <1>1 DEF MailHolds, Phase, Stored, Copies
<1> QED
  BY <1>5, <1>6, <1>7 DEF MailInd

LEMMA MailIndKept == MailInd /\ [InboundNext]_inboundVars => MailInd'
<1> SUFFICES ASSUME MailInd, [InboundNext]_inboundVars PROVE MailInd'
  OBVIOUS
<1>1. CASE \E a \in Attempts : \E m \in Mails : HandleForwarded(a, m) \/ HandleInbound(a, m)
  BY <1>1, ArriveStep
<1>2. CASE \E a \in Attempts : ClaimIngest(a)
  BY <1>2, ClaimIngestStep
<1>3. CASE \E a \in Attempts : SkipClaim(a) \/ uploadInboundAttachments(a) \/ StoreFails(a)
  BY <1>3, GoesOn
<1>4. CASE \E a \in Attempts : ingest(a)
  BY <1>4, IngestStep
<1>5. CASE \E a \in Attempts : appendInbound(a)
  BY <1>5, AppendStep
<1>6. CASE \E a \in Attempts : createFromInbound(a)
  BY <1>6, CreateStep
<1>7. CASE \E a \in Attempts : CompleteIngest(a)
  BY <1>7, CompleteIngestStep
<1>8. CASE \E a \in Attempts : ReleaseIngest(a)
  BY <1>8, ReleaseIngestStep
<1>9. CASE \E a \in Attempts : Finish(a) \/ DieInDelivery(a)
  BY <1>9, EndStep
<1>10. CASE CloseThread
  BY <1>10, CloseThreadStep
<1>11. CASE UpdateEmailChannel \/ MailTick \/ UNCHANGED inboundVars
  BY <1>11, AroundMail
<1> QED
  BY <1>1, <1>2, <1>3, <1>4, <1>5, <1>6, <1>7, <1>8, <1>9, <1>10, <1>11 DEF InboundNext

LEMMA MailIndGives == MailInd => MailInv
<1> SUFFICES ASSUME MailInd PROVE MailInv
  OBVIOUS
<1>0. MailTypes /\ ThreadsNumbered /\ MailTracked
  BY DEF MailInd
<1>1. InboundTypeOK
  <2>1. Cardinality(threads) \in Nat
    BY <1>0, FS_CardinalityType DEF ThreadsNumbered
  <2>2. \A t \in threads : t.n \in 1..Cardinality(threads) /\ t.open \in BOOLEAN /\ t.mails \subseteq Mails \X Nat
    BY <2>1, <1>0 DEF ThreadsNumbered, ThreadRow
  <2>3. {spool, acked, dropped, excused} \subseteq SUBSET Mails /\ DOMAIN ingests \subseteq Mails /\ DOMAIN try = Attempts
    BY <1>0 DEF MailTypes
  <2>4. emailConfig \in [spam : BOOLEAN, verified : BOOLEAN]
    BY <1>0 DEF MailTypes, ConfigRow
  <2> QED
    BY <2>2, <2>3, <2>4 DEF InboundTypeOK
<1>2. ASSUME NEW m \in Mails, Letter[m].mid, m \notin excused PROVE Cardinality(Copies(m)) <= 1
  <2>1. PICK S : S = Copies(m)
    OBVIOUS
  <2>2. \A x, y \in S : x = y
    BY <1>2, <2>1 DEF MailInd, MailHolds
  <2>3. CASE S = {}
    BY <2>1, <2>3, FS_EmptySet
  <2>4. CASE S # {}
    <3>1. PICK x : S = {x}
      BY <2>2, <2>4
    <3> QED
      BY <2>1, <3>1, FS_Singleton
  <2> QED
    BY <2>3, <2>4
<1>3. MailKept
  BY <1>0, <1>1 DEF MailKept, MailTracked, Stored
<1> QED
  BY <1>2, <1>3 DEF MailInv, StoredOnce

(* Whatever attempts overlap, fail, die or are taken over, and whatever    *)
(* the conversations they meet do, a mail that was acknowledged is stored, *)
(* and one with a Message-ID is stored once unless its claim could not be  *)
(* finished or was taken over from an attempt still at work.               *)
THEOREM MailInvHolds == InboundSpec => []MailInv
<1>1. InboundInit => MailInd
  BY MailIndInit
<1>2. MailInd /\ [InboundNext]_inboundVars => MailInd'
  BY MailIndKept
<1>3. MailInd => MailInv
  BY MailIndGives
<1> QED
  BY <1>1, <1>2, <1>3, PTL DEF InboundSpec

-----------------------------------------------------------------------------
(* Lists.  The keyset orders the rows strictly and totally, so a page is a *)
(* beginning of what is due and its cursor the last row's place.  A client *)
(* at a place has, or will come to, every row that was there at the start  *)
(* and was left alone, and has passed those of them that it has.           *)

Positions == [v : Nat, id : Nat]
Ahead(q, a, b) == Precedes(q.order, Pos(q.sort, a), Pos(q.sort, b))

\* the order of a list is strict and total: ties go by id
LEMMA PositionsOrdered ==
  ASSUME NEW o, NEW a \in Positions, NEW b \in Positions, NEW c \in Positions
  PROVE  /\ ~Precedes(o, a, a)
         /\ Precedes(o, a, b) /\ Precedes(o, b, c) => Precedes(o, a, c)
         /\ a.id # b.id => Precedes(o, a, b) \/ Precedes(o, b, a)
         /\ ~(Precedes(o, a, b) /\ Precedes(o, b, a))
  BY DEF Positions, Precedes

LEMMA PosTyped ==
  ASSUME NEW s, NEW r \in ListedRow
  PROVE  Pos(s, r) \in Positions /\ Pos(s, r).id = r.id /\ SortValue(s, r) \in 0..MaxRowClock /\ r.id \in 1..MaxRowId
<1>1. MaxRowId \in Nat /\ MaxRowClock \in Nat \ {0}
  BY ListingAssumption
<1>2. r.id \in 1..MaxRowId /\ r.born \in 0..MaxRowClock /\ r.at \in 0..MaxRowClock
  BY DEF ListedRow
<1>3. SortValue(s, r) \in 0..MaxRowClock
  BY <1>1, <1>2 DEF SortValue
<1> QED
  BY <1>1, <1>2, <1>3 DEF Pos, Positions

LEMMA RowsOrdered ==
  ASSUME NEW q, NEW S \in SUBSET ListedRow, IdsApart(S)
  PROVE  /\ \A a \in S : ~Ahead(q, a, a)
         /\ \A a, b, c \in S : Ahead(q, a, b) /\ Ahead(q, b, c) => Ahead(q, a, c)
         /\ \A a, b \in S : a = b \/ Ahead(q, a, b) \/ Ahead(q, b, a)
<1>1. \A a \in S : Pos(q.sort, a) \in Positions /\ Pos(q.sort, a).id = a.id
  BY PosTyped
<1>2. \A a, b \in S : a.id = b.id => a = b
  BY DEF IdsApart
<1>3. \A a \in S : ~Ahead(q, a, a)
  BY <1>1, PositionsOrdered DEF Ahead
<1>4. \A a, b, c \in S : Ahead(q, a, b) /\ Ahead(q, b, c) => Ahead(q, a, c)
  <2> SUFFICES ASSUME NEW a \in S, NEW b \in S, NEW c \in S PROVE Ahead(q, a, b) /\ Ahead(q, b, c) => Ahead(q, a, c)
    OBVIOUS
  <2>1. PICK x, y, z : x = Pos(q.sort, a) /\ y = Pos(q.sort, b) /\ z = Pos(q.sort, c)
    OBVIOUS
  <2>2. x \in Positions /\ y \in Positions /\ z \in Positions
    BY <1>1, <2>1
  <2> QED
    BY <2>1, <2>2, PositionsOrdered DEF Ahead
<1>5. \A a, b \in S : a = b \/ Ahead(q, a, b) \/ Ahead(q, b, a)
  <2> SUFFICES ASSUME NEW a \in S, NEW b \in S, a # b PROVE Ahead(q, a, b) \/ Ahead(q, b, a)
    OBVIOUS
  <2>1. PICK x, y : x = Pos(q.sort, a) /\ y = Pos(q.sort, b)
    OBVIOUS
  <2>2. x \in Positions /\ y \in Positions /\ x.id # y.id
    BY <1>1, <1>2, <2>1
  <2> QED
    BY <2>1, <2>2, PositionsOrdered DEF Ahead
<1> QED
  BY <1>3, <1>4, <1>5

LEMMA LeastIn ==
  ASSUME NEW S, IsFiniteSet(S), S # {}, NEW R,
         \A a \in S : <<a, a>> \notin R,
         \A a, b, c \in S : <<a, b>> \in R /\ <<b, c>> \in R => <<a, c>> \in R
  PROVE  \E m \in S : \A s \in S : <<s, m>> \notin R
<1> DEFINE Below(m) == {s \in S : <<s, m>> \in R}
<1> DEFINE Sizes == {Cardinality(Below(m)) : m \in S}
<1>1. \A m \in S : IsFiniteSet(Below(m)) /\ Cardinality(Below(m)) \in Nat
  <2>1. ASSUME NEW m \in S PROVE IsFiniteSet(Below(m)) /\ Cardinality(Below(m)) \in Nat
    <3>1. PICK B \in SUBSET S : B = Below(m)
      OBVIOUS
    <3>2. IsFiniteSet(B)
      BY FS_Subset
    <3> QED
      BY <3>1, <3>2, FS_CardinalityType
  <2> QED
    BY <2>1
<1>2. Sizes \in SUBSET Nat /\ Sizes # {}
  <2> HIDE DEF Below
  <2> QED
    BY <1>1
<1>3. PICK k \in Sizes : \A l \in Sizes : <<l, k>> \notin OpToRel(<, Nat)
  <2> HIDE DEF Sizes
  <2> QED
    BY <1>2, NatLessThanWellFounded, WFMin
<1>4. \A l \in Sizes : ~(l < k)
  BY <1>2, <1>3 DEF OpToRel
<1>5. PICK m \in S : k = Cardinality(Below(m))
  OBVIOUS
<1>6. ASSUME NEW s \in S, <<s, m>> \in R PROVE FALSE
  <2>1. PICK A, B : A = Below(s) /\ B = Below(m)
    OBVIOUS
  <2>2. A \in SUBSET B /\ s \in B /\ s \notin A
    BY <2>1, <1>6
  <2>3. IsFiniteSet(B) /\ IsFiniteSet(A) /\ Cardinality(A) \in Nat /\ Cardinality(B) \in Nat
    BY <2>1, <1>1
  <2>4. Cardinality(A) <= Cardinality(B) /\ Cardinality(A) # Cardinality(B)
    BY <2>2, <2>3, FS_Subset
  <2>5. ~(Cardinality(A) < Cardinality(B))
    <3> HIDE DEF Below
    <3>1. Cardinality(A) \in Sizes
      BY <2>1
    <3> QED
      BY <1>4, <1>5, <2>1, <3>1
  <2> QED
    BY <2>3, <2>4, <2>5
<1> QED
  BY <1>6

LEMMA RowsFinite ==
  ASSUME NEW S \in SUBSET ListedRow, IdsApart(S)
  PROVE  IsFiniteSet(S) /\ Cardinality(S) \in Nat /\ Cardinality(Ids(S)) = Cardinality(S)
<1> DEFINE f == [r \in S |-> r.id]
<1>1. \A r \in S : r.id \in 1..MaxRowId
  BY PosTyped
<1>2. f \in Injection(S, 1..MaxRowId)
  BY <1>1 DEF Injection, IsInjective, IdsApart
<1>3. IsFiniteSet(1..MaxRowId)
  <2>1. PICK n \in Int : n = MaxRowId
    BY ListingAssumption
  <2>2. IsFiniteSet(1..n)
    BY FS_Interval
  <2> QED
    BY <2>1, <2>2
<1>4. IsFiniteSet(S)
  <2> HIDE DEF f
  <2> QED
    BY <1>2, <1>3, FS_Injection
<1>5. f \in Bijection(S, Ids(S))
  <2>1. f \in Injection(S, Ids(S))
    BY DEF Injection, IsInjective, IdsApart, Ids
  <2>2. f \in Surjection(S, Ids(S))
    BY DEF Surjection, Ids
  <2> QED
    BY <2>1, <2>2 DEF Bijection
<1> QED
  <2> HIDE DEF f
  <2> QED
    BY <1>4, <1>5, FS_Bijection, FS_CardinalityType DEF ExistsBijection

\* the rows of S that come before r, and the least of a set
Earlier(q, S, r) == {s \in S : Ahead(q, s, r)}

LEMMA FirstRowsAre ==
  ASSUME NEW q, NEW S
  PROVE  FirstRows(S, q) = {r \in S : Cardinality(Earlier(q, S, r)) < q.limit}
  BY DEF FirstRows, Earlier, Ahead

LEMMA EarlierCounts ==
  ASSUME NEW q, NEW S \in SUBSET ListedRow, IdsApart(S), NEW r \in S
  PROVE  /\ IsFiniteSet(Earlier(q, S, r)) /\ Cardinality(Earlier(q, S, r)) \in Nat
         /\ Cardinality(Earlier(q, S, r)) < Cardinality(S)
         /\ \A s \in S : Ahead(q, s, r) => Cardinality(Earlier(q, S, s)) <= Cardinality(Earlier(q, S, r))
<1>1. IsFiniteSet(S) /\ Cardinality(S) \in Nat
  BY RowsFinite
<1>2. PICK B \in SUBSET S : B = Earlier(q, S, r)
  BY DEF Earlier
<1>3. IsFiniteSet(B) /\ Cardinality(B) \in Nat /\ Cardinality(B) <= Cardinality(S)
  BY <1>1, FS_Subset, FS_CardinalityType
<1>4. r \notin B
  BY <1>2, RowsOrdered DEF Earlier
<1>5. Cardinality(B) # Cardinality(S)
  BY <1>1, <1>4, FS_Subset
<1>6. ASSUME NEW s \in S, Ahead(q, s, r) PROVE Cardinality(Earlier(q, S, s)) <= Cardinality(B)
  <2>1. PICK A : A = Earlier(q, S, s)
    OBVIOUS
  <2>2. A \in SUBSET B
    BY <1>2, <1>6, <2>1, RowsOrdered DEF Earlier
  <2> QED
    BY <1>3, <2>1, <2>2, FS_Subset
<1> QED
  BY <1>1, <1>2, <1>3, <1>5, <1>6

LEMMA ListEnds ==
  ASSUME NEW q, NEW S \in SUBSET ListedRow, IdsApart(S), S # {}
  PROVE  /\ \E m \in S : \A s \in S : s = m \/ Ahead(q, m, s)
         /\ \E m \in S : \A s \in S : s = m \/ Ahead(q, s, m)
<1> DEFINE R == {p \in S \X S : Ahead(q, p[1], p[2])}
<1> DEFINE Q == {p \in S \X S : Ahead(q, p[2], p[1])}
<1>1. \A a, b \in S : (<<a, b>> \in R <=> Ahead(q, a, b)) /\ (<<a, b>> \in Q <=> Ahead(q, b, a))
  OBVIOUS
<1> HIDE DEF R, Q
<1>2. IsFiniteSet(S)
  BY RowsFinite
<1>3. /\ \A a \in S : <<a, a>> \notin R
      /\ \A a, b, c \in S : <<a, b>> \in R /\ <<b, c>> \in R => <<a, c>> \in R
  BY <1>1, RowsOrdered
<1>4. /\ \A a \in S : <<a, a>> \notin Q
      /\ \A a, b, c \in S : <<a, b>> \in Q /\ <<b, c>> \in Q => <<a, c>> \in Q
  BY <1>1, RowsOrdered
<1>5. PICK m \in S : \A s \in S : <<s, m>> \notin R
  BY <1>2, <1>3, LeastIn
<1>6. PICK g \in S : \A s \in S : <<s, g>> \notin Q
  BY <1>2, <1>4, LeastIn
<1> QED
  BY <1>1, <1>5, <1>6, RowsOrdered

\* a page is a beginning of what is due
LEMMA FirstRowsBegin ==
  ASSUME NEW q, NEW S \in SUBSET ListedRow, IdsApart(S), q.limit \in Nat \ {0}
  PROVE  /\ FirstRows(S, q) \subseteq S
         /\ S # {} => FirstRows(S, q) # {}
         /\ Cardinality(S) <= q.limit => FirstRows(S, q) = S
         /\ \A r \in FirstRows(S, q), s \in S \ FirstRows(S, q) : Ahead(q, r, s)
<1>1. \A r \in S : r \in FirstRows(S, q) <=> Cardinality(Earlier(q, S, r)) < q.limit
  BY FirstRowsAre
<1>2. FirstRows(S, q) \subseteq S
  BY FirstRowsAre
<1>3. ASSUME S # {} PROVE FirstRows(S, q) # {}
  <2>1. PICK m \in S : \A s \in S : s = m \/ Ahead(q, m, s)
    BY <1>3, ListEnds
  <2>2. Earlier(q, S, m) = {}
    BY <2>1, RowsOrdered DEF Earlier
  <2> QED
    BY <1>1, <2>1, <2>2, FS_EmptySet
<1>4. ASSUME Cardinality(S) <= q.limit PROVE FirstRows(S, q) = S
  <2>1. Cardinality(S) \in Nat
    BY RowsFinite
  <2>2. \A r \in S : Cardinality(Earlier(q, S, r)) \in Nat /\ Cardinality(Earlier(q, S, r)) < Cardinality(S)
    BY EarlierCounts
  <2> QED
    BY <1>1, <1>2, <1>4, <2>1, <2>2
<1>5. ASSUME NEW r \in FirstRows(S, q), NEW s \in S \ FirstRows(S, q) PROVE Ahead(q, r, s)
  <2>1. r \in S /\ s \in S /\ r # s
    BY <1>2
  <2>2. Cardinality(Earlier(q, S, r)) < q.limit /\ ~(Cardinality(Earlier(q, S, s)) < q.limit)
    BY <1>1, <2>1
  <2>3. Cardinality(Earlier(q, S, r)) \in Nat /\ Cardinality(Earlier(q, S, s)) \in Nat
    BY <2>1, EarlierCounts
  <2>4. ~Ahead(q, s, r)
    <3>1. Ahead(q, s, r) => Cardinality(Earlier(q, S, s)) <= Cardinality(Earlier(q, S, r))
      BY <2>1, EarlierCounts
    <3> QED
      BY <2>2, <2>3, <3>1
  <2> QED
    BY <2>1, <2>4, RowsOrdered
<1> QED
  BY <1>2, <1>3, <1>4, <1>5

LEMMA LastRowIs ==
  ASSUME NEW q, NEW S \in SUBSET ListedRow, IdsApart(S), S # {}
  PROVE  LastRow(S, q) \in S /\ \A s \in S : s = LastRow(S, q) \/ Ahead(q, s, LastRow(S, q))
<1>1. \E m \in S : \A s \in S \ {m} : Precedes(q.order, Pos(q.sort, s), Pos(q.sort, m))
  BY ListEnds DEF Ahead
<1> QED
  BY <1>1 DEF LastRow, Ahead

Due(q, S) == {r \in S : Shows(q.filter, r.id) /\ Past(q, r)}

\* p is a page of the rows D: all of them, or a beginning and the position of its last row
PageOf(q, D, p) ==
    /\ p.page \subseteq Ids(D) /\ p.more \in BOOLEAN
    /\ ~p.more => p.page = Ids(D) /\ p.next = NoCursor
    /\ p.more => \E l \in D :
          /\ p.next = cursorFor(q, l) /\ l.id \in p.page
          /\ \A r \in D : /\ r.id \in p.page => r = l \/ Ahead(q, r, l)
                          /\ r.id \notin p.page => Ahead(q, l, r)

LEMMA PageCut ==
  ASSUME NEW q, NEW D \in SUBSET ListedRow, IdsApart(D), NEW F \in SUBSET D, F # {},
         \A r \in F, s \in D \ F : Ahead(q, r, s)
  PROVE  /\ LastRow(F, q) \in D /\ LastRow(F, q).id \in Ids(F)
         /\ \A r \in D : /\ r.id \in Ids(F) => r = LastRow(F, q) \/ Ahead(q, r, LastRow(F, q))
                         /\ r.id \notin Ids(F) => Ahead(q, LastRow(F, q), r)
<1>1. IdsApart(F) /\ F \in SUBSET ListedRow
  BY DEF IdsApart
<1>2. PICK l : l = LastRow(F, q)
  OBVIOUS
<1>3. l \in F /\ \A s \in F : s = l \/ Ahead(q, s, l)
  BY <1>1, <1>2, LastRowIs
<1>4. \A r \in D : r.id \in Ids(F) <=> r \in F
  BY DEF Ids, IdsApart
<1>5. l.id \in Ids(F)
  BY <1>3 DEF Ids
<1> QED
  BY <1>2, <1>3, <1>4, <1>5

LEMMA PaginateGives ==
  ASSUME NEW q, NEW S \in SUBSET ListedRow, IdsApart(S), q.limit \in Nat \ {0}
  PROVE  PageOf(q, Due(q, S), Paginate(q, S))
<1>1. PICK D \in SUBSET S : D = Due(q, S)
  BY DEF Due
<1>2. D \in SUBSET ListedRow /\ IdsApart(D)
  BY DEF IdsApart
<1>3. PICK F : F = FirstRows(D, q)
  OBVIOUS
<1>4. PICK more : more = (Cardinality(D) > q.limit)
  OBVIOUS
<1>5. PICK l : l = LastRow(F, q)
  OBVIOUS
<1>6. more \in BOOLEAN /\ (more <=> Cardinality(D) > q.limit)
  <2>1. (Cardinality(D) > q.limit) \in BOOLEAN
    BY SMT
  <2> QED
    BY <1>4, <2>1, Zenon
<1>7. Paginate(q, S) = [page |-> Ids(F), more |-> more, next |-> IF more THEN cursorFor(q, l) ELSE NoCursor]
  BY <1>1, <1>3, <1>4, <1>5 DEF Paginate, Due
<1>8. Cardinality(D) \in Nat /\ IsFiniteSet(D)
  BY <1>2, RowsFinite
<1>9. F \in SUBSET D /\ (D # {} => F # {}) /\ (Cardinality(D) <= q.limit => F = D)
      /\ \A r \in F, s \in D \ F : Ahead(q, r, s)
  BY <1>2, <1>3, FirstRowsBegin
<1>10. ~more => F = D
  BY <1>6, <1>8, <1>9
<1>11. more => F # {}
  <2>1. more => Cardinality(D) # 0
    BY <1>6, <1>8
  <2> QED
    BY <2>1, <1>8, <1>9, FS_EmptySet
<1>12. Ids(F) \subseteq Ids(D)
  BY <1>9 DEF Ids
<1>13. more => /\ l \in D /\ l.id \in Ids(F)
               /\ \A r \in D : /\ r.id \in Ids(F) => r = l \/ Ahead(q, r, l)
                               /\ r.id \notin Ids(F) => Ahead(q, l, r)
  BY <1>2, <1>5, <1>9, <1>11, PageCut
<1>14. PICK p : p = Paginate(q, S)
  OBVIOUS
<1>15. p.page = Ids(F) /\ p.more = more /\ p.next = IF more THEN cursorFor(q, l) ELSE NoCursor
  BY <1>7, <1>14
<1> QED
  BY <1>1, <1>6, <1>10, <1>12, <1>13, <1>14, <1>15 DEF PageOf

\* collectHits reads one row more than the page; the page is cut from what it read
LEMMA SearchGives ==
  ASSUME NEW q, NEW S \in SUBSET ListedRow, IdsApart(S), q.limit \in Nat \ {0},
         NEW w, w = [q EXCEPT !.limit = @ + 1], w.limit = q.limit + 1, w.sort = q.sort, w.order = q.order,
         NEW H, H = FirstRows(Due(q, S), w),
         NEW more \in BOOLEAN, more <=> Cardinality(H) > q.limit
  PROVE  PageOf(q, Due(q, S), [page |-> Ids(FirstRows(H, q)), more |-> more,
                               next |-> IF more THEN cursorFor(q, LastRow(FirstRows(H, q), q)) ELSE NoCursor])
<1>1. PICK D \in SUBSET S : D = Due(q, S)
  BY DEF Due
<1>2. D \in SUBSET ListedRow /\ IdsApart(D)
  BY DEF IdsApart
<1>3. PICK F : F = FirstRows(H, q)
  OBVIOUS
<1>4. PICK l : l = LastRow(F, q)
  OBVIOUS
<1>5. \A a, b : Ahead(w, a, b) <=> Ahead(q, a, b)
  BY DEF Ahead
<1>6. H \in SUBSET D /\ \A r \in H, s \in D \ H : Ahead(q, r, s)
  <2>1. w.limit \in Nat \ {0}
    OBVIOUS
  <2>2. H \subseteq D /\ \A r \in H, s \in D \ H : Ahead(w, r, s)
    BY <1>1, <1>2, <2>1, FirstRowsBegin
  <2> QED
    BY <1>5, <2>2
<1>7. H \in SUBSET ListedRow /\ IdsApart(H)
  BY <1>2, <1>6 DEF IdsApart
<1>8. Cardinality(H) \in Nat /\ IsFiniteSet(H)
  BY <1>7, RowsFinite
<1>9. F \in SUBSET H /\ (H # {} => F # {}) /\ (Cardinality(H) <= q.limit => F = H)
      /\ \A r \in F, s \in H \ F : Ahead(q, r, s)
  BY <1>3, <1>7, FirstRowsBegin
<1>10. ASSUME ~more PROVE F = D
  <2>1. Cardinality(H) <= q.limit /\ F = H
    BY <1>8, <1>9, <1>10
  <2>2. ASSUME NEW x \in D \ H PROVE FALSE
    <3>1. PICK T : T = D \ H
      OBVIOUS
    <3>2. T \in SUBSET ListedRow /\ IdsApart(T) /\ T # {}
      BY <1>2, <2>2, <3>1 DEF IdsApart
    <3>3. PICK d \in T : \A s \in T : s = d \/ Ahead(q, d, s)
      BY <3>2, ListEnds
    <3>4. Earlier(q, D, d) = H
      BY <1>2, <1>6, <3>1, <3>3, RowsOrdered DEF Earlier
    <3>5. Earlier(w, D, d) = H
      BY <1>5, <3>4 DEF Earlier
    <3>6. Cardinality(H) < w.limit
      BY <1>8, <2>1
    <3>7. d \in H
      BY <1>1, <3>1, <3>5, <3>6, FirstRowsAre
    <3> QED
      BY <3>1, <3>7
  <2> QED
    BY <1>6, <2>1, <2>2
<1>11. F \in SUBSET D /\ \A r \in F, s \in D \ F : Ahead(q, r, s)
  BY <1>6, <1>9
<1>12. more => F # {}
  <2>1. more => Cardinality(H) # 0
    BY <1>8
  <2> QED
    BY <2>1, <1>8, <1>9, FS_EmptySet
<1>13. more => /\ l \in D /\ l.id \in Ids(F)
               /\ \A r \in D : /\ r.id \in Ids(F) => r = l \/ Ahead(q, r, l)
                               /\ r.id \notin Ids(F) => Ahead(q, l, r)
  BY <1>2, <1>4, <1>11, <1>12, PageCut
<1>14. Ids(F) \subseteq Ids(D)
  BY <1>11 DEF Ids
<1>15. PICK p : p = [page |-> Ids(F), more |-> more, next |-> IF more THEN cursorFor(q, l) ELSE NoCursor]
  OBVIOUS
<1>16. p.page = Ids(F) /\ p.more = more /\ p.next = IF more THEN cursorFor(q, l) ELSE NoCursor
  BY <1>15
<1>17. PageOf(q, D, p)
  BY <1>10, <1>13, <1>14, <1>16 DEF PageOf
<1> QED
  BY <1>1, <1>3, <1>4, <1>15, <1>17

Ways == {"none", "activity", "created", "waiting", "id"}
CursorRow ==
    [sort : Ways, order : {"asc", "desc"}, filter : Filters, v : 0..MaxRowClock, id : 0..MaxRowId]
QueryRow ==
    [sort : Ways, order : {"asc", "desc"}, filter : Filters, limit : 1..LimitMax, cursor : CursorRow]
PageRow == [page : SUBSET (1..MaxRowId), more : BOOLEAN, next : CursorRow]
WalkRow ==
    [res : Resources, pc : {"begin", "between", "enrich", "hydrate", "hot", "sink", "done"},
     cursor : CursorRow, query : QueryRow, read : PageRow,
     seen : SUBSET (1..MaxRowId), twice : SUBSET (1..MaxRowId)]

\* r comes after the position of a cursor, in the cursor's own order
Beyond(c, r) == c = NoCursor \/ Precedes(c.order, [v |-> c.v, id |-> c.id], Pos(c.sort, r))

\* a client at position c that has got S: of the ids A, those untouched (not in T) it has or
\* will come to, and it will not come again to one it has
Kept(R, A, T, c, S) ==
    /\ \A i \in A \ T : \E r \in R : r.id = i /\ (i \in S \/ Beyond(c, r))
    /\ \A r \in R : r.id \in S \ T => ~Beyond(c, r)

Admits(A, filter) == \A i \in A : Shows(filter, i)

ListTypes ==
    /\ rows \in SUBSET ListedRow /\ IdsApart(rows)
    /\ swept \in BOOLEAN /\ slipped \in BOOLEAN /\ rowClock \in 0..MaxRowClock
    /\ start \in SUBSET (1..MaxRowId) /\ touched \in SUBSET (1..MaxRowId)
    /\ walk \in WalkRow
    /\ walk.seen \cup walk.read.page \subseteq Ids(rows) \cup touched
    /\ walk.twice \subseteq walk.seen

WalkAsks ==
    /\ walk.pc = "begin" => walk.cursor = NoCursor /\ walk.seen = {}
    /\ walk.pc = "between" => walk.cursor.sort # "none"
    /\ walk.pc \in {"enrich", "hydrate"} /\ walk.read.more => walk.read.next.sort # "none"
    /\ walk.pc \in {"hot", "sink"} =>
          /\ walk.query.cursor = walk.cursor /\ walk.query.sort # "none"
          /\ PageParams(walk.cursor, walk.query)

WalkKeeps ==
    /\ walk.pc = "between" =>
          Kept(rows, start, touched, walk.cursor, walk.seen) /\ Admits(start, walk.cursor.filter)
    /\ walk.pc \in {"hot", "sink"} =>
          Kept(rows, start, touched, walk.cursor, walk.seen) /\ Admits(start, walk.query.filter)
    /\ walk.pc = "hot" => ~swept
    /\ walk.pc \in {"enrich", "hydrate"} =>
          LET p == walk.read IN
          /\ p.page \cap walk.seen \subseteq touched
          /\ start \ touched \subseteq Ids(rows)
          /\ ~p.more => start \ touched \subseteq walk.seen \cup p.page
          /\ p.more => /\ Kept(rows, start, touched, p.next, walk.seen \cup p.page)
                       /\ Admits(start, p.next.filter)
    /\ walk.pc = "enrich" /\ walk.read.more =>
          \E r \in rows : r.id = walk.read.next.id /\ r.at = walk.read.next.v
    /\ walk.pc = "done" => start \ touched \subseteq walk.seen
    /\ walk.twice \subseteq touched

ListInd == ListTypes /\ WalkAsks /\ (~slipped => WalkKeeps)

LEMMA ListConstants ==
  /\ MaxRowId \in Nat /\ MaxRowClock \in Nat \ {0} /\ LimitMax \in Nat \ {0}
  /\ RawLimits \subseteq Nat /\ "any" \in Filters
  BY ListingAssumption

LEMMA NothingTyped ==
  NoCursor \in CursorRow /\ NoQuery \in QueryRow /\ NoPage \in PageRow /\ NoCursor.sort = "none"
<1>1. NoCursor \in CursorRow /\ NoCursor.sort = "none"
  BY ListConstants DEF NoCursor, CursorRow, Ways
<1>2. PICK c \in CursorRow : c = NoCursor
  BY <1>1
<1>3. [sort |-> "none", order |-> "desc", filter |-> "any", limit |-> 1, cursor |-> c] \in QueryRow
  BY ListConstants DEF QueryRow, Ways
<1>4. [page |-> {}, more |-> FALSE, next |-> c] \in PageRow
  BY DEF PageRow
<1> QED
  BY <1>1, <1>2, <1>3, <1>4 DEF NoQuery, NoPage

LEMMA ListIndInit == ListingInit => ListInd
<1> SUFFICES ASSUME ListingInit PROVE ListInd
  OBVIOUS
<1>1. PICK res \in Resources : walk = NoWalk(res)
  BY DEF ListingInit
<1>2. PICK c \in CursorRow, q \in QueryRow, p \in PageRow : c = NoCursor /\ q = NoQuery /\ p = NoPage
  BY NothingTyped
<1>3. walk = [res |-> res, pc |-> "begin", cursor |-> c, query |-> q, read |-> p, seen |-> {}, twice |-> {}]
  BY <1>1, <1>2 DEF NoWalk
<1>4. p.page = {}
  BY <1>2 DEF NoPage
<1>5. walk \in WalkRow /\ walk.pc = "begin" /\ walk.cursor = c /\ walk.seen = {} /\ walk.twice = {}
      /\ walk.read = p
  BY <1>3 DEF WalkRow
<1>6. rows \in SUBSET ListedRow /\ IdsApart(rows)
  BY ListingAssumption DEF ListingInit
<1>7. rowClock \in 0..MaxRowClock /\ start = {} /\ touched = {} /\ swept = FALSE /\ slipped = FALSE
  BY ListConstants DEF ListingInit
<1>8. ListTypes
  BY <1>4, <1>5, <1>6, <1>7 DEF ListTypes
<1>9. WalkAsks
  BY <1>2, <1>5 DEF WalkAsks
<1>10. WalkKeeps
  BY <1>5 DEF WalkKeeps
<1> QED
  BY <1>8, <1>9, <1>10 DEF ListInd

LEMMA CursorTyped ==
  ASSUME NEW q \in QueryRow, NEW l \in ListedRow
  PROVE  /\ cursorFor(q, l) \in CursorRow /\ cursorFor(q, l).sort = q.sort
         /\ cursorFor(q, l).order = q.order /\ cursorFor(q, l).filter = q.filter
         /\ cursorFor(q, l).id = l.id /\ cursorFor(q, l).v = SortValue(q.sort, l)
         /\ [v |-> cursorFor(q, l).v, id |-> cursorFor(q, l).id] = Pos(q.sort, l)
<1>1. q.sort \in Ways /\ q.order \in {"asc", "desc"} /\ q.filter \in Filters
  BY DEF QueryRow
<1>2. SortValue(q.sort, l) \in 0..MaxRowClock /\ l.id \in 0..MaxRowId
  BY PosTyped, ListConstants
<1> QED
  BY <1>1, <1>2 DEF cursorFor, CursorRow, Pos

\* a list handed over in the order of its cursors: skipping to the first row past the cursor
\* leaves the rows past it
LEMMA SliceIs ==
  ASSUME NEW q \in QueryRow, NEW S \in SUBSET ListedRow, IdsApart(S)
  PROVE  Slice(q, q, S) = Paginate(q, S)
<1> DEFINE items == {r \in S : Shows(q.filter, r.id)}
<1> DEFINE left == {r \in items : \E s \in items : Past(q, s) /\ ~Ahead(q, r, s)}
<1>1. ASSUME NEW r \in S, NEW s \in S, Past(q, s), ~Ahead(q, r, s) PROVE Past(q, r)
  <2>1. r = s \/ Ahead(q, s, r)
    BY <1>1, RowsOrdered
  <2>2. PICK x, y : x = Pos(q.sort, s) /\ y = Pos(q.sort, r)
    OBVIOUS
  <2>3. PICK z : z = [v |-> q.cursor.v, id |-> q.cursor.id]
    OBVIOUS
  <2>4. q.cursor \in CursorRow
    BY DEF QueryRow
  <2>5. z \in Positions
    BY <2>3, <2>4, ListConstants DEF CursorRow, Positions
  <2>6. x \in Positions /\ y \in Positions
    BY <2>2, PosTyped
  <2> QED
    BY <1>1, <2>1, <2>2, <2>3, <2>5, <2>6, PositionsOrdered DEF Past, Ahead
<1>2. \A r \in S : ~Ahead(q, r, r)
  BY RowsOrdered
<1>3. left = Due(q, S)
  BY <1>1, <1>2 DEF Due
<1> HIDE DEF left
<1>4. PICK D : D = left
  OBVIOUS
<1>5. Slice(q, q, S) =
        [page |-> Ids(FirstRows(D, q)), more |-> Cardinality(D) > q.limit,
         next |-> IF Cardinality(D) > q.limit THEN cursorFor(q, LastRow(FirstRows(D, q), q)) ELSE NoCursor]
  BY <1>4 DEF Slice, left, Ahead
<1>6. Paginate(q, S) =
        [page |-> Ids(FirstRows(D, q)), more |-> Cardinality(D) > q.limit,
         next |-> IF Cardinality(D) > q.limit THEN cursorFor(q, LastRow(FirstRows(D, q), q)) ELSE NoCursor]
  BY <1>3, <1>4 DEF Paginate, Due
<1> QED
  BY <1>5, <1>6

\* a list handed over in any order h: a page of it, and the whole of it when one page is enough
LEMMA SliceGives ==
  ASSUME NEW q \in QueryRow, q.sort # "none", NEW h, h.limit = q.limit, q.limit \in Nat \ {0},
         NEW S \in SUBSET ListedRow, IdsApart(S), NEW p, p = Slice(q, h, S)
  PROVE  /\ p.page \in SUBSET (1..MaxRowId) /\ p.page \subseteq Ids(S) /\ p.more \in BOOLEAN
         /\ p.next \in CursorRow /\ (p.more => p.next.sort # "none")
         /\ q.cursor = NoCursor /\ ~p.more => PageOf(q, Due(q, S), p)
<1> DEFINE items == {r \in S : Shows(q.filter, r.id)}
<1> DEFINE left == {r \in items : \E s \in items : Past(q, s) /\ ~Ahead(h, r, s)}
<1>1. PICK D \in SUBSET S : D = left
  OBVIOUS
<1>2. D \in SUBSET ListedRow /\ IdsApart(D)
  BY DEF IdsApart
<1>3. q.cursor = NoCursor => D = Due(q, S)
  <2>1. \A r \in S : ~Ahead(h, r, r)
    BY RowsOrdered
  <2> QED
    BY <1>1, <2>1 DEF Due, Past
<1> HIDE DEF left
<1>4. PICK F : F = FirstRows(D, h)
  OBVIOUS
<1>5. PICK more : more = (Cardinality(D) > q.limit)
  OBVIOUS
<1>6. PICK l : l = LastRow(F, h)
  OBVIOUS
<1>7. more \in BOOLEAN /\ (more <=> Cardinality(D) > q.limit)
  <2>1. (Cardinality(D) > q.limit) \in BOOLEAN
    BY SMT
  <2> QED
    BY <1>5, <2>1, Zenon
<1>8. p = [page |-> Ids(F), more |-> more, next |-> IF more THEN cursorFor(q, l) ELSE NoCursor]
  BY <1>1, <1>4, <1>5, <1>6 DEF Slice, left, Ahead
<1>9. p.page = Ids(F) /\ p.more = more /\ p.next = IF more THEN cursorFor(q, l) ELSE NoCursor
  BY <1>8
<1>10. Cardinality(D) \in Nat /\ IsFiniteSet(D)
  BY <1>2, RowsFinite
<1>11. F \in SUBSET D /\ (D # {} => F # {}) /\ (Cardinality(D) <= q.limit => F = D)
  BY <1>2, <1>4, FirstRowsBegin
<1>12. more => l \in ListedRow
  <2>1. more => Cardinality(D) # 0
    BY <1>7, <1>10
  <2>2. more => F # {}
    BY <2>1, <1>10, <1>11, FS_EmptySet
  <2>3. F \in SUBSET ListedRow /\ IdsApart(F)
    BY <1>2, <1>11 DEF IdsApart
  <2> QED
    BY <2>2, <2>3, <1>6, LastRowIs
<1>13. more => cursorFor(q, l) \in CursorRow /\ cursorFor(q, l).sort = q.sort
  BY <1>12, CursorTyped
<1>14. p.next \in CursorRow /\ (p.more => p.next.sort # "none")
  BY <1>9, <1>13, NothingTyped
<1>15. \A r \in S : r.id \in 1..MaxRowId
  BY PosTyped
<1>16. p.page \in SUBSET (1..MaxRowId) /\ p.page \subseteq Ids(S)
  BY <1>1, <1>9, <1>11, <1>15 DEF Ids
<1>17. ASSUME q.cursor = NoCursor, ~p.more PROVE PageOf(q, Due(q, S), p)
  <2>1. ~more /\ F = D /\ p.next = NoCursor /\ p.page = Ids(D)
    BY <1>7, <1>9, <1>10, <1>11, <1>17
  <2> QED
    BY <1>3, <1>7, <1>9, <1>17, <2>1 DEF PageOf
<1> QED
  BY <1>7, <1>9, <1>14, <1>16, <1>17

\* page p is nothing the client has, and takes it on: what is left comes after it
Serves(R, A, T, S, q, p) ==
    /\ p.page \cap S \subseteq T
    /\ A \ T \subseteq Ids(R)
    /\ ~p.more => A \ T \subseteq S \cup p.page
    /\ p.more => /\ Kept(R, A, T, p.next, S \cup p.page) /\ Admits(A, p.next.filter)
                 /\ \E r \in R : r.id = p.next.id /\ SortValue(q.sort, r) = p.next.v

LEMMA PageKeeps ==
  ASSUME NEW R \in SUBSET ListedRow, IdsApart(R), NEW A, NEW T, NEW S, NEW c \in CursorRow,
         NEW q \in QueryRow, q.cursor = c, q.sort # "none", PageParams(c, q), Admits(A, q.filter),
         Kept(R, A, T, c, S), NEW p, PageOf(q, Due(q, R), p)
  PROVE  Serves(R, A, T, S, q, p)
<1>1. \A r \in R : Past(q, r) <=> Beyond(c, r)
  BY DEF Past, Beyond, PageParams
<1>2. PICK D : D = Due(q, R)
  OBVIOUS
<1>3. D \in SUBSET R /\ \A r \in R : r \in D <=> Shows(q.filter, r.id) /\ Beyond(c, r)
  BY <1>1, <1>2 DEF Due
<1>4. \A r \in R : r.id \in Ids(D) <=> r \in D
  BY <1>3 DEF Ids, IdsApart
<1>5. /\ p.page \subseteq Ids(D) /\ (~p.more => p.page = Ids(D))
      /\ p.more => \E l \in D :
          /\ p.next = cursorFor(q, l) /\ l.id \in p.page
          /\ \A r \in D : /\ r.id \in p.page => r = l \/ Ahead(q, r, l)
                          /\ r.id \notin p.page => Ahead(q, l, r)
  BY <1>2 DEF PageOf
<1>6. p.page \cap S \subseteq T
  <2> SUFFICES ASSUME NEW i \in p.page \cap S, i \notin T PROVE FALSE
    OBVIOUS
  <2>1. PICK r \in D : r.id = i
    BY <1>5 DEF Ids
  <2> QED
    BY <1>3, <2>1 DEF Kept
<1>7. A \ T \subseteq Ids(R)
  BY DEF Kept, Ids
<1>8. ASSUME ~p.more PROVE A \ T \subseteq S \cup p.page
  BY <1>3, <1>4, <1>5, <1>8 DEF Kept, Admits
<1>9. ASSUME p.more
      PROVE  /\ Kept(R, A, T, p.next, S \cup p.page) /\ Admits(A, p.next.filter)
             /\ \E r \in R : r.id = p.next.id /\ SortValue(q.sort, r) = p.next.v
  <2>1. PICK l \in D : /\ p.next = cursorFor(q, l) /\ l.id \in p.page
                       /\ \A r \in D : /\ r.id \in p.page => r = l \/ Ahead(q, r, l)
                                       /\ r.id \notin p.page => Ahead(q, l, r)
    BY <1>5, <1>9
  <2>2. l \in R /\ l \in ListedRow
    BY <1>3
  <2>3. PICK n : n = p.next
    OBVIOUS
  <2>4. /\ n.sort = q.sort /\ n.order = q.order /\ n.filter = q.filter /\ n.id = l.id
        /\ n.v = SortValue(q.sort, l) /\ [v |-> n.v, id |-> n.id] = Pos(q.sort, l)
    BY <2>1, <2>2, <2>3, CursorTyped
  <2>5. n # NoCursor
    BY <2>4, NothingTyped
  <2>6. \A r \in R : Beyond(n, r) <=> Ahead(q, l, r)
    BY <2>4, <2>5 DEF Beyond, Ahead
  <2>7. ASSUME NEW r \in R, Ahead(q, l, r) PROVE Beyond(c, r)
    <3>1. CASE c = NoCursor
      BY <3>1 DEF Beyond
    <3>2. CASE c # NoCursor
      <4>1. c.sort = q.sort /\ c.order = q.order
        BY <3>2 DEF PageParams
      <4>2. PICK x, y, z : x = [v |-> c.v, id |-> c.id] /\ y = Pos(q.sort, l) /\ z = Pos(q.sort, r)
        OBVIOUS
      <4>3. x \in Positions
        BY <4>2, ListConstants DEF CursorRow, Positions
      <4>4. y \in Positions /\ z \in Positions
        BY <2>2, <4>2, PosTyped
      <4>5. Precedes(q.order, x, y)
        BY <1>3, <3>2, <4>1, <4>2 DEF Beyond
      <4>6. Precedes(q.order, y, z)
        BY <2>7, <4>2 DEF Ahead
      <4>7. Precedes(q.order, x, z)
        BY <4>3, <4>4, <4>5, <4>6, PositionsOrdered
      <4> QED
        BY <4>1, <4>2, <4>7 DEF Beyond
    <3> QED
      BY <3>1, <3>2
  <2>8. ASSUME NEW i \in A \ T PROVE \E r \in R : r.id = i /\ (i \in S \cup p.page \/ Beyond(n, r))
    <3>1. PICK r \in R : r.id = i /\ (i \in S \/ Beyond(c, r))
      BY DEF Kept
    <3>2. i \in S \/ r \in D
      BY <1>3, <3>1 DEF Admits
    <3> QED
      BY <2>1, <2>6, <3>1, <3>2
  <2>9. ASSUME NEW r \in R, r.id \in (S \cup p.page) \ T PROVE ~Beyond(n, r)
    <3>1. CASE r.id \in p.page
      <4>1. r \in D
        BY <1>4, <1>5, <3>1
      <4>2. r = l \/ Ahead(q, r, l)
        BY <2>1, <3>1, <4>1
      <4>3. ~Ahead(q, l, r)
        BY <2>2, <4>2, RowsOrdered
      <4> QED
        BY <2>6, <4>3
    <3>2. CASE r.id \in S
      <4>1. ~Beyond(c, r)
        BY <2>9, <3>2 DEF Kept
      <4> QED
        BY <2>6, <2>7, <4>1
    <3> QED
      BY <2>9, <3>1, <3>2
  <2>10. Kept(R, A, T, n, S \cup p.page)
    BY <2>8, <2>9 DEF Kept
  <2> QED
    BY <2>2, <2>3, <2>4, <2>10
<1> QED
  BY <1>6, <1>7, <1>8, <1>9 DEF Serves

\* rows come, move and leave: what concerns the untouched ones stays
LEMMA KeptOn ==
  ASSUME NEW R, NEW Q, NEW A, NEW T, NEW U, NEW c, NEW S, T \subseteq U,
         \A r \in R : r.id \in U \/ r \in Q, \A r \in Q : r.id \in S \ U => r \in R,
         Kept(R, A, T, c, S)
  PROVE  Kept(Q, A, U, c, S)
<1>1. ASSUME NEW i \in A \ U PROVE \E r \in Q : r.id = i /\ (i \in S \/ Beyond(c, r))
  <2>1. PICK r \in R : r.id = i /\ (i \in S \/ Beyond(c, r))
    BY DEF Kept
  <2> QED
    BY <2>1
<1>2. ASSUME NEW r \in Q, r.id \in S \ U PROVE ~Beyond(c, r)
  BY <1>2 DEF Kept
<1> QED
  BY <1>1, <1>2 DEF Kept

\* the page has been read and is answered
LEMMA RespondTyped ==
  ASSUME ListInd, NEW got \in SUBSET (1..MaxRowId), NEW more \in BOOLEAN, NEW next \in CursorRow,
         Respond(got, more, next), UNCHANGED <<rows, swept, rowClock, touched>>, slipped' \in BOOLEAN,
         start' \in SUBSET (1..MaxRowId), got \subseteq Ids(rows) \cup touched,
         more => next.sort # "none"
  PROVE  /\ ListTypes' /\ WalkAsks'
         /\ walk'.pc = (IF more THEN "between" ELSE "done") /\ walk'.cursor = next
         /\ walk'.seen = walk.seen \cup got /\ walk'.twice = walk.twice \cup (walk.seen \cap got)
<1>1. walk \in WalkRow
  BY DEF ListInd, ListTypes
<1>2. PICK q \in QueryRow, p \in PageRow : q = NoQuery /\ p = NoPage
  BY NothingTyped
<1>3. PICK w : w = walk'
  OBVIOUS
<1>4. w = [walk EXCEPT !.pc = IF more THEN "between" ELSE "done", !.cursor = next,
                       !.query = q, !.read = p, !.seen = walk.seen \cup got,
                       !.twice = walk.twice \cup (walk.seen \cap got)]
  BY <1>1, <1>2, <1>3 DEF Respond, WalkRow
<1>5. w \in WalkRow
  BY <1>1, <1>4 DEF WalkRow
<1>6. /\ w.pc = (IF more THEN "between" ELSE "done") /\ w.cursor = next
      /\ w.seen = walk.seen \cup got /\ w.twice = walk.twice \cup (walk.seen \cap got) /\ w.read = p
  BY <1>1, <1>4 DEF WalkRow
<1>7. p.page = {}
  BY <1>2 DEF NoPage
<1>8. walk.twice \subseteq walk.seen /\ walk.seen \subseteq Ids(rows) \cup touched
  BY DEF ListInd, ListTypes
<1>9. ListTypes'
  <2>1. Ids(rows)' = Ids(rows) /\ IdsApart(rows)' = IdsApart(rows)
    BY DEF Ids, IdsApart
  <2> QED
    BY <1>3, <1>5, <1>6, <1>7, <1>8, <2>1 DEF ListInd, ListTypes
<1>10. WalkAsks'
  BY <1>3, <1>6 DEF WalkAsks
<1> QED
  BY <1>3, <1>6, <1>9, <1>10

LEMMA Responds ==
  ASSUME ListInd, NEW got \in SUBSET (1..MaxRowId), NEW more \in BOOLEAN, NEW next \in CursorRow,
         Respond(got, more, next), UNCHANGED <<rows, swept, rowClock, touched, slipped>>,
         start' \in SUBSET (1..MaxRowId), got \subseteq Ids(rows) \cup touched,
         more => next.sort # "none",
         ~slipped => /\ got \cap walk.seen \subseteq touched
                     /\ ~more => start' \ touched \subseteq walk.seen \cup got
                     /\ more => /\ Kept(rows, start', touched, next, walk.seen \cup got)
                                /\ Admits(start', next.filter)
  PROVE  ListInd'
<1>1. slipped' \in BOOLEAN
  BY DEF ListInd, ListTypes
<1>2. /\ ListTypes' /\ WalkAsks'
      /\ walk'.pc = (IF more THEN "between" ELSE "done") /\ walk'.cursor = next
      /\ walk'.seen = walk.seen \cup got /\ walk'.twice = walk.twice \cup (walk.seen \cap got)
  BY <1>1, RespondTyped
<1>11. ASSUME ~slipped' PROVE WalkKeeps'
  <2>1. ~slipped
    BY <1>11
  <2>2. walk.twice \subseteq touched
    BY <2>1 DEF ListInd, WalkKeeps
  <2>3. walk'.twice \subseteq touched
    BY <1>2, <2>1, <2>2
  <2>4. CASE more
    <3>1. walk'.pc = "between" /\ walk'.cursor = next /\ walk'.seen = walk.seen \cup got /\ walk'.twice \subseteq touched'
      BY <1>2, <2>3, <2>4
    <3>2. Kept(rows, start', touched, next, walk.seen \cup got) /\ Admits(start', next.filter)
      BY <2>1, <2>4
    <3>3. Kept(rows', start', touched', walk'.cursor, walk'.seen) /\ Admits(start', walk'.cursor.filter)
      BY <3>1, <3>2
    <3> QED
      BY <3>1, <3>3 DEF WalkKeeps
  <2>5. CASE ~more
    <3>1. walk'.pc = "done" /\ walk'.seen = walk.seen \cup got /\ walk'.twice \subseteq touched'
      BY <1>2, <2>3, <2>5
    <3>2. start' \ touched' \subseteq walk'.seen
      BY <2>1, <2>5, <3>1
    <3> QED
      BY <3>1, <3>2 DEF WalkKeeps
  <2> QED
    BY <2>4, <2>5
<1> QED
  BY <1>2, <1>11 DEF ListInd

\* a second read is due
LEMMA Pauses ==
  ASSUME ListInd, NEW pc \in {"enrich", "hydrate", "hot", "sink"}, NEW q \in QueryRow, NEW p \in PageRow,
         Pause(pc, q, p), UNCHANGED <<rows, swept, rowClock, touched, slipped>>,
         start' \in SUBSET (1..MaxRowId), p.page \subseteq Ids(rows) \cup touched,
         pc \in {"enrich", "hydrate"} /\ p.more => p.next.sort # "none",
         pc \in {"hot", "sink"} => q.cursor = walk.cursor /\ q.sort # "none" /\ PageParams(walk.cursor, q),
         pc = "hot" => ~swept,
         ~slipped /\ pc \in {"hot", "sink"} =>
             Kept(rows, start', touched, walk.cursor, walk.seen) /\ Admits(start', q.filter),
         ~slipped /\ pc \in {"enrich", "hydrate"} =>
             /\ p.page \cap walk.seen \subseteq touched
             /\ start' \ touched \subseteq Ids(rows)
             /\ ~p.more => start' \ touched \subseteq walk.seen \cup p.page
             /\ p.more => /\ Kept(rows, start', touched, p.next, walk.seen \cup p.page)
                          /\ Admits(start', p.next.filter),
         ~slipped /\ pc = "enrich" /\ p.more => \E r \in rows : r.id = p.next.id /\ r.at = p.next.v
  PROVE  ListInd'
<1>1. walk \in WalkRow
  BY DEF ListInd, ListTypes
<1>2. PICK w : w = walk'
  OBVIOUS
<1>3. w = [walk EXCEPT !.pc = pc, !.query = q, !.read = p]
  BY <1>2 DEF Pause
<1>4. w \in WalkRow
  BY <1>1, <1>3 DEF WalkRow
<1>5. /\ w.pc = pc /\ w.query = q /\ w.read = p
      /\ w.cursor = walk.cursor /\ w.seen = walk.seen /\ w.twice = walk.twice
  BY <1>1, <1>3 DEF WalkRow
<1>6. walk.twice \subseteq walk.seen /\ walk.seen \subseteq Ids(rows) \cup touched
  BY DEF ListInd, ListTypes
<1>7. Ids(rows)' = Ids(rows) /\ IdsApart(rows)' = IdsApart(rows)
  BY DEF Ids, IdsApart
<1>8. ListTypes'
  BY <1>2, <1>4, <1>5, <1>6, <1>7 DEF ListInd, ListTypes
<1>9. WalkAsks'
  BY <1>2, <1>5 DEF WalkAsks, PageParams
<1>10. ASSUME ~slipped' PROVE WalkKeeps'
  <2>1. ~slipped
    BY <1>10
  <2>2. /\ walk'.pc = pc /\ walk'.query = q /\ walk'.read = p /\ walk'.cursor = walk.cursor
        /\ walk'.seen = walk.seen /\ walk'.twice = walk.twice
    BY <1>2, <1>5
  <2>3. walk.twice \subseteq touched
    BY <2>1 DEF ListInd, WalkKeeps
  <2>4. CASE pc \in {"hot", "sink"}
    <3>1. Kept(rows', start', touched', walk'.cursor, walk'.seen) /\ Admits(start', walk'.query.filter)
      BY <2>1, <2>2, <2>4
    <3> QED
      BY <2>2, <2>3, <2>4, <3>1 DEF WalkKeeps
  <2>5. CASE pc \in {"enrich", "hydrate"}
    <3>1. p.more => /\ Kept(rows', start', touched', p.next, walk'.seen \cup p.page)
                    /\ Admits(start', p.next.filter)
      BY <2>1, <2>2, <2>5
    <3>2. /\ p.page \cap walk'.seen \subseteq touched'
          /\ start' \ touched' \subseteq Ids(rows)'
          /\ ~p.more => start' \ touched' \subseteq walk'.seen \cup p.page
      BY <1>7, <2>1, <2>2, <2>5
    <3>3. pc = "enrich" /\ p.more => \E r \in rows' : r.id = p.next.id /\ r.at = p.next.v
      BY <2>1
    <3> QED
      BY <2>2, <2>3, <2>5, <3>1, <3>2, <3>3 DEF WalkKeeps
  <2> QED
    BY <2>4, <2>5
<1> QED
  BY <1>8, <1>9, <1>10 DEF ListInd

\* a request of the walk: it asks on from the cursor, for what the walk has asked for so far
LEMMA Asked ==
  ASSUME ListInd, NEW q \in Queries, Begin(q)
  PROVE  /\ q \in QueryRow /\ q.cursor = walk.cursor /\ q.sort # "none" /\ q.sort \in Sorts(walk.res)
         /\ PageParams(walk.cursor, q)
         /\ q.limit \in Nat \ {0} /\ start' \in SUBSET (1..MaxRowId)
         /\ ~slipped => Kept(rows, start', touched, walk.cursor, walk.seen) /\ Admits(start', q.filter)
<1>1. walk \in WalkRow /\ rows \in SUBSET ListedRow /\ start \in SUBSET (1..MaxRowId)
  BY DEF ListInd, ListTypes
<1>2. walk.cursor \in CursorRow /\ walk.res \in Resources
  BY <1>1 DEF WalkRow
<1>3. Sorts(walk.res) \subseteq Ways \ {"none"} /\ Orders(walk.res) \subseteq {"asc", "desc"}
  BY DEF Sorts, Orders, Ways
<1>4. \A l \in RawLimits : ClampLimit(l, 1) \in 1..LimitMax
  BY ListConstants DEF ClampLimit
<1>5. /\ q \in [sort : Sorts(walk.res), order : Orders(walk.res), filter : Filters,
                limit : {ClampLimit(l, 1) : l \in RawLimits}, cursor : {walk.cursor}]
      /\ walk.pc \in {"begin", "between"} /\ PageParams(walk.cursor, q)
  BY DEF Queries
<1>6. PICK Q : Q = Sorts(walk.res)
  OBVIOUS
<1>7. PICK O : O = Orders(walk.res)
  OBVIOUS
<1>8. PICK L : L = {ClampLimit(l, 1) : l \in RawLimits}
  OBVIOUS
<1>9. L \subseteq 1..LimitMax
  BY <1>4, <1>8
<1>10. q \in QueryRow /\ q.cursor = walk.cursor /\ q.sort # "none" /\ q.sort \in Q /\ q.limit \in 1..LimitMax
  BY <1>2, <1>3, <1>5, <1>6, <1>7, <1>8, <1>9 DEF QueryRow
<1>11. q.limit \in Nat \ {0}
  BY <1>10, ListConstants
<1>12. \A r \in rows : r.id \in 1..MaxRowId
  BY <1>1, PosTyped
<1>13. CASE walk.pc = "begin"
  <2>1. start' = {i \in Ids(rows) : Shows(q.filter, i)}
    BY <1>13 DEF Begin
  <2>2. start' \in SUBSET (1..MaxRowId)
    BY <1>12, <2>1 DEF Ids
  <2>3. walk.cursor = NoCursor /\ walk.seen = {}
    BY <1>13 DEF ListInd, WalkAsks
  <2>4. Kept(rows, start', touched, walk.cursor, walk.seen)
    BY <2>1, <2>3 DEF Kept, Beyond, Ids
  <2>5. Admits(start', q.filter)
    BY <2>1 DEF Admits
  <2> QED
    BY <1>5, <1>6, <1>10, <1>11, <2>2, <2>4, <2>5
<1>14. CASE walk.pc = "between"
  <2>1. start' = start
    BY <1>14 DEF Begin
  <2>2. walk.cursor # NoCursor
    BY <1>14, NothingTyped DEF ListInd, WalkAsks
  <2>3. walk.cursor.filter = q.filter
    BY <1>5, <2>2 DEF PageParams
  <2>4. ~slipped => Kept(rows, start, touched, walk.cursor, walk.seen) /\ Admits(start, q.filter)
    BY <1>14, <2>3 DEF ListInd, WalkKeeps
  <2> QED
    BY <1>1, <1>5, <1>6, <1>10, <1>11, <2>1, <2>4
<1> QED
  BY <1>5, <1>13, <1>14

LEMMA PageTyped ==
  ASSUME NEW R \in SUBSET ListedRow, NEW q \in QueryRow, q.sort # "none", NEW p, PageOf(q, Due(q, R), p)
  PROVE  /\ p.page \in SUBSET (1..MaxRowId) /\ p.page \subseteq Ids(R) /\ p.more \in BOOLEAN
         /\ p.next \in CursorRow /\ (p.more => p.next.sort # "none")
<1>1. \A r \in R : r.id \in 1..MaxRowId
  BY PosTyped
<1>2. Due(q, R) \subseteq R
  BY DEF Due
<1>3. p.page \in SUBSET (1..MaxRowId) /\ p.page \subseteq Ids(R) /\ p.more \in BOOLEAN
  BY <1>1, <1>2 DEF PageOf, Ids
<1>4. CASE p.more
  <2>1. PICK l \in Due(q, R) : p.next = cursorFor(q, l)
    BY <1>4 DEF PageOf
  <2>2. l \in ListedRow
    BY <1>2
  <2>3. cursorFor(q, l) \in CursorRow /\ cursorFor(q, l).sort = q.sort
    BY <2>2, CursorTyped
  <2> QED
    BY <1>3, <2>1, <2>3
<1>5. CASE ~p.more
  BY <1>3, <1>5, NothingTyped DEF PageOf
<1> QED
  BY <1>3, <1>4, <1>5

\* a page in one read
LEMMA PageAnswered ==
  ASSUME ListInd, NEW q \in QueryRow, q.cursor = walk.cursor, q.sort # "none",
         PageParams(walk.cursor, q), q.limit \in Nat \ {0}, start' \in SUBSET (1..MaxRowId),
         ~slipped => Kept(rows, start', touched, walk.cursor, walk.seen) /\ Admits(start', q.filter),
         NEW p, PageOf(q, Due(q, rows), p), Respond(p.page, p.more, p.next),
         UNCHANGED <<rows, swept, rowClock, touched, slipped>>
  PROVE  ListInd'
<1>1. rows \in SUBSET ListedRow /\ IdsApart(rows) /\ walk \in WalkRow
  BY DEF ListInd, ListTypes
<1>2. walk.cursor \in CursorRow
  BY <1>1 DEF WalkRow
<1>3. /\ p.page \in SUBSET (1..MaxRowId) /\ p.page \subseteq Ids(rows) /\ p.more \in BOOLEAN
      /\ p.next \in CursorRow /\ (p.more => p.next.sort # "none")
  BY <1>1, PageTyped
<1>4. PICK A : A = start'
  OBVIOUS
<1>5. ~slipped => /\ p.page \cap walk.seen \subseteq touched
                  /\ ~p.more => A \ touched \subseteq walk.seen \cup p.page
                  /\ p.more => /\ Kept(rows, A, touched, p.next, walk.seen \cup p.page)
                               /\ Admits(A, p.next.filter)
  <2> SUFFICES ASSUME ~slipped
               PROVE  /\ p.page \cap walk.seen \subseteq touched
                      /\ ~p.more => A \ touched \subseteq walk.seen \cup p.page
                      /\ p.more => /\ Kept(rows, A, touched, p.next, walk.seen \cup p.page)
                                   /\ Admits(A, p.next.filter)
    OBVIOUS
  <2>1. Kept(rows, A, touched, walk.cursor, walk.seen) /\ Admits(A, q.filter)
    BY <1>4
  <2>2. Serves(rows, A, touched, walk.seen, q, p)
    BY <1>1, <1>2, <2>1, PageKeeps
  <2> QED
    BY <2>2 DEF Serves
<1>6. PICK got, more, next : got = p.page /\ more = p.more /\ next = p.next
  OBVIOUS
<1>7. /\ got \in SUBSET (1..MaxRowId) /\ more \in BOOLEAN /\ next \in CursorRow /\ Respond(got, more, next)
      /\ got \subseteq Ids(rows) \cup touched /\ (more => next.sort # "none")
  BY <1>3, <1>6
<1>8. ~slipped => /\ got \cap walk.seen \subseteq touched
                  /\ ~more => start' \ touched \subseteq walk.seen \cup got
                  /\ more => /\ Kept(rows, start', touched, next, walk.seen \cup got)
                             /\ Admits(start', next.filter)
  BY <1>4, <1>5, <1>6
<1> QED
  BY <1>7, <1>8, Responds

\* the first read of a page that takes two
LEMMA PageHeld ==
  ASSUME ListInd, NEW q \in QueryRow, q.cursor = walk.cursor, q.sort # "none",
         PageParams(walk.cursor, q), q.limit \in Nat \ {0}, start' \in SUBSET (1..MaxRowId),
         ~slipped => Kept(rows, start', touched, walk.cursor, walk.seen) /\ Admits(start', q.filter),
         NEW p, PageOf(q, Due(q, rows), p), p = [page |-> p.page, more |-> p.more, next |-> p.next],
         NEW pc \in {"enrich", "hydrate"}, pc = "enrich" => q.sort = "waiting", Pause(pc, q, p),
         UNCHANGED <<rows, swept, rowClock, touched, slipped>>
  PROVE  ListInd'
<1>1. rows \in SUBSET ListedRow /\ IdsApart(rows) /\ walk \in WalkRow
  BY DEF ListInd, ListTypes
<1>2. walk.cursor \in CursorRow
  BY <1>1 DEF WalkRow
<1>3. /\ p.page \in SUBSET (1..MaxRowId) /\ p.page \subseteq Ids(rows) /\ p.more \in BOOLEAN
      /\ p.next \in CursorRow /\ (p.more => p.next.sort # "none")
  BY <1>1, PageTyped
<1>4. p \in PageRow
  BY <1>3 DEF PageRow
<1>5. PICK A : A = start'
  OBVIOUS
<1>6. ASSUME ~slipped
      PROVE  /\ p.page \cap walk.seen \subseteq touched
             /\ A \ touched \subseteq Ids(rows)
             /\ ~p.more => A \ touched \subseteq walk.seen \cup p.page
             /\ p.more => /\ Kept(rows, A, touched, p.next, walk.seen \cup p.page)
                          /\ Admits(A, p.next.filter)
                          /\ \E r \in rows : r.id = p.next.id /\ SortValue(q.sort, r) = p.next.v
  <2>1. Kept(rows, A, touched, walk.cursor, walk.seen) /\ Admits(A, q.filter)
    BY <1>5, <1>6
  <2>2. Serves(rows, A, touched, walk.seen, q, p)
    BY <1>1, <1>2, <2>1, PageKeeps
  <2> QED
    BY <2>2 DEF Serves
<1>7. ~slipped /\ pc = "enrich" /\ p.more => \E r \in rows : r.id = p.next.id /\ r.at = p.next.v
  BY <1>6 DEF SortValue
<1>8. ~slipped /\ pc \in {"enrich", "hydrate"} =>
             /\ p.page \cap walk.seen \subseteq touched
             /\ start' \ touched \subseteq Ids(rows)
             /\ ~p.more => start' \ touched \subseteq walk.seen \cup p.page
             /\ p.more => /\ Kept(rows, start', touched, p.next, walk.seen \cup p.page)
                          /\ Admits(start', p.next.filter)
  BY <1>5, <1>6
<1>9. pc \notin {"hot", "sink"} /\ p.page \subseteq Ids(rows) \cup touched
  BY <1>3
<1> QED
  BY <1>3, <1>4, <1>7, <1>8, <1>9, Pauses

LEMMA ListStep ==
  ASSUME ListInd, listConversations \/ ListContacts
  PROVE  ListInd'
<1>1. rows \in SUBSET ListedRow /\ IdsApart(rows)
  BY DEF ListInd, ListTypes
<1>2. UNCHANGED <<rows, swept, rowClock, touched, slipped>>
  BY DEF listConversations, ListContacts
<1>3. PICK q \in Queries :
          /\ Begin(q)
          /\ \/ Respond(Paginate(q, rows).page, Paginate(q, rows).more, Paginate(q, rows).next)
             \/ q.sort = "waiting" /\ Pause("enrich", q, Paginate(q, rows))
  BY DEF listConversations, ListContacts
<1>4. /\ q \in QueryRow /\ q.cursor = walk.cursor /\ q.sort # "none" /\ PageParams(walk.cursor, q)
      /\ q.limit \in Nat \ {0} /\ start' \in SUBSET (1..MaxRowId)
      /\ ~slipped => Kept(rows, start', touched, walk.cursor, walk.seen) /\ Admits(start', q.filter)
  BY <1>3, Asked
<1>5. PICK p : p = Paginate(q, rows)
  OBVIOUS
<1>6. PageOf(q, Due(q, rows), p)
  BY <1>1, <1>4, <1>5, PaginateGives
<1>7. p = [page |-> p.page, more |-> p.more, next |-> p.next]
  BY <1>5 DEF Paginate
<1>8. CASE Respond(p.page, p.more, p.next)
  BY <1>2, <1>4, <1>6, <1>8, PageAnswered
<1>9. CASE q.sort = "waiting" /\ Pause("enrich", q, p)
  BY <1>2, <1>4, <1>6, <1>7, <1>9, PageHeld
<1> QED
  BY <1>3, <1>5, <1>8, <1>9

\* in memory: as any list when its order is its cursors', and when one page holds it all
LEMMA SlicePageStep ==
  ASSUME ListInd, SlicePage
  PROVE  ListInd'
<1>1. rows \in SUBSET ListedRow /\ IdsApart(rows) /\ slipped \in BOOLEAN
  BY DEF ListInd, ListTypes
<1>2. UNCHANGED <<rows, swept, rowClock, touched>>
  BY DEF SlicePage
<1>3. PICK q \in Queries :
          LET p == Slice(q, asHanded(q), rows) IN
          /\ Begin(q) /\ Respond(p.page, p.more, p.next)
          /\ slipped' = (slipped \/ (walk.res = "pinned" /\ (p.more \/ q.cursor # NoCursor)))
  BY DEF SlicePage
<1>4. PICK h, p : h = asHanded(q) /\ p = Slice(q, h, rows)
  OBVIOUS
<1>5. /\ Begin(q) /\ Respond(p.page, p.more, p.next)
      /\ slipped' = (slipped \/ (walk.res = "pinned" /\ (p.more \/ q.cursor # NoCursor)))
  BY <1>3, <1>4
<1>6. /\ q \in QueryRow /\ q.cursor = walk.cursor /\ q.sort # "none" /\ PageParams(walk.cursor, q)
      /\ q.limit \in Nat \ {0} /\ start' \in SUBSET (1..MaxRowId)
      /\ ~slipped => Kept(rows, start', touched, walk.cursor, walk.seen) /\ Admits(start', q.filter)
  BY <1>5, Asked
<1>7. h.limit = q.limit
  BY <1>4, <1>6 DEF asHanded, QueryRow
<1>8. /\ p.page \in SUBSET (1..MaxRowId) /\ p.page \subseteq Ids(rows) /\ p.more \in BOOLEAN
      /\ p.next \in CursorRow /\ (p.more => p.next.sort # "none")
      /\ q.cursor = NoCursor /\ ~p.more => PageOf(q, Due(q, rows), p)
  BY <1>1, <1>4, <1>6, <1>7, SliceGives
<1>9. CASE walk.res # "pinned"
  <2>1. h = q
    BY <1>4, <1>9 DEF asHanded
  <2>2. p = Paginate(q, rows)
    BY <1>1, <1>4, <1>6, <2>1, SliceIs
  <2>3. PageOf(q, Due(q, rows), p)
    BY <1>1, <1>6, <2>2, PaginateGives
  <2>4. UNCHANGED <<rows, swept, rowClock, touched, slipped>>
    BY <1>1, <1>2, <1>5, <1>9
  <2> QED
    BY <1>5, <1>6, <2>3, <2>4, PageAnswered
<1>10. CASE walk.res = "pinned" /\ q.cursor = NoCursor /\ ~p.more
  <2>1. PageOf(q, Due(q, rows), p)
    BY <1>8, <1>10
  <2>2. UNCHANGED <<rows, swept, rowClock, touched, slipped>>
    BY <1>1, <1>2, <1>5, <1>8, <1>10
  <2> QED
    BY <1>5, <1>6, <2>1, <2>2, PageAnswered
<1>11. CASE walk.res = "pinned" /\ (q.cursor # NoCursor \/ p.more)
  <2>1. slipped' = TRUE
    BY <1>1, <1>5, <1>8, <1>11
  <2>2. PICK got, more, next : got = p.page /\ more = p.more /\ next = p.next
    OBVIOUS
  <2>3. /\ got \in SUBSET (1..MaxRowId) /\ more \in BOOLEAN /\ next \in CursorRow /\ Respond(got, more, next)
        /\ got \subseteq Ids(rows) \cup touched /\ (more => next.sort # "none")
    BY <1>5, <1>8, <2>2
  <2>4. ListTypes' /\ WalkAsks'
    BY <1>2, <1>6, <2>1, <2>3, RespondTyped
  <2> QED
    BY <2>1, <2>4 DEF ListInd
<1> QED
  BY <1>8, <1>9, <1>10, <1>11

LEMMA SearchStep ==
  ASSUME ListInd, searchConversations
  PROVE  ListInd'
<1>1. rows \in SUBSET ListedRow /\ IdsApart(rows)
  BY DEF ListInd, ListTypes
<1>2. UNCHANGED <<rows, swept, rowClock, touched, slipped>>
  BY DEF searchConversations
<1>3. PICK q \in Queries :
          /\ Begin(q)
          /\ Pause("hydrate", q,
                   [page |-> Ids(FirstRows(collectHits(q), q)), more |-> Cardinality(collectHits(q)) > q.limit,
                    next |-> IF Cardinality(collectHits(q)) > q.limit
                             THEN cursorFor(q, LastRow(FirstRows(collectHits(q), q), q)) ELSE NoCursor])
  BY DEF searchConversations
<1>4. /\ q \in QueryRow /\ q.cursor = walk.cursor /\ q.sort # "none" /\ PageParams(walk.cursor, q)
      /\ q.limit \in Nat \ {0} /\ start' \in SUBSET (1..MaxRowId)
      /\ ~slipped => Kept(rows, start', touched, walk.cursor, walk.seen) /\ Admits(start', q.filter)
  BY <1>3, Asked
<1>5. PICK w : w = [q EXCEPT !.limit = @ + 1]
  OBVIOUS
<1>6. w.limit = q.limit + 1 /\ w.sort = q.sort /\ w.order = q.order
  BY <1>4, <1>5 DEF QueryRow
<1>7. PICK H : H = collectHits(q)
  OBVIOUS
<1>8. H = FirstRows(Due(q, rows), w)
  BY <1>5, <1>7 DEF collectHits, Due
<1>9. PICK more : more = (Cardinality(H) > q.limit)
  OBVIOUS
<1>10. more \in BOOLEAN /\ (more <=> Cardinality(H) > q.limit)
  <2>1. (Cardinality(H) > q.limit) \in BOOLEAN
    BY SMT
  <2> QED
    BY <1>9, <2>1, Zenon
<1>11. PICK p : p = [page |-> Ids(FirstRows(H, q)), more |-> more,
                     next |-> IF more THEN cursorFor(q, LastRow(FirstRows(H, q), q)) ELSE NoCursor]
  OBVIOUS
<1>12. Pause("hydrate", q, p)
  BY <1>3, <1>7, <1>9, <1>11
<1>13. p = [page |-> p.page, more |-> p.more, next |-> p.next]
  BY <1>11
<1>14. PageOf(q, Due(q, rows), p)
  BY <1>1, <1>4, <1>5, <1>6, <1>8, <1>10, <1>11, SearchGives
<1> QED
  BY <1>2, <1>4, <1>12, <1>13, <1>14, PageHeld

LEMMA ListMessagesStep ==
  ASSUME ListInd, listMessages
  PROVE  ListInd'
<1>1. UNCHANGED <<rows, swept, rowClock, touched, slipped>> /\ swept \in BOOLEAN
  BY DEF listMessages, ListInd, ListTypes
<1>2. PICK q \in Queries : Begin(q) /\ Pause(IF swept THEN "sink" ELSE "hot", q, NoPage)
  BY DEF listMessages
<1>3. /\ q \in QueryRow /\ q.cursor = walk.cursor /\ q.sort # "none" /\ PageParams(walk.cursor, q)
      /\ start' \in SUBSET (1..MaxRowId)
      /\ ~slipped => Kept(rows, start', touched, walk.cursor, walk.seen) /\ Admits(start', q.filter)
  BY <1>2, Asked
<1>4. PICK p \in PageRow : p = NoPage
  BY NothingTyped
<1>5. p.page = {}
  BY <1>4 DEF NoPage
<1>6. PICK pc : pc = IF swept THEN "sink" ELSE "hot"
  OBVIOUS
<1>7. pc \in {"hot", "sink"} /\ (pc = "hot" => ~swept) /\ Pause(pc, q, p)
  BY <1>1, <1>2, <1>4, <1>6
<1>8. pc \notin {"enrich", "hydrate"} /\ pc \in {"enrich", "hydrate", "hot", "sink"}
  BY <1>7
<1>9. p.page \subseteq Ids(rows) \cup touched
  BY <1>5
<1> QED
  BY <1>1, <1>3, <1>7, <1>8, <1>9, Pauses

\* the archive holds the rows that were in the table, cut by the same query
LEMMA ReadStep ==
  ASSUME ListInd, ListHot \/ ListArchived
  PROVE  ListInd'
<1>1. /\ rows \in SUBSET ListedRow /\ IdsApart(rows) /\ walk \in WalkRow /\ start \in SUBSET (1..MaxRowId)
      /\ WalkAsks /\ (~slipped => WalkKeeps)
  BY DEF ListInd, ListTypes
<1>2. UNCHANGED <<rows, swept, rowClock, touched, slipped>> /\ start' = start
  BY DEF ListHot, ListArchived
<1>3. PICK q : q = walk.query
  OBVIOUS
<1>4. walk.pc \in {"hot", "sink"}
  BY DEF ListHot, ListArchived
<1>5. /\ q \in QueryRow /\ q.cursor = walk.cursor /\ q.sort # "none" /\ PageParams(walk.cursor, q)
      /\ q.limit \in 1..LimitMax
  BY <1>1, <1>3, <1>4 DEF WalkRow, WalkAsks, QueryRow
<1>6. q.limit \in Nat \ {0}
  BY <1>5, ListConstants
<1>7. ~slipped => Kept(rows, start, touched, walk.cursor, walk.seen) /\ Admits(start, q.filter)
  BY <1>1, <1>3, <1>4 DEF WalkKeeps
<1>8. PICK S : S \in SUBSET rows /\ Respond(Paginate(q, S).page, Paginate(q, S).more, Paginate(q, S).next)
                /\ (Due(q, S) = Due(q, rows) \/ slipped)
  <2>1. CASE ListHot
    <3>1. ~slipped => ~swept
      BY <1>1, <2>1 DEF ListHot, WalkKeeps
    <3>2. PICK S : S = IF swept THEN {} ELSE rows
      OBVIOUS
    <3>3. Respond(Paginate(q, S).page, Paginate(q, S).more, Paginate(q, S).next)
      BY <1>3, <2>1, <3>2 DEF ListHot
    <3> QED
      BY <3>1, <3>2, <3>3
  <2>2. CASE ListArchived
    <3>1. PICK S : S = ArchivedMessages(q.filter)
      OBVIOUS
    <3>2. Respond(Paginate(q, S).page, Paginate(q, S).more, Paginate(q, S).next)
      BY <1>3, <2>2, <3>1 DEF ListArchived
    <3>3. Due(q, S) = Due(q, rows) /\ S \in SUBSET rows
      BY <3>1 DEF ArchivedMessages, Due
    <3> QED
      BY <3>2, <3>3
  <2> QED
    BY <2>1, <2>2
<1>9. PICK p : p = Paginate(q, S)
  OBVIOUS
<1>10. S \in SUBSET ListedRow /\ IdsApart(S)
  BY <1>1, <1>8 DEF IdsApart
<1>11. PageOf(q, Due(q, S), p)
  BY <1>6, <1>9, <1>10, PaginateGives
<1>12. CASE Due(q, S) = Due(q, rows)
  BY <1>1, <1>2, <1>5, <1>6, <1>7, <1>8, <1>9, <1>11, <1>12, PageAnswered
<1>13. CASE slipped
  <2>1. /\ p.page \in SUBSET (1..MaxRowId) /\ p.page \subseteq Ids(S) /\ p.more \in BOOLEAN
        /\ p.next \in CursorRow /\ (p.more => p.next.sort # "none")
    BY <1>5, <1>10, <1>11, PageTyped
  <2>2. Ids(S) \subseteq Ids(rows)
    BY <1>8 DEF Ids
  <2>3. PICK got, more, next : got = p.page /\ more = p.more /\ next = p.next
    OBVIOUS
  <2>4. /\ got \in SUBSET (1..MaxRowId) /\ more \in BOOLEAN /\ next \in CursorRow /\ Respond(got, more, next)
        /\ got \subseteq Ids(rows) \cup touched /\ (more => next.sort # "none")
    BY <1>8, <1>9, <2>1, <2>2, <2>3
  <2>5. start' \in SUBSET (1..MaxRowId)
    BY <1>1, <1>2
  <2> QED
    BY <1>2, <1>13, <2>4, <2>5, Responds
<1> QED
  BY <1>8, <1>12, <1>13

\* unless it moved, the row the cursor is minted from still has the value the page was cut by
LEMMA EnrichStep ==
  ASSUME ListInd, enrich
  PROVE  ListInd'
<1>1. /\ rows \in SUBSET ListedRow /\ IdsApart(rows) /\ walk \in WalkRow /\ start \in SUBSET (1..MaxRowId)
      /\ WalkAsks /\ (~slipped => WalkKeeps) /\ rowClock \in 0..MaxRowClock
      /\ walk.read.page \subseteq Ids(rows) \cup touched
  BY DEF ListInd, ListTypes
<1>2. UNCHANGED <<rows, swept, rowClock, touched, slipped>> /\ start' = start /\ walk.pc = "enrich"
  BY DEF enrich
<1>3. PICK p : p = walk.read
  OBVIOUS
<1>4. p \in PageRow
  BY <1>1, <1>3 DEF WalkRow
<1>5. p.page \in SUBSET (1..MaxRowId) /\ p.more \in BOOLEAN /\ p.next \in CursorRow
  BY <1>4 DEF PageRow
<1>6. PICK v : /\ v \in IF ~p.more THEN {0} ELSE IF {r \in rows : r.id = p.next.id} = {} THEN 0..rowClock
                        ELSE {r.at : r \in {s \in rows : s.id = p.next.id}}
               /\ Respond(p.page, p.more, [p.next EXCEPT !.v = v])
  BY <1>3 DEF enrich
<1>7. v \in 0..MaxRowClock
  <2>1. \A r \in rows : r.at \in 0..MaxRowClock
    BY <1>1 DEF ListedRow
  <2> QED
    BY <1>1, <1>5, <1>6, <2>1, ListConstants
<1>8. PICK next : next = [p.next EXCEPT !.v = v]
  OBVIOUS
<1>9. next \in CursorRow /\ next.sort = p.next.sort
  BY <1>5, <1>7, <1>8 DEF CursorRow
<1>10. p.more => next.sort # "none"
  BY <1>1, <1>2, <1>3, <1>9 DEF WalkAsks
<1>11. ASSUME ~slipped, p.more PROVE next = p.next
  <2>1. PICK r \in rows : r.id = p.next.id /\ r.at = p.next.v
    BY <1>1, <1>2, <1>3, <1>11 DEF WalkKeeps
  <2>2. \A s \in rows : s.id = p.next.id => s = r
    BY <1>1, <2>1 DEF IdsApart
  <2>3. v = p.next.v
    BY <1>6, <1>11, <2>1, <2>2
  <2> QED
    BY <1>5, <1>8, <2>3 DEF CursorRow
<1>12. ASSUME ~slipped
       PROVE  /\ p.page \cap walk.seen \subseteq touched
              /\ ~p.more => start \ touched \subseteq walk.seen \cup p.page
              /\ p.more => /\ Kept(rows, start, touched, p.next, walk.seen \cup p.page)
                           /\ Admits(start, p.next.filter)
  BY <1>1, <1>2, <1>3, <1>12 DEF WalkKeeps
<1>13. PICK got, more : got = p.page /\ more = p.more
  OBVIOUS
<1>14. /\ got \in SUBSET (1..MaxRowId) /\ more \in BOOLEAN /\ Respond(got, more, next)
       /\ got \subseteq Ids(rows) \cup touched /\ (more => next.sort # "none")
  BY <1>1, <1>3, <1>5, <1>6, <1>8, <1>10, <1>13
<1>15. ~slipped => /\ got \cap walk.seen \subseteq touched
                   /\ ~more => start' \ touched \subseteq walk.seen \cup got
                   /\ more => /\ Kept(rows, start', touched, next, walk.seen \cup got)
                              /\ Admits(start', next.filter)
  BY <1>2, <1>11, <1>12, <1>13
<1>16. start' \in SUBSET (1..MaxRowId)
  BY <1>1, <1>2
<1> QED
  BY <1>2, <1>9, <1>14, <1>15, <1>16, Responds

\* a row that is not there any more has been touched
LEMMA HydrateStep ==
  ASSUME ListInd, hydrate
  PROVE  ListInd'
<1>1. /\ rows \in SUBSET ListedRow /\ IdsApart(rows) /\ walk \in WalkRow /\ start \in SUBSET (1..MaxRowId)
      /\ WalkAsks /\ (~slipped => WalkKeeps)
      /\ walk.read.page \subseteq Ids(rows) \cup touched
  BY DEF ListInd, ListTypes
<1>2. UNCHANGED <<rows, swept, rowClock, touched, slipped>> /\ start' = start /\ walk.pc = "hydrate"
  BY DEF hydrate
<1>3. PICK p : p = walk.read
  OBVIOUS
<1>4. p \in PageRow
  BY <1>1, <1>3 DEF WalkRow
<1>5. p.page \in SUBSET (1..MaxRowId) /\ p.more \in BOOLEAN /\ p.next \in CursorRow
  BY <1>4 DEF PageRow
<1>6. PICK got, more, next : got = p.page \cap Ids(rows) /\ more = p.more /\ next = p.next
  OBVIOUS
<1>7. /\ got \in SUBSET (1..MaxRowId) /\ more \in BOOLEAN /\ next \in CursorRow /\ Respond(got, more, next)
      /\ got \subseteq Ids(rows) \cup touched /\ (more => next.sort # "none")
  BY <1>1, <1>2, <1>3, <1>5, <1>6 DEF hydrate, WalkAsks
<1>8. ASSUME ~slipped
      PROVE  /\ got \cap walk.seen \subseteq touched
             /\ ~more => start \ touched \subseteq walk.seen \cup got
             /\ more => /\ Kept(rows, start, touched, next, walk.seen \cup got)
                        /\ Admits(start, next.filter)
  <2>1. /\ p.page \cap walk.seen \subseteq touched
        /\ start \ touched \subseteq Ids(rows)
        /\ ~p.more => start \ touched \subseteq walk.seen \cup p.page
        /\ p.more => /\ Kept(rows, start, touched, p.next, walk.seen \cup p.page)
                     /\ Admits(start, p.next.filter)
    BY <1>1, <1>2, <1>3, <1>8 DEF WalkKeeps
  <2>2. ASSUME more PROVE Kept(rows, start, touched, next, walk.seen \cup got)
    <3>1. Kept(rows, start, touched, next, walk.seen \cup p.page)
      BY <1>6, <2>1, <2>2
    <3>2. ASSUME NEW i \in start \ touched
          PROVE  \E r \in rows : r.id = i /\ (i \in walk.seen \cup got \/ Beyond(next, r))
      <4>1. PICK r \in rows : r.id = i /\ (i \in walk.seen \cup p.page \/ Beyond(next, r))
        BY <3>1 DEF Kept
      <4>2. i \in Ids(rows)
        BY <4>1 DEF Ids
      <4> QED
        BY <1>6, <4>1, <4>2
    <3>3. \A r \in rows : r.id \in (walk.seen \cup got) \ touched => ~Beyond(next, r)
      BY <1>6, <3>1 DEF Kept
    <3> QED
      BY <3>2, <3>3 DEF Kept
  <2> QED
    BY <1>6, <2>1, <2>2
<1>9. ~slipped => /\ got \cap walk.seen \subseteq touched
                  /\ ~more => start' \ touched \subseteq walk.seen \cup got
                  /\ more => /\ Kept(rows, start', touched, next, walk.seen \cup got)
                             /\ Admits(start', next.filter)
  BY <1>2, <1>8
<1>10. start' \in SUBSET (1..MaxRowId)
  BY <1>1, <1>2
<1> QED
  BY <1>2, <1>7, <1>9, <1>10, Responds

\* the rows change under the walk
LEMMA RowsChange ==
  ASSUME ListInd, UNCHANGED <<swept, walk, rowClock, start>>,
         rows' \in SUBSET ListedRow, IdsApart(rows)', touched' \in SUBSET (1..MaxRowId), slipped' \in BOOLEAN,
         touched \subseteq touched', slipped => slipped',
         \A r \in rows : r.id \in touched' \/ r \in rows',
         \A r \in rows' : r.id \in (Ids(rows) \cup touched) \ touched' => r \in rows,
         \A r \in rows : r \in rows' \/ slipped' \/ ~Minting(r)
  PROVE  ListInd'
<1>1. /\ walk \in WalkRow /\ WalkAsks /\ (~slipped => WalkKeeps)
      /\ walk.seen \cup walk.read.page \subseteq Ids(rows) \cup touched
  BY DEF ListInd, ListTypes
<1>2. PICK Q, U : Q = rows' /\ U = touched'
  OBVIOUS
<1>3. Ids(rows) \cup touched \subseteq Ids(Q) \cup U
  BY <1>2 DEF Ids
<1>4. ListTypes'
  BY <1>1, <1>2, <1>3 DEF ListInd, ListTypes, Ids
<1>5. WalkAsks'
  BY <1>1 DEF WalkAsks, PageParams
<1>6. ASSUME NEW c, NEW S \in SUBSET (Ids(rows) \cup touched), Kept(rows, start, touched, c, S)
      PROVE  Kept(Q, start, U, c, S)
  <2>1. \A r \in rows : r.id \in U \/ r \in Q
    BY <1>2
  <2>2. \A r \in Q : r.id \in S \ U => r \in rows
    BY <1>2
  <2>3. touched \subseteq U
    BY <1>2
  <2> QED
    BY <1>6, <2>1, <2>2, <2>3, KeptOn
<1>7. ASSUME ~slipped' PROVE WalkKeeps'
  <2>1. WalkKeeps
    BY <1>1, <1>7
  <2>2. walk.pc = "between" => Kept(Q, start, U, walk.cursor, walk.seen) /\ Admits(start, walk.cursor.filter)
    BY <1>1, <1>6, <2>1 DEF WalkKeeps
  <2>3. walk.pc \in {"hot", "sink"} =>
            Kept(Q, start, U, walk.cursor, walk.seen) /\ Admits(start, walk.query.filter)
    BY <1>1, <1>6, <2>1 DEF WalkKeeps
  <2>4. ASSUME walk.pc \in {"enrich", "hydrate"}
        PROVE  /\ walk.read.page \cap walk.seen \subseteq U
               /\ start \ U \subseteq Ids(Q)
               /\ ~walk.read.more => start \ U \subseteq walk.seen \cup walk.read.page
               /\ walk.read.more => /\ Kept(Q, start, U, walk.read.next, walk.seen \cup walk.read.page)
                                    /\ Admits(start, walk.read.next.filter)
    <3>1. /\ walk.read.page \cap walk.seen \subseteq touched
          /\ start \ touched \subseteq Ids(rows)
          /\ ~walk.read.more => start \ touched \subseteq walk.seen \cup walk.read.page
          /\ walk.read.more => /\ Kept(rows, start, touched, walk.read.next, walk.seen \cup walk.read.page)
                               /\ Admits(start, walk.read.next.filter)
      BY <2>1, <2>4 DEF WalkKeeps
    <3>2. walk.read.more => Kept(Q, start, U, walk.read.next, walk.seen \cup walk.read.page)
      BY <1>1, <1>6, <3>1
    <3> QED
      BY <1>2, <1>3, <3>1, <3>2
  <2>5. ASSUME walk.pc = "enrich", walk.read.more
        PROVE  \E r \in Q : r.id = walk.read.next.id /\ r.at = walk.read.next.v
    <3>1. PICK r \in rows : r.id = walk.read.next.id /\ r.at = walk.read.next.v
      BY <2>1, <2>5 DEF WalkKeeps
    <3>2. r \in Q
      BY <1>2, <1>7, <2>5, <3>1 DEF Minting
    <3> QED
      BY <3>1, <3>2
  <2>6. /\ walk.pc = "hot" => ~swept
        /\ walk.pc = "done" => start \ U \subseteq walk.seen
        /\ walk.twice \subseteq U
    BY <1>2, <2>1 DEF WalkKeeps
  <2>7. walk' = walk /\ start' = start /\ swept' = swept /\ Ids(rows)' = Ids(Q)
    BY <1>2 DEF Ids
  <2> QED
    BY <1>2, <2>2, <2>3, <2>4, <2>5, <2>6, <2>7 DEF WalkKeeps
<1> QED
  BY <1>4, <1>5, <1>7 DEF ListInd

LEMMA InsertStep ==
  ASSUME ListInd, Insert
  PROVE  ListInd'
<1>1. /\ rows \in SUBSET ListedRow /\ IdsApart(rows) /\ touched \in SUBSET (1..MaxRowId)
      /\ slipped \in BOOLEAN /\ rowClock \in 0..MaxRowClock
  BY DEF ListInd, ListTypes
<1>2. PICK i \in 1..MaxRowId :
          /\ \A o \in Ids(rows) \cup start \cup touched : o < i
          /\ rows' = rows \cup {[id |-> i, born |-> rowClock, at |-> rowClock]}
  BY DEF Insert
<1>3. UNCHANGED <<swept, walk, rowClock, start, touched, slipped>>
  BY DEF Insert
<1>4. PICK n : n = [id |-> i, born |-> rowClock, at |-> rowClock]
  OBVIOUS
<1>5. n \in ListedRow /\ n.id = i
  BY <1>1, <1>4 DEF ListedRow
<1>6. i \notin Ids(rows) \cup touched
  BY <1>2, ListConstants
<1>7. rows' = rows \cup {n} /\ rows' \in SUBSET ListedRow
  BY <1>1, <1>2, <1>4, <1>5
<1>8. IdsApart(rows)'
  BY <1>1, <1>5, <1>6, <1>7 DEF IdsApart, Ids
<1>9. \A r \in rows' : r.id \in (Ids(rows) \cup touched) \ touched' => r \in rows
  BY <1>5, <1>6, <1>7
<1> QED
  BY <1>1, <1>3, <1>7, <1>8, <1>9, RowsChange

LEMMA MoveStep ==
  ASSUME ListInd, NEW r \in rows, Move(r) \/ Depart(r)
  PROVE  ListInd'
<1>1. /\ rows \in SUBSET ListedRow /\ IdsApart(rows) /\ touched \in SUBSET (1..MaxRowId)
      /\ slipped \in BOOLEAN /\ rowClock \in 0..MaxRowClock
  BY DEF ListInd, ListTypes
<1>2. /\ UNCHANGED <<swept, walk, rowClock, start>> /\ touched' = touched \cup {r.id}
      /\ slipped' = (slipped \/ Minting(r))
  BY DEF Move, Depart
<1>3. PICK n : n = [r EXCEPT !.at = rowClock]
  OBVIOUS
<1>4. r \in ListedRow /\ r.id \in 1..MaxRowId
  BY <1>1, PosTyped
<1>5. n \in ListedRow /\ n.id = r.id
  BY <1>1, <1>3, <1>4 DEF ListedRow
<1>6. rows' = (rows \ {r}) \cup {n} \/ rows' = rows \ {r}
  BY <1>3 DEF Move, Depart
<1>7. rows' \in SUBSET ListedRow /\ IdsApart(rows)'
  BY <1>1, <1>5, <1>6 DEF IdsApart
<1>8. slipped' \in BOOLEAN /\ (slipped => slipped') /\ (Minting(r) => slipped')
  BY <1>1, <1>2 DEF Minting
<1>9. touched' \in SUBSET (1..MaxRowId) /\ touched \subseteq touched' /\ r.id \in touched'
  BY <1>1, <1>2, <1>4
<1>10. \A s \in rows : s.id \in touched' \/ s \in rows'
  BY <1>6, <1>9
<1>11. \A s \in rows' : s.id \in (Ids(rows) \cup touched) \ touched' => s \in rows
  BY <1>5, <1>6, <1>9
<1>12. \A s \in rows : s \in rows' \/ slipped' \/ ~Minting(s)
  BY <1>6, <1>8
<1> QED
  BY <1>2, <1>7, <1>8, <1>9, <1>10, <1>11, <1>12, RowsChange

LEMMA AroundList ==
  ASSUME ListInd, Sweep \/ RowTick \/ UNCHANGED listVars
  PROVE  ListInd'
<1>1. UNCHANGED <<rows, walk, start, touched>>
  BY DEF Sweep, RowTick, listVars
<1>2. rowClock' \in 0..MaxRowClock /\ swept' \in BOOLEAN /\ slipped' \in BOOLEAN /\ (slipped => slipped')
  <2>1. rowClock \in 0..MaxRowClock /\ swept \in BOOLEAN /\ slipped \in BOOLEAN
    BY DEF ListInd, ListTypes
  <2>2. rowClock' \in 0..MaxRowClock
    BY <2>1, ListConstants DEF Sweep, RowTick, listVars
  <2>3. swept' \in BOOLEAN /\ slipped' \in BOOLEAN /\ (slipped => slipped')
    <3>1. CASE Sweep
      BY <2>1, <3>1, Zenon DEF Sweep
    <3>2. CASE RowTick \/ UNCHANGED listVars
      BY <2>1, <3>2 DEF RowTick, listVars
    <3> QED
      BY <3>1, <3>2
  <2> QED
    BY <2>2, <2>3
<1>3. ListTypes'
  BY <1>1, <1>2 DEF ListInd, ListTypes, Ids, IdsApart
<1>4. WalkAsks'
  BY <1>1 DEF ListInd, WalkAsks, PageParams
<1>5. walk.pc = "hot" => swept' = swept \/ slipped'
  BY DEF Sweep, RowTick, listVars
<1>6. ASSUME ~slipped' PROVE WalkKeeps'
  <2>1. WalkKeeps
    BY <1>2, <1>6 DEF ListInd
  <2>2. walk.pc = "hot" => ~swept'
    BY <1>5, <1>6, <2>1 DEF WalkKeeps
  <2>3. Ids(rows)' = Ids(rows)
    BY <1>1 DEF Ids
  <2> QED
    BY <1>1, <2>1, <2>2, <2>3 DEF WalkKeeps
<1> QED
  BY <1>3, <1>4, <1>6 DEF ListInd

LEMMA ListIndStep == ListInd /\ [ListingNext]_listVars => ListInd'
<1> SUFFICES ASSUME ListInd, [ListingNext]_listVars PROVE ListInd'
  OBVIOUS
<1>1. CASE listConversations \/ ListContacts
  BY <1>1, ListStep
<1>0. CASE SlicePage
  BY <1>0, SlicePageStep
<1>2. CASE enrich
  BY <1>2, EnrichStep
<1>3. CASE searchConversations
  BY <1>3, SearchStep
<1>4. CASE hydrate
  BY <1>4, HydrateStep
<1>5. CASE listMessages
  BY <1>5, ListMessagesStep
<1>6. CASE ListHot \/ ListArchived
  BY <1>6, ReadStep
<1>7. CASE Insert
  BY <1>7, InsertStep
<1>8. CASE \E r \in rows : Move(r) \/ Depart(r)
  BY <1>8, MoveStep
<1>9. CASE Sweep \/ RowTick \/ UNCHANGED listVars
  BY <1>9, AroundList
<1> QED
  BY <1>0, <1>1, <1>2, <1>3, <1>4, <1>5, <1>6, <1>7, <1>8, <1>9 DEF ListingNext

\* A client that follows the cursors of a list to the end gets every row that was there when it
\* began and was left alone, and gets no such row twice: for any rows, page sizes and changes in
\* between (page.go's keyset, SlicePage's skip, paging.go's cursors, the archive's cut).  The
\* lists whose rows come in another order than their cursors go (queues, translation projects)
\* are promised this for one page only.
THEOREM WalkSeesAllHolds == ListingSpec => []WalkSeesAll
<1>1. ListInd => WalkSeesAll
  <2> SUFFICES ASSUME ListInd PROVE WalkSeesAll
    OBVIOUS
  <2>1. Cardinality(Ids(rows)) = Cardinality(rows)
    BY RowsFinite DEF ListInd, ListTypes
  <2>2. walk.read \in PageRow /\ walk.seen \in SUBSET (1..MaxRowId)
    BY DEF ListInd, ListTypes, WalkRow
  <2>3. walk.read.page \in SUBSET (1..MaxRowId)
    BY <2>2 DEF PageRow
  <2>4. ListingTypeOK
    BY <2>1, <2>2, <2>3 DEF ListInd, ListTypes, ListingTypeOK
  <2>5. /\ walk.pc = "done" /\ ~slipped => start \ touched \subseteq walk.seen
        /\ ~slipped => walk.twice \subseteq touched
    BY DEF ListInd, WalkKeeps
  <2> QED
    BY <2>4, <2>5 DEF WalkSeesAll
<1> QED
  BY <1>1, ListIndInit, ListIndStep, PTL DEF ListingSpec

=============================================================================
