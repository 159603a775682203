------------------------------ MODULE Contacts ------------------------------
(***************************************************************************)
(* One person's contact record: the profile the tenant asserts, written    *)
(* whole across a wide and a narrow row (domain/contact.go,                *)
(* gormstore/contact.go), next to the columns that are Sild's own, the     *)
(* push opt-out and the language.  The app writes the profile on every     *)
(* start, so writes overlap and most change nothing.                       *)
(***************************************************************************)
EXTENDS Naturals, FiniteSets

CONSTANTS
    Profiles,   \* profiles
    NameIn,     \* the name in each, "" when there is none
    NoProfile,  \* no row in the wide table
    Langs,      \* languages
    Puts,       \* slots for requests in flight
    MaxPuts     \* bound: requests

ASSUME ContactsAssumption == NoProfile \notin Profiles /\ DOMAIN NameIn = Profiles /\ MaxPuts \in Nat

VARIABLES
    blob,        \* the wide row
    narrow,      \* the narrow row: search text, name, opt-out, language
    searchable,  \* the version of the tenant's searchable keys
    put,         \* requests in flight
    puts,
    wish,        \* history: the push setting asked for last
    untold,      \* history: the profile changed and no event has gone out since
    missed       \* history: a process died before its event or its publish failed, or a
                 \* write that had found the profile as it wanted it landed on another's

contactVars == <<blob, narrow, searchable, put, puts, wish, untold, missed>>

NoNarrow == [text |-> <<>>, name |-> "", out |-> FALSE, lang |-> ""]
NoPut == [pc |-> "idle", want |-> NoProfile, text |-> <<>>, changed |-> FALSE, lang |-> ""]

ContactTypeOK ==
    /\ blob \in Profiles \cup {NoProfile}
    /\ narrow.out \in BOOLEAN /\ narrow.lang \in Langs \cup {""}

ContactsInit ==
    /\ blob = NoProfile /\ narrow = NoNarrow /\ searchable = 0
    /\ put = [p \in Puts |-> NoPut] /\ puts = 0
    /\ wish = FALSE /\ untold = FALSE /\ missed = FALSE

-----------------------------------------------------------------------------
\* what the searchable keys pick from a profile
searchText(profile) == <<profile, searchable>>
profileName(profile) == IF profile = NoProfile THEN "" ELSE NameIn[profile]

\* PUT /v1/contacts: without a profile it only records the language
upsertContact(p) ==
    \E want \in Profiles \cup {NoProfile}, lang \in Langs \cup {""} :
        /\ put[p].pc = "idle" /\ puts < MaxPuts /\ puts' = puts + 1
        /\ want # NoProfile \/ lang # ""
        /\ put' = [put EXCEPT ![p] = [NoPut EXCEPT !.pc = IF want = NoProfile THEN "lang" ELSE "read",
                                       !.want = want, !.text = searchText(want), !.lang = lang]]
        /\ UNCHANGED <<blob, narrow, searchable, wish, untold, missed>>

\* the rest of the request
Onward(p) == [put EXCEPT ![p] = IF @.lang = "" THEN NoPut ELSE [@ EXCEPT !.pc = "lang"]]

\* sameJSON: is the stored profile the one asked for
ReadProfile(p) ==
    /\ put[p].pc = "read"
    /\ LET changed == blob # put[p].want IN
       put' = [put EXCEPT ![p].changed = changed, ![p].pc = IF changed THEN "write" ELSE "narrow"]
    /\ UNCHANGED <<blob, narrow, searchable, puts, wish, untold, missed>>

\* a write that moves nothing writes nothing
narrowMatches(p) ==
    /\ put[p].pc = "narrow"
    /\ put' = IF narrow.text = put[p].text /\ narrow.name = profileName(put[p].want)
              THEN Onward(p) ELSE [put EXCEPT ![p].pc = "write"]
    /\ UNCHANGED <<blob, narrow, searchable, puts, wish, untold, missed>>

\* mutant: the narrow row is written whole
ProfileColumnsAll(c) == [NoNarrow EXCEPT !.text = c.text, !.name = profileName(c.want)]

\* the columns a profile write names
ProfileColumns(c) == [narrow EXCEPT !.text = c.text, !.name = profileName(c.want)]

\* both rows in one transaction
Upsert(p) ==
    LET c == put[p] IN
    /\ c.pc = "write"
    /\ narrow' = ProfileColumns(c) /\ blob' = c.want
    /\ untold' = (untold \/ blob # c.want)
    /\ missed' = (missed \/ (~c.changed /\ blob # c.want))
    /\ put' = IF c.changed THEN [put EXCEPT ![p].pc = "tell"] ELSE Onward(p)
    /\ UNCHANGED <<searchable, puts, wish>>

\* contact.updated, on a change only: readers read again; emit drops the error of a
\* publish that fails
Tell(p) ==
    \E out \in BOOLEAN :
        /\ put[p].pc = "tell"
        /\ untold' = (untold /\ ~out) /\ missed' = (missed \/ ~out)
        /\ put' = Onward(p)
        /\ UNCHANGED <<blob, narrow, searchable, puts, wish>>

SetContactLocale(p) ==
    /\ put[p].pc = "lang"
    /\ narrow' = [narrow EXCEPT !.lang = put[p].lang]
    /\ put' = [put EXCEPT ![p] = NoPut]
    /\ UNCHANGED <<blob, searchable, puts, wish, untold, missed>>

DieInPut(p) ==
    /\ put[p].pc # "idle"
    /\ missed' = (missed \/ put[p].pc = "tell")
    /\ put' = [put EXCEPT ![p] = NoPut]
    /\ UNCHANGED <<blob, narrow, searchable, puts, wish, untold>>

\* one column of the narrow row, which is created when there is none
SetPushOptOut(off) == narrow' = [narrow EXCEPT !.out = off]

\* the tenant's own backend turns nudges on or off
SetContactPush ==
    \E off \in BOOLEAN :
        /\ puts < MaxPuts /\ puts' = puts + 1
        /\ SetPushOptOut(off) /\ wish' = off
        /\ UNCHANGED <<blob, searchable, put, untold, missed>>

\* the tenant changes its searchable keys; no row is rewritten for it
SetSearchableKeys ==
    /\ searchable = 0 /\ searchable' = 1
    /\ UNCHANGED <<blob, narrow, put, puts, wish, untold, missed>>

ContactsNext ==
    \/ \E p \in Puts : \/ upsertContact(p) \/ ReadProfile(p) \/ narrowMatches(p) \/ Upsert(p)
                        \/ Tell(p) \/ SetContactLocale(p) \/ DieInPut(p)
    \/ SetContactPush \/ SetSearchableKeys

ContactsSpec == ContactsInit /\ [][ContactsNext]_contactVars

-----------------------------------------------------------------------------
(* No start of the app lifts a person's push opt-out; the name that lists  *)
(* and nudges show, and the text search matches, are always those of the   *)
(* stored profile; and once the requests are over every change of it was   *)
(* announced after it was made, bar a process that died first, a publish   *)
(* that failed or a write that decided on an older read.                   *)
ContactWhole ==
    /\ ContactTypeOK
    /\ narrow.out = wish
    /\ narrow.name = profileName(blob)
    /\ blob = NoProfile \/ \E v \in 0..searchable : narrow.text = <<blob, v>>
    /\ (\A p \in Puts : put[p].pc = "idle") /\ ~missed => ~untold
=============================================================================
