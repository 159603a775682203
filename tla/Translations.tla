---------------------------- MODULE Translations ----------------------------
(***************************************************************************)
(* One translation project of a tenant: its settings, the keys it          *)
(* declares, the drafts (overrides) and the released bundles               *)
(* (domain/translation.go, gormstore/translation.go, i18n/catalog.go,      *)
(* api/translation.go).  The platform project, whose keys ship with the    *)
(* build, and a project of the tenant's own run through the same code.     *)
(*                                                                         *)
(* A request reads the project first, writes, and then publishes from what *)
(* the tables hold by then, under the version after the one it read.  Only *)
(* the primary key of the bundles decides between two such requests.       *)
(***************************************************************************)
EXTENDS Policy

CONSTANTS
    Project,   \* the project
    Catalogs,  \* what ships, texts by language and key: the platform project's,
               \* or nothing (<<>>) for a project of the tenant's own
    Keys,      \* keys it may declare
    Words,     \* texts people write
    Editors,   \* callers
    Edits,     \* slots for requests in flight
    MaxEdits   \* bound: requests

Source == "en"
NoText == "-"

ASSUME TranslationsAssumption ==
    /\ Project \in Projects /\ Source \in Locales
    /\ NoText \notin Words /\ Words \cap Keys = {}
    /\ \A c \in Catalogs \ {<<>>} : /\ Source \in DOMAIN c /\ DOMAIN c \subseteq Locales
                                 /\ \A l \in DOMAIN c : DOMAIN c[l] = DOMAIN c[Source]

VARIABLES
    shipped,    \* which of the two projects this is; never changes
    project,    \* the settings row with its languages; `row` says it is there
    keyRows,    \* declared keys with the source text
    drafts,     \* overrides by language and key: the text and its source
    bundles,    \* released texts by language and version
    releases,   \* released versions
    edit,       \* requests in flight
    edits,      \* requests so far
    owed,       \* history: drafts whose request was answered published
    torn        \* history: the project was deleted under a request in flight,
                \* or two releases without a language in common share a version

translationVars == <<shipped, project, keyRows, drafts, bundles, releases, edit, edits, owed, torn>>

Own == shipped = <<>>

\* Locales() of the catalog that ships; a new project starts with the source language
Unset == [row |-> FALSE, fallback |-> Source, auto |-> FALSE,
          locales |-> IF Own THEN {Source} ELSE DOMAIN shipped]

Latest(vs) == IF vs = {} THEN 0 ELSE CHOOSE v \in vs : \A w \in vs : w <= v

\* what a project looks like to the request that loaded it
View == [project |-> project, version |-> Latest(releases)]

NoEdit == [op |-> "idle", pc |-> "start",
           view |-> [project |-> Unset, version |-> 0], at |-> <<Source, "">>,
           text |-> NoText, source |-> NoText, may |-> FALSE, strings |-> <<>>, last |-> FALSE]

TranslationTypeOK ==
    /\ project.locales \subseteq Locales /\ project.fallback \in project.locales
    /\ DOMAIN keyRows \subseteq Keys /\ (~Own => keyRows = <<>>)
    /\ DOMAIN drafts \subseteq Locales \X Keys
    /\ DOMAIN bundles \subseteq Locales \X releases
    /\ owed \subseteq DOMAIN drafts

TranslationsInit ==
    /\ shipped \in Catalogs
    /\ \E auto \in BOOLEAN : project = IF Own \/ auto THEN [Unset EXCEPT !.row = TRUE, !.auto = auto] ELSE Unset
    /\ keyRows \in IF Own THEN {[k \in ks |-> w] : ks \in SUBSET Keys, w \in Words} ELSE {<<>>}
    /\ drafts = <<>> /\ bundles = <<>> /\ releases = {}
    /\ edit = [e \in Edits |-> NoEdit] /\ edits = 0
    /\ owed = {} /\ torn = FALSE

-----------------------------------------------------------------------------
(* The catalog.                                                            *)

\* catalogFor: what ships, or the tenant's keys as the source language
catalogFor == IF Own THEN [l \in {Source} |-> keyRows] ELSE shipped

Default(cat, l, k) == IF l \in DOMAIN cat /\ k \in DOMAIN cat[l] THEN cat[l][k] ELSE NoText
CatalogKeys(cat) == DOMAIN cat[Source]

\* a draft beats what ships in the same language
TextIn(cat, ov, l, k) == IF <<l, k>> \in DOMAIN ov THEN ov[<<l, k>>].text ELSE Default(cat, l, k)

\* the language asked for, the project's fallback, the source language, the key itself
Resolve(cat, ov, l, fallback, k) ==
    LET chain == <<l, fallback, Source>>
        hits == {i \in 1..3 : TextIn(cat, ov, chain[i], k) # NoText} IN
    IF hits = {} THEN k ELSE TextIn(cat, ov, chain[CHOOSE i \in hits : \A j \in hits : i <= j], k)

Bundle(cat, ov, l, fallback) == [k \in CatalogKeys(cat) |-> Resolve(cat, ov, l, fallback, k)]

-----------------------------------------------------------------------------
(* What the handlers check of the caller.                                  *)

mayOwn(p) == Authorize(p, "translations.manage", NoResource)
mayManage(p) == AuthorizeTranslation(p, "translations.manage", Project, "")
mayWrite(p, l) == AuthorizeTranslation(p, "translations.write", Project, l)
mayRelease(p) == AuthorizeTranslation(p, "translations.publish", Project, "")

-----------------------------------------------------------------------------
(* The project row.                                                        *)

BeginEdit == edits < MaxEdits /\ edits' = edits + 1

EditsInFlight == \E e \in Edits : edit[e].op # "idle"

\* TranslationProject: the platform project needs no row
Found == ~Own \/ project.row

\* SaveProject replaces the row and its languages; the fallback is one of them
SaveTranslationProject ==
    \E p \in Editors, ls \in SUBSET Locales, auto \in BOOLEAN : \E fb \in ls :
        /\ BeginEdit /\ Found
        /\ mayManage(p)
        /\ project' = [row |-> TRUE, fallback |-> fb, auto |-> auto, locales |-> ls]
        /\ UNCHANGED <<shipped, keyRows, drafts, bundles, releases, edit, owed, torn>>

CreateTranslationProject ==
    \E p \in Editors :
        /\ Own /\ BeginEdit /\ ~project.row
        /\ mayOwn(p)
        /\ project' = [Unset EXCEPT !.row = TRUE]
        /\ UNCHANGED <<shipped, keyRows, drafts, bundles, releases, edit, owed, torn>>

\* DeleteProject drops the row and everything that hangs off it
DeleteTranslationProject ==
    \E p \in Editors :
        /\ Own /\ BeginEdit /\ project.row
        /\ mayOwn(p)
        /\ project' = Unset
        /\ keyRows' = <<>> /\ drafts' = <<>> /\ bundles' = <<>> /\ releases' = {} /\ owed' = {}
        /\ torn' = (torn \/ EditsInFlight)
        /\ UNCHANGED <<shipped, edit>>

-----------------------------------------------------------------------------
(* Writes of keys and drafts: load, write, publish.                        *)

Start(e, c) ==
    /\ edit[e].op = "idle" /\ BeginEdit
    /\ edit' = [edit EXCEPT ![e] = [c EXCEPT !.view = View]]
    /\ UNCHANGED <<shipped, project, keyRows, drafts, bundles, releases, owed, torn>>

\* a language that is on and a key that is declared; the source read here is
\* what the draft is written against
PutTranslationOverride(e) ==
    \E p \in Editors, l \in project.locales, k \in CatalogKeys(catalogFor), w \in Words :
        /\ Found /\ mayWrite(p, l)
        /\ Start(e, [NoEdit EXCEPT !.op = "put", !.pc = "write", !.at = <<l, k>>, !.text = w,
                                   !.source = Default(catalogFor, Source, k), !.may = MayPublish(p, Project)])

DeleteTranslationOverride(e) ==
    \E p \in Editors, l \in Locales, k \in Keys :
        /\ Found /\ mayWrite(p, l)
        /\ Start(e, [NoEdit EXCEPT !.op = "reset", !.pc = "write", !.at = <<l, k>>, !.may = MayPublish(p, Project)])

\* ownProject: the platform's keys are declared in its releases
DeclareTranslationKey(e) ==
    \E p \in Editors, k \in Keys, w \in Words :
        /\ Own /\ Found /\ mayManage(p)
        /\ Start(e, [NoEdit EXCEPT !.op = "declare", !.pc = "write", !.at = <<Source, k>>, !.text = w, !.may = TRUE])

UndeclareTranslationKey(e) ==
    \E p \in Editors, k \in Keys :
        /\ Own /\ Found /\ mayManage(p)
        /\ Start(e, [NoEdit EXCEPT !.op = "undeclare", !.pc = "write", !.at = <<Source, k>>, !.may = TRUE])

\* rows deleted, and rows written over those there are
Without(f, gone) == [x \in DOMAIN f \ gone |-> f[x]]
Over(f, g) == [x \in DOMAIN f \cup DOMAIN g |-> IF x \in DOMAIN f THEN f[x] ELSE g[x]]

PutOverride(c) ==
    drafts' = Over([lk \in {c.at} |-> [text |-> c.text, source |-> c.source]], drafts) /\ UNCHANGED keyRows
DeleteOverride(c) == drafts' = Without(drafts, {c.at}) /\ UNCHANGED keyRows
PutKey(c) == keyRows' = Over([k \in {c.at[2]} |-> c.text], keyRows) /\ UNCHANGED drafts
DeleteKey(c) == /\ drafts' = Without(drafts, Locales \X {c.at[2]})
                /\ keyRows' = Without(keyRows, {c.at[2]})

\* autoPublish: the setting as it was loaded, for a caller who may publish
Publishes(c) == c.may /\ c.view.project.auto

WriteEdit(e) ==
    LET c == edit[e] IN
    /\ c.pc = "write"
    /\ CASE c.op = "put" -> PutOverride(c) [] c.op = "reset" -> DeleteOverride(c)
         [] c.op = "declare" -> PutKey(c) [] c.op = "undeclare" -> DeleteKey(c)
    /\ owed' = IF c.op = "undeclare" THEN owed \ (Locales \X {c.at[2]})
               ELSE IF c.op = "declare" THEN owed ELSE owed \ {c.at}
    /\ edit' = [o \in Edits |->
                  IF o # e THEN IF edit[o].at = c.at THEN [edit[o] EXCEPT !.last = FALSE] ELSE edit[o]
                  ELSE IF Publishes(c) THEN [c EXCEPT !.pc = "publish", !.last = c.op = "put"] ELSE NoEdit]
    /\ UNCHANGED <<shipped, project, bundles, releases, edits, torn>>

-----------------------------------------------------------------------------
(* Releases.                                                               *)

\* mutant: the version is taken when the release is written
NextAtCommit(c) == Latest(releases) + 1

\* nextVersion follows the version that was loaded
nextVersion(c) == c.view.version + 1

\* POST publish
PublishTranslations(e) ==
    \E p \in Editors :
        /\ Found /\ mayRelease(p)
        /\ Start(e, [NoEdit EXCEPT !.op = "publish", !.pc = "publish", !.may = TRUE])

\* publish: every language the loaded project has, from the drafts of now
publish(e) ==
    LET c == edit[e] IN
    /\ c.pc = "publish"
    /\ edit' = [edit EXCEPT ![e].pc = "commit", ![e].strings =
                  [l \in c.view.project.locales |-> Bundle(catalogFor, drafts, l, c.view.project.fallback)]]
    /\ UNCHANGED <<shipped, project, keyRows, drafts, bundles, releases, edits, owed, torn>>

\* ReleaseBundles of an earlier version, under the next
RollbackTranslations(e) ==
    \E p \in Editors, v \in releases :
        LET old == {l \in Locales : <<l, v>> \in DOMAIN bundles} IN
        /\ mayRelease(p)
        /\ old # {}
        /\ edit[e].op = "idle" /\ BeginEdit
        /\ edit' = [edit EXCEPT ![e] = [NoEdit EXCEPT !.op = "rollback", !.pc = "commit", !.view = View,
                                         !.strings = [l \in old |-> bundles[<<l, v>>]]]]
        /\ UNCHANGED <<shipped, project, keyRows, drafts, bundles, releases, owed, torn>>

\* the rows a release adds
ReleaseRows(c) == [lv \in (DOMAIN c.strings) \X {nextVersion(c)} |-> c.strings[lv[1]]]

\* one transaction: a bundle of that language and version refuses all of it
CreateRelease(c) == DOMAIN ReleaseRows(c) \cap DOMAIN bundles = {} /\ bundles' = Over(bundles, ReleaseRows(c))

\* the draft the request wrote is still the draft
StillDraft(c) == c.last /\ c.at \in DOMAIN drafts

commitRelease(e) ==
    LET c == edit[e] IN
    /\ c.pc = "commit"
    /\ CreateRelease(c)
    /\ releases' = releases \cup {nextVersion(c)}
    /\ owed' = IF c.op = "rollback" THEN {} ELSE IF StillDraft(c) THEN owed \cup {c.at} ELSE owed
    /\ torn' = (torn \/ nextVersion(c) \in releases)
    /\ edit' = [edit EXCEPT ![e] = NoEdit]
    /\ UNCHANGED <<shipped, project, keyRows, drafts, edits>>

\* the release is refused, or the process dies; what was written stays
FailEdit(e) ==
    /\ edit[e].op # "idle"
    /\ edit' = [edit EXCEPT ![e] = NoEdit]
    /\ UNCHANGED <<shipped, project, keyRows, drafts, bundles, releases, edits, owed, torn>>

-----------------------------------------------------------------------------
(* What clients get.                                                       *)

\* ReleaseLocales of the current version, each at that version
TranslationManifest == {lv \in DOMAIN bundles : lv[2] = Latest(releases)}

\* TranslationBundle, verbatim
TranslationBundle(l, v) == IF <<l, v>> \in DOMAIN bundles THEN bundles[<<l, v>>] ELSE <<>>

\* ResolveText: released text, never a draft, then what ships (a bundle that cannot
\* be read counts as not released, which is left out here)
ResolveText(l, k) ==
    LET at == <<l, project.fallback, Source>>
        said(i) == LET b == TranslationBundle(at[i], Latest(releases)) IN k \in DOMAIN b
        hits == {i \in 1..3 : said(i)} IN
    IF hits = {} THEN Resolve(shipped, <<>>, l, project.fallback, k)
    ELSE TranslationBundle(at[CHOOSE i \in hits : \A j \in hits : i <= j], Latest(releases))[k]

\* TranslationKeys: a draft written against another source text is to be reviewed
KeyState(l, k) ==
    IF <<l, k>> \notin DOMAIN drafts THEN "default"
    ELSE IF drafts[<<l, k>>].source = Default(catalogFor, Source, k) THEN "custom" ELSE "needs_review"

-----------------------------------------------------------------------------
TranslationsNext ==
    \/ SaveTranslationProject \/ CreateTranslationProject \/ DeleteTranslationProject
    \/ \E e \in Edits :
         \/ PutTranslationOverride(e) \/ DeleteTranslationOverride(e)
         \/ DeclareTranslationKey(e) \/ UndeclareTranslationKey(e)
         \/ PublishTranslations(e) \/ RollbackTranslations(e)
         \/ WriteEdit(e) \/ publish(e) \/ commitRelease(e) \/ FailEdit(e)

TranslationsSpec == TranslationsInit /\ [][TranslationsNext]_translationVars

-----------------------------------------------------------------------------
(* A text whose write was answered as published is what the current        *)
(* version says in that language and under that key, to clients and in the *)
(* mail and nudges the server composes, whatever else was written and      *)
(* published at the same time, until it is rolled back: no release goes    *)
(* out that has missed it.                                                 *)
PublishedIsLive ==
    ~torn => \A lk \in owed : \A lv \in TranslationManifest :
        lv[1] = lk[1] /\ lk[2] \in DOMAIN bundles[lv] =>
            /\ TranslationBundle(lk[1], lv[2])[lk[2]] = drafts[lk].text
            /\ Own \/ ResolveText(lk[1], lk[2]) = drafts[lk].text
=============================================================================
