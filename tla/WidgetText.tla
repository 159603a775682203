----------------------------- MODULE WidgetText -----------------------------
(***************************************************************************)
(* The widget's text (web/src/i18n/index.ts): a page starts from what      *)
(* ships or from what an earlier page left in local storage, asks for the  *)
(* manifest of the released languages, settles on one of them and fetches  *)
(* its bundle when the version is not the one it has.                      *)
(*                                                                         *)
(* refresh() awaits twice and two calls may overlap: the first start's and *)
(* a return to the foreground's.  Pages of one origin share local storage. *)
(* The widget names no project, so the text is the platform project's,     *)
(* which cannot be deleted (index.tsx, ownProject).  When a manifest has   *)
(* aged is not modelled: a page may ask at any time.                       *)
(***************************************************************************)
EXTENDS Translations

CONSTANTS
    Tabs,         \* pages with the widget, of one origin
    Pulls,        \* slots for calls of refresh()
    DevicePrefs,  \* the languages browsers may name: rank by language, 1 is best
    MaxPulls      \* bound: calls of refresh()

NoLang == ""

ASSUME WidgetAssumption ==
    /\ NoLang \notin Locales /\ MaxPulls \in Nat
    /\ \A prefs \in DevicePrefs : \A l \in DOMAIN prefs : prefs[l] \in Nat

VARIABLES
    tab,       \* by page: its language, whether the host named it, the text and
               \* its version, the manifest it holds
    stored,    \* local storage: text and version by language
    shelf,      \* local storage: the manifest
    pull,      \* calls of refresh()
    pulls,     \* calls so far
    newest,    \* history: the newest version of a manifest the page has taken
    late       \* history: a page took an older manifest after a newer one

widgetVars == <<tab, stored, shelf, pull, pulls, newest, late>>

NoManifest == [version |-> 0, locales |-> {}, fallback |-> NoLang]
NoBundle == [version |-> 0, strings |-> <<>>]
NoTab == [explicit |-> FALSE, locale |-> NoLang, version |-> 0, strings |-> <<>>, held |-> NoManifest]
NoPull(t) == [tab |-> t, pc |-> "idle", manifest |-> NoManifest, locale |-> NoLang, version |-> 0, strings |-> <<>>]

WidgetFirst ==
    /\ tab = [t \in Tabs |-> NoTab] /\ stored = [l \in Locales |-> NoBundle] /\ shelf = NoManifest
    /\ \E t \in Tabs : pull = [r \in Pulls |-> NoPull(t)]
    /\ pulls = 0 /\ newest = [t \in Tabs |-> 0] /\ late = FALSE

WidgetInit == TranslationsInit /\ ~Own /\ WidgetFirst

-----------------------------------------------------------------------------
\* the most preferred language on offer
negotiate(prefs, offered) ==
    LET have == offered \cap DOMAIN prefs IN
    IF have = {} THEN NoLang ELSE CHOOSE l \in have : \A o \in have : prefs[l] <= prefs[o]

\* load: what an earlier page saved, else what ships
load(l) ==
    IF stored[l].version # 0 THEN stored[l]
    ELSE [version |-> 0, strings |-> IF l \in DOMAIN shipped THEN shipped[l] ELSE <<>>]

InLanguage(x, l) == [x EXCEPT !.locale = l, !.version = load(l).version, !.strings = load(l).strings]

\* constructor: the language the host names, or a guess among those that ship; the
\* calls of the page that was there are gone
Open(t) ==
    \E named \in Locales \cup {NoLang}, prefs \in DevicePrefs :
        LET guess == negotiate(prefs, DOMAIN shipped)
            l == IF named # NoLang THEN named ELSE IF guess # NoLang THEN guess ELSE Source IN
        /\ tab' = [tab EXCEPT ![t] =
                     [InLanguage(NoTab, l) EXCEPT !.explicit = named # NoLang, !.held = shelf]]
        /\ pull' = [r \in Pulls |-> IF pull[r].tab = t THEN NoPull(t) ELSE pull[r]]
        /\ newest' = [newest EXCEPT ![t] = 0]
        /\ UNCHANGED <<stored, shelf, pulls, late>>

\* refresh, refreshIfStale: asks with the validator of the manifest it holds
refresh(r, t) ==
    /\ pull[r].pc = "idle" /\ tab[t].locale # NoLang
    /\ pulls < MaxPulls /\ pulls' = pulls + 1
    /\ pull' = [pull EXCEPT ![r] = [NoPull(t) EXCEPT !.pc = "ask", !.manifest = tab[t].held]]
    /\ UNCHANGED <<tab, stored, shelf, newest, late>>

\* translationManifest: the released languages and the fallback, all of which the
\* validator spells out
Manifest ==
    [version |-> Latest(releases), fallback |-> project.fallback,
     locales |-> {l \in Locales : <<l, Latest(releases)>> \in TranslationManifest}]

\* 304 when it is the one the page holds
translationManifest(r) ==
    /\ pull[r].pc = "ask"
    /\ pull' = [pull EXCEPT ![r] = [@ EXCEPT !.pc = "answer",
                  !.manifest = IF Manifest = pull[r].manifest THEN NoManifest ELSE Manifest]]
    /\ UNCHANGED <<tab, stored, shelf, pulls, newest, late>>

\* mutant: a language on offer is negotiated again
AdoptAlways(x, m, prefs) ==
    LET best == negotiate(prefs, m.locales)
        l == IF best # NoLang THEN best ELSE m.fallback IN
    IF x.explicit \/ l \notin m.locales \/ l = x.locale THEN x ELSE InLanguage(x, l)

\* adopt: a guess that is not on offer gives way to a language that is
adopt(x, m, prefs) ==
    LET best == negotiate(prefs, m.locales)
        l == IF best # NoLang THEN best ELSE m.fallback IN
    IF x.explicit \/ x.locale \in m.locales \/ l \notin m.locales THEN x ELSE InLanguage(x, l)

\* local storage may be unavailable
writeSlot(slot, value) == {slot, value}

\* the manifest has come: revalidated takes the one held by now; hold, adopt, and
\* the bundle is fetched unless the page has that version
hold(r) ==
    LET t == pull[r].tab
        m == IF pull[r].manifest = NoManifest THEN tab[t].held ELSE pull[r].manifest IN
    \E prefs \in DevicePrefs :
        LET x == adopt([tab[t] EXCEPT !.held = m], m, prefs) IN
        /\ pull[r].pc = "answer"
        /\ tab' = [tab EXCEPT ![t] = x]
        /\ shelf' \in writeSlot(shelf, m)
        /\ pull' = [pull EXCEPT ![r] =
                      IF x.locale \in m.locales /\ x.version # m.version
                      THEN [NoPull(t) EXCEPT !.pc = "fetch", !.locale = x.locale, !.version = m.version]
                      ELSE NoPull(t)]
        /\ late' = (late \/ m.version < newest[t])
        /\ newest' = [newest EXCEPT ![t] = m.version]
        /\ UNCHANGED <<stored, pulls>>

\* the bundle of that language and version, as the server or the browser's cache has it
translationBundle(r) ==
    /\ pull[r].pc = "fetch" /\ <<pull[r].locale, pull[r].version>> \in DOMAIN bundles
    /\ pull' = [pull EXCEPT ![r] = [@ EXCEPT !.pc = "apply",
                  !.strings = TranslationBundle(pull[r].locale, pull[r].version)]]
    /\ UNCHANGED <<tab, stored, shelf, pulls, newest, late>>

\* apply: the text is the page's, and is saved under the language the page has by now
apply(r) ==
    LET t == pull[r].tab
        b == [version |-> pull[r].version, strings |-> pull[r].strings] IN
    /\ pull[r].pc = "apply"
    /\ tab' = [tab EXCEPT ![t] = [@ EXCEPT !.version = b.version, !.strings = b.strings]]
    /\ stored' \in writeSlot(stored, [stored EXCEPT ![tab[t].locale] = b])
    /\ pull' = [pull EXCEPT ![r] = NoPull(t)]
    /\ UNCHANGED <<shelf, pulls, newest, late>>

\* offline, or refused
giveUp(r) ==
    /\ pull[r].pc # "idle"
    /\ pull' = [pull EXCEPT ![r] = NoPull(@.tab)]
    /\ UNCHANGED <<tab, stored, shelf, pulls, newest, late>>

PageNext ==
    \/ \E t \in Tabs : Open(t) \/ \E r \in Pulls : refresh(r, t)
    \/ \E r \in Pulls : translationManifest(r) \/ hold(r) \/ translationBundle(r) \/ apply(r) \/ giveUp(r)

WidgetNext ==
    \/ PageNext /\ UNCHANGED translationVars
    \/ TranslationsNext /\ UNCHANGED widgetVars

WidgetSpec == WidgetInit /\ [][WidgetNext]_<<widgetVars, translationVars>>

-----------------------------------------------------------------------------
(* A page that has the version of the newest release, and so fetches       *)
(* nothing more until the next, shows that release in the language it has  *)
(* settled on, and so does what local storage holds of it for pages to     *)
(* come: whatever calls overlap while languages are added, dropped and     *)
(* released.  Left out: a manifest that comes after a newer one, which may *)
(* take the page to a language whose bundle is then overwritten by the     *)
(* other's, and two releases that share a version.                         *)
ShowsTheRelease ==
    LET v == Latest(releases)
        Released(l, b) == b.version = v /\ v # 0 => <<l, v>> \in DOMAIN bundles /\ b.strings = bundles[<<l, v>>] IN
    ~late /\ ~torn =>
        /\ \A t \in Tabs : Released(tab[t].locale, tab[t])
        /\ \A l \in Locales : Released(l, stored[l])
=============================================================================
