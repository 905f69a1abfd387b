------------------------------ MODULE WebLocale ------------------------------
(***************************************************************************)
(* The languages of the console: i18n/I18nProvider.tsx, its loader         *)
(* (loader.ts), the fallback chains (context.ts) and the lookup of a text. *)
(*                                                                         *)
(* A dictionary is named by its locale, and its content abstracted to the  *)
(* forms it has of one key.  An effect loads the dictionaries of a locale  *)
(* one after the other; a change of the locale starts another effect while *)
(* the first still awaits its imports.  setLocale is the context's; the    *)
(* router of today never calls it (module WebSite has why), the provider's *)
(* tests do.                                                               *)
(***************************************************************************)
EXTENDS Naturals, Sequences, FiniteSets, SequencesExt

CONSTANTS
  Locales,           \* SUPPORTED_LOCALES, "en" among them
  Shipped,           \* the locales a build has dictionaries of, "en" among them
  LOCALE_FALLBACK_CHAINS, \* [Locales -> Seq(Locales)], without "en"
  FormsOf,           \* [Shipped -> set of forms]: the dictionary's entries for the key
  PluralCategory,    \* [Locales -> [Counts -> form]]: Intl.PluralRules
  Counts,            \* the counts a text is asked for
  MaxSwitches        \* bound: effects of one page load

ASSUME LocaleAssumption ==
  /\ "en" \in Shipped /\ Shipped \subseteq Locales
  /\ LOCALE_FALLBACK_CHAINS \in [Locales -> Seq(Locales)]
  /\ "base" \in FormsOf["en"] /\ "raw" \notin Shipped /\ MaxSwitches \in Nat \ {0}

VARIABLES
  i18n,              \* [locale, active, fallbacks, isLoadingLocale], React state
  effects,           \* the runs of loadLocale: [locale, toLoad, got, isMounted]
  loadedLocales,     \* loadedLocalesCache: [some locales -> Shipped]
  savedLocale        \* what localStorage holds under nova_locale

localeVars == <<i18n, effects, loadedLocales, savedLocale>>

Runs == 1 .. MaxSwitches

LocaleTypeOK ==
  /\ i18n.locale \in Locales /\ i18n.active \in Shipped
  /\ i18n.fallbacks \in Seq(Shipped) /\ i18n.isLoadingLocale \in BOOLEAN
  /\ Len(effects) <= MaxSwitches
  /\ \A e \in DOMAIN effects :
       effects[e].locale \in Locales /\ effects[e].toLoad \in Seq(Locales)
  /\ DOMAIN loadedLocales \subseteq Locales
  /\ savedLocale \in Locales \cup {"none"}

\* The dictionaries loadLocale awaits: the primary one, then the chain's.
Wanted(l) == <<l>> \o LOCALE_FALLBACK_CHAINS[l]

\* Mutant: the effect before has no cleanup.
RunEffectWithoutCleanup(l, state, before) ==
  IF l = "en"
  THEN /\ i18n' = [state EXCEPT !.locale = l, !.active = "en", !.fallbacks = <<>>]
       /\ effects' = before
  ELSE /\ i18n' = [state EXCEPT !.locale = l, !.isLoadingLocale = TRUE]
       /\ effects' = Append(before,
            [locale |-> l, toLoad |-> Wanted(l), got |-> <<>>, isMounted |-> TRUE])

\* The effect of a change to l, after the cleanup of the ones before: English is
\* set at once, and leaves isLoadingLocale as it is.
RunEffect(l, state, before) ==
  LET unmounted == [e \in DOMAIN before |-> [before[e] EXCEPT !.isMounted = FALSE]]
  IN IF l = "en"
     THEN /\ i18n' = [state EXCEPT !.locale = l, !.active = "en", !.fallbacks = <<>>]
          /\ effects' = unmounted
     ELSE /\ i18n' = [state EXCEPT !.locale = l, !.isLoadingLocale = TRUE]
          /\ effects' = Append(unmounted,
               [locale |-> l, toLoad |-> Wanted(l), got |-> <<>>, isMounted |-> TRUE])

\* detectInitialLocale: the address first, then what was saved.
detectInitialLocale(path, saved) ==
  IF path \in Locales THEN path ELSE IF saved \in Locales THEN saved ELSE "en"

Fresh(l) == [locale |-> l, active |-> "en", fallbacks |-> <<>>, isLoadingLocale |-> FALSE]

LocaleInit ==
  /\ savedLocale = "none" /\ effects = <<>>
  /\ loadedLocales = [l \in {"en"} |-> "en"]
  /\ i18n = Fresh("en")

\* A page load, with or without a locale at the head of its path: module state and
\* React state start over.  Nothing of a load under way outlives it, so it is
\* looked at between loads.
LoadAt(path) ==
  /\ \A e \in DOMAIN effects : ~effects[e].isMounted
  /\ RunEffect(detectInitialLocale(path, savedLocale),
               Fresh(detectInitialLocale(path, savedLocale)), <<>>)
  /\ loadedLocales' = [l \in {"en"} |-> "en"]
  /\ UNCHANGED savedLocale

setLocale(l) ==
  /\ savedLocale' = l
  /\ IF l = i18n.locale THEN UNCHANGED <<i18n, effects>>
     ELSE Len(effects) < MaxSwitches /\ RunEffect(l, i18n, effects)
  /\ UNCHANGED loadedLocales

\* Mutant: an import that fails ends its run.
loadWithoutCatch(e) ==
  /\ effects[e].toLoad # <<>>
  /\ \/ effects' = [effects EXCEPT ![e].toLoad = Tail(@), ![e].got = Append(@, Head(effects[e].toLoad))]
     \/ effects' = [effects EXCEPT ![e].toLoad = <<>>, ![e].got = <<>>]
  /\ UNCHANGED <<i18n, loadedLocales, savedLocale>>

\* loadLocaleDictionary for the next dictionary of run e: from the cache, or by
\* an import, whose failure of any kind caches English for that locale.
loadLocaleDictionary(e) ==
  LET l == Head(effects[e].toLoad)
      next(d) == [effects EXCEPT ![e].toLoad = Tail(@), ![e].got = Append(@, d)]
  IN /\ effects[e].toLoad # <<>>
     /\ IF l \in DOMAIN loadedLocales
        THEN effects' = next(loadedLocales[l]) /\ UNCHANGED loadedLocales
        ELSE \E d \in (Shipped \cap {l}) \cup {"en"} :
               /\ effects' = next(d)
               /\ loadedLocales' = [k \in DOMAIN loadedLocales \cup {l} |->
                                      IF k = l THEN d ELSE loadedLocales[k]]
     /\ UNCHANGED <<i18n, savedLocale>>

\* Mutant: any run that ends is the end of the loading.
SetDictionariesOfAny(e) ==
  /\ effects[e].toLoad = <<>> /\ effects[e].got # <<>>
  /\ i18n' = IF effects[e].isMounted
             THEN [i18n EXCEPT !.active = Head(effects[e].got),
                               !.fallbacks = Tail(effects[e].got), !.isLoadingLocale = FALSE]
             ELSE [i18n EXCEPT !.isLoadingLocale = FALSE]
  /\ effects' = [effects EXCEPT ![e].got = <<>>, ![e].isMounted = FALSE]
  /\ UNCHANGED <<loadedLocales, savedLocale>>

\* Mutant: a locale without a chain leaves the fallbacks alone.
SetPrimaryOnly(e) ==
  /\ effects[e].toLoad = <<>> /\ effects[e].got # <<>>
  /\ i18n' = IF ~effects[e].isMounted THEN i18n
             ELSE [i18n EXCEPT !.active = Head(effects[e].got), !.isLoadingLocale = FALSE,
                    !.fallbacks = IF Len(effects[e].got) = 1 THEN @ ELSE Tail(effects[e].got)]
  /\ effects' = [effects EXCEPT ![e].got = <<>>, ![e].isMounted = FALSE]
  /\ UNCHANGED <<loadedLocales, savedLocale>>

\* The end of loadLocale: only the run of the current locale sets the state.
SetDictionaries(e) ==
  /\ effects[e].toLoad = <<>> /\ effects[e].got # <<>>
  /\ i18n' = IF effects[e].isMounted
             THEN [i18n EXCEPT !.active = Head(effects[e].got),
                               !.fallbacks = Tail(effects[e].got), !.isLoadingLocale = FALSE]
             ELSE i18n
  /\ effects' = [effects EXCEPT ![e].got = <<>>, ![e].isMounted = FALSE]
  /\ UNCHANGED <<loadedLocales, savedLocale>>

LocaleNext ==
  \/ \E l \in Locales \cup {"none"} : LoadAt(l)
  \/ \E l \in Locales : setLocale(l)
  \/ \E e \in DOMAIN effects : loadLocaleDictionary(e) \/ SetDictionaries(e)

\* Fairness: an import is settled, and what awaits it goes on.
LocaleFairness ==
  \A e \in Runs :
    WF_localeVars(e \in DOMAIN effects /\ (loadLocaleDictionary(e) \/ SetDictionaries(e)))

LocaleSpec == LocaleInit /\ [][LocaleNext]_localeVars /\ LocaleFairness

-----------------------------------------------------------------------------
(* t: which form of the key is taken, and from which dictionary.            *)

Dictionaries == <<i18n.active>> \o i18n.fallbacks \o <<"en">>
Has(form) == \E i \in DOMAIN Dictionaries : form \in FormsOf[Dictionaries[i]]

\* The plural forms tried for a count, in their order.
candidateKeys(count) ==
  <<PluralCategory[i18n.locale][count]>>
  \o (IF count = 0 THEN <<"zero">> ELSE <<>>) \o (IF count = 1 THEN <<"one">> ELSE <<>>)
  \o (IF count > 1 THEN <<"other">> ELSE <<>>) \o (IF count # 1 THEN <<"plural">> ELSE <<>>)

\* Mutant: the first candidate is taken unseen.
resolvedUnseen(count) == Head(candidateKeys(count))

resolvedKey(count) ==
  LET first == SelectInSeq(candidateKeys(count), Has)
  IN IF first = 0 THEN "base" ELSE candidateKeys(count)[first]

\* The dictionary the text comes from, or "raw" when the key itself is shown.
SourceOf(form) ==
  LET first == SelectInSeq(Dictionaries, LAMBDA d : form \in FormsOf[d])
  IN IF first = 0 THEN "raw" ELSE Dictionaries[first]

-----------------------------------------------------------------------------
(* Properties.                                                              *)

\* Whatever loads were overtaken, the texts are those of the current locale and
\* of its chain, or English, as soon as the load of the current locale is over;
\* the load of a locale that was left never shows.
LatestLocaleWins ==
  (\A e \in DOMAIN effects : ~effects[e].isMounted) =>
    /\ i18n.active \in {i18n.locale, "en"}
    /\ Len(i18n.fallbacks) <= Len(LOCALE_FALLBACK_CHAINS[i18n.locale])
    /\ \A i \in DOMAIN i18n.fallbacks :
         i18n.fallbacks[i] \in {LOCALE_FALLBACK_CHAINS[i18n.locale][i], "en"}

\* While the load of the current locale is under way the provider says so.
LoadingShown ==
  \A e \in DOMAIN effects : effects[e].isMounted => i18n.isLoadingLocale

\* Texts are never mixed from two chains: the dictionaries in use were loaded by
\* one effect for one locale.
OneChainAtATime ==
  \E l \in Locales :
    /\ i18n.active \in {l, "en"}
    /\ \A i \in DOMAIN i18n.fallbacks :
         i \in DOMAIN LOCALE_FALLBACK_CHAINS[l] /\ i18n.fallbacks[i] \in {LOCALE_FALLBACK_CHAINS[l][i], "en"}

\* A key that English has is never shown raw, for any count and in any state of
\* the dictionaries: a plural form is chosen only if some dictionary in use has it.
NeverRaw == \A count \in Counts : SourceOf(resolvedKey(count)) # "raw" /\ SourceOf("base") # "raw"

\* The texts follow the chosen language through loads that overtake each other: the
\* latest choice wins, its load shows, chains do not mix and no key is shown raw.
TextsFollowChoice == LatestLocaleWins /\ LoadingShown /\ OneChainAtATime /\ NeverRaw

\* The load of a locale ends, or the locale is left before.
LocaleLoadEnds ==
  []<>(\A e \in DOMAIN effects : ~effects[e].isMounted)
=============================================================================
