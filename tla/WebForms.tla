------------------------------ MODULE WebForms ------------------------------
(***************************************************************************)
(* The pages of the dashboard that send what the user entered:             *)
(*   "feeds"     GuildFeedsPage: useFeedForm, FeedCreateCard, preview      *)
(*   "settings"  GuildSettingsPage: useGuildSettingsForm                   *)
(*   "console"   DeveloperPage: the admin secret, what it opens, and the   *)
(*               forced synchronisation, a request of its own ("sync")     *)
(* Each handler captures what is on the screen, awaits the server and goes *)
(* on in the page that called it, which may show another guild by then or  *)
(* be gone.  One page is open at a time; a visit is one mount of it.       *)
(***************************************************************************)
EXTENDS Naturals, FiniteSets

CONSTANTS
  FormGuilds,     \* guilds of the dashboard
  Texts,          \* what a field can hold; "" and " " are blank
  Accepted,       \* admin secrets the server accepts
  DefaultText,    \* DEFAULT_GUILD_SETTINGS
  MaxMounts,      \* bound: visits
  MaxSends        \* bound: requests

\* An empty field, and no secret; what a trimmed field is empty of.
Empty == ""
Blank == {Empty, " "}

ASSUME FormAssumption ==
  /\ {Empty, DefaultText} \subseteq Texts /\ Accepted \subseteq Texts \ Blank
  /\ MaxMounts \in Nat /\ MaxSends \in Nat

VARIABLES
  form,      \* the open page: route, visit, guild, text, preview, and its flags
             \* busy (isLoading, isSaving, isVerifying), syncing, unlocked
  sent,      \* requests under way
  sends,     \* their number so far
  records,   \* what the server holds: created feeds, settings of each guild
  secret,    \* AuthProvider.adminSecret
  said       \* history: what was submitted, and what the toasts said of it

formVars == <<form, sent, sends, records, secret, said>>

Routes == {"feeds", "settings", "console"}
Underway(routes) == {r \in sent : r.visit = form.visit /\ r.route \in routes}

FormInit ==
  /\ form = [route |-> "elsewhere", visit |-> 0, guild |-> "none", text |-> Empty,
             preview |-> Empty, busy |-> FALSE, syncing |-> FALSE, unlocked |-> FALSE]
  /\ sent = {} /\ sends = 0
  /\ records = [feeds |-> {}, settings |-> [g \in FormGuilds |-> "unset"]]
  /\ secret = Empty
  /\ said = [submitted |-> {}, saved |-> {}]

\* A page mounts with its defaults: the settings page does not ask for the
\* guild's settings, the console (of no guild) is unlocked if a secret is kept.
Enter(route, g) ==
  /\ form.visit < MaxMounts /\ form.route = "elsewhere"
  /\ (route = "console") <=> (g = "none")
  /\ form' = [route |-> route, visit |-> form.visit + 1, guild |-> g,
              text |-> IF route = "settings" THEN DefaultText ELSE Empty,
              preview |-> Empty, busy |-> FALSE, syncing |-> FALSE,
              unlocked |-> route = "console" /\ secret # Empty]
  /\ UNCHANGED <<sent, sends, records, secret, said>>

\* Another route: the page unmounts, its requests go on.
Exit ==
  /\ form.route # "elsewhere"
  /\ form' = [form EXCEPT !.route = "elsewhere", !.busy = FALSE, !.syncing = FALSE,
                          !.unlocked = FALSE]
  /\ UNCHANGED <<sent, sends, records, secret, said>>

\* The browser's history leads from a guild's page to the same page of
\* another guild: the component stays mounted with its fields.
JumpTo(g) ==
  /\ form.route \in {"feeds", "settings"} /\ g # form.guild
  /\ form' = [form EXCEPT !.guild = g]
  /\ UNCHANGED <<sent, sends, records, secret, said>>

Edit(text) ==
  /\ form.route # "elsewhere" /\ ~form.unlocked /\ text # form.text
  /\ form' = [form EXCEPT !.text = text]
  /\ UNCHANGED <<sent, sends, records, secret, said>>

\* resetForm of useFeedForm, after a confirmation (WebOverlays).  The
\* preview follows with the same delay as a keystroke.
resetForm ==
  /\ form.route = "feeds" /\ form.text # Empty
  /\ form' = [form EXCEPT !.text = Empty]
  /\ UNCHANGED <<sent, sends, records, secret, said>>

\* Mutant: an emptied field is not previewed.
DebouncedText ==
  /\ form.route = "feeds" /\ form.preview # form.text /\ form.text # Empty
  /\ form' = [form EXCEPT !.preview = form.text]
  /\ UNCHANGED <<sent, sends, records, secret, said>>

\* The timer of the last keystroke (each clears the one before).
Debounced ==
  /\ form.route = "feeds" /\ form.preview # form.text
  /\ form' = [form EXCEPT !.preview = form.text]
  /\ UNCHANGED <<sent, sends, records, secret, said>>

\* What the server is asked: a login joins the GET of an earlier one that is
\* still under way, whose secret may be another (ApiClient.JoinInFlight).
Asked ==
  LET logins == {r \in sent : r.route = "console"}
  IN IF form.route = "console" /\ logins # {}
     THEN (CHOOSE r \in logins : TRUE).asks ELSE form.text

\* The submit handlers up to their await.  The feed's target and the secret
\* must not be blank; the secret is trimmed, the target is sent as it is.
\* The button is disabled while the page is busy.
handleSubmit ==
  /\ form.route # "elsewhere" /\ ~form.busy /\ ~form.unlocked
  /\ form.route \in {"feeds", "console"} => form.text \notin Blank
  /\ sends < MaxSends /\ sends' = sends + 1
  /\ sent' = sent \cup {[id |-> sends + 1, route |-> form.route, visit |-> form.visit,
                         guild |-> form.guild, text |-> form.text,
                         asks |-> Asked, applied |-> FALSE]}
  /\ said' = [said EXCEPT !.submitted = @ \cup {<<form.route, form.guild, form.text>>}]
  /\ form' = [form EXCEPT !.busy = TRUE]
  /\ UNCHANGED <<records, secret>>

\* The button of SystemControlsCard, up to the await: the secret of this render
\* goes with the request.
handleForceSync ==
  /\ form.unlocked /\ ~form.syncing
  /\ sends < MaxSends /\ sends' = sends + 1
  /\ sent' = sent \cup {[id |-> sends + 1, route |-> "sync", visit |-> form.visit,
                         guild |-> form.guild, text |-> secret,
                         asks |-> secret, applied |-> FALSE]}
  /\ form' = [form EXCEPT !.syncing = TRUE]
  /\ UNCHANGED <<records, secret, said>>

\* Mutant: the guild is read when the request is made ready.
ApplyToShown(r) ==
  /\ ~r.applied /\ (r.route \in {"console", "sync"} => r.asks \in Accepted)
  /\ sent' = (sent \ {r}) \cup {[r EXCEPT !.applied = TRUE]}
  /\ records' = IF r.route \in {"console", "sync"} THEN records
                ELSE [records EXCEPT !.feeds = @ \cup {<<form.guild, r.text>>}]
  /\ UNCHANGED <<form, sends, secret, said>>

\* The server executes a request; it may be the last anyone hears of it.
Apply(r) ==
  /\ ~r.applied /\ (r.route \in {"console", "sync"} => r.asks \in Accepted)
  /\ sent' = (sent \ {r}) \cup {[r EXCEPT !.applied = TRUE]}
  /\ records' = CASE r.route = "feeds" ->
                      [records EXCEPT !.feeds = @ \cup {<<r.guild, r.text>>}]
                 [] r.route = "settings" ->
                      [records EXCEPT !.settings[r.guild] = r.text]
                 [] OTHER -> records
  /\ UNCHANGED <<form, sends, secret, said>>

\* Mutant: the answer frees whatever page is open.
FreedAny(r) == [form EXCEPT !.busy = FALSE]

\* The finally of the handler: its own page, if still mounted, is idle again.
StillOpen(r) == form.visit = r.visit /\ form.route # "elsewhere"
Freed(r) ==
  CASE ~StillOpen(r) -> form
    [] StillOpen(r) /\ r.route = "sync" -> [form EXCEPT !.syncing = FALSE]
    [] OTHER -> [form EXCEPT !.busy = FALSE]

\* Mutant: the toast reads the field again.
ToastOfScreen(r) == <<r.route, form.text>>

ToastOf(r) == <<r.route, r.text>>

setAdminSecretKey(text) == secret' = text
clearAdminSecretKey == secret' = Empty

\* The answer: a toast names what was sent.
Succeeded(r) ==
  /\ r.applied /\ r.route # "console" /\ sent' = sent \ {r}
  /\ said' = [said EXCEPT !.saved = @ \cup {ToastOf(r)}]
  /\ form' = Freed(r)
  /\ UNCHANGED <<sends, records, secret>>

\* The answer to an admin login: its secret is kept wherever the user is by now,
\* and the page that asked is opened.
AdminLoginGranted(r) ==
  /\ r.applied /\ r.route = "console" /\ sent' = sent \ {r}
  /\ said' = [said EXCEPT !.saved = @ \cup {ToastOf(r)}]
  /\ setAdminSecretKey(r.text)
  /\ form' = [Freed(r) EXCEPT !.unlocked = @ \/ StillOpen(r)]
  /\ UNCHANGED <<sends, records>>

\* Mutant: only a success reaches the line that frees the button.
FailedWithoutFinally(r) ==
  sent' = sent \ {r} /\ UNCHANGED <<form, sends, records, secret, said>>

\* A refusal, or an answer that never comes (the request times out).
FailedToSend(r) ==
  /\ sent' = sent \ {r} /\ form' = Freed(r)
  /\ UNCHANGED <<sends, records, secret, said>>

\* Mutant: the page keeps its own flag.
LogoutOfProvider ==
  form.unlocked /\ clearAdminSecretKey /\ UNCHANGED <<form, sent, sends, records, said>>

\* handleLogout of the console, which shows an empty gateway again.
handleLogout ==
  /\ form.unlocked /\ clearAdminSecretKey
  /\ form' = [form EXCEPT !.unlocked = FALSE, !.text = Empty]
  /\ UNCHANGED <<sent, sends, records, said>>

FormNext ==
  \/ \E route \in Routes, g \in FormGuilds \cup {"none"} : Enter(route, g)
  \/ Exit \/ (\E g \in FormGuilds : JumpTo(g))
  \/ (\E text \in Texts : Edit(text)) \/ resetForm \/ Debounced
  \/ handleSubmit \/ handleForceSync
  \/ (\E r \in sent :
        Apply(r) \/ Succeeded(r) \/ AdminLoginGranted(r) \/ FailedToSend(r))
  \/ handleLogout

\* A timer goes off; a request is answered or times out (ApiClient.Settles).
FormFairness ==
  /\ WF_formVars(Debounced)
  /\ WF_formVars(\E r \in sent :
       Succeeded(r) \/ AdminLoginGranted(r) \/ FailedToSend(r))

FormSpec == FormInit /\ [][FormNext]_formVars /\ FormFairness

-----------------------------------------------------------------------------
(* Properties                                                              *)

FormTypeOK ==
  /\ form \in [route : Routes \cup {"elsewhere"}, visit : 0..MaxMounts,
               guild : FormGuilds \cup {"none"}, text : Texts, preview : Texts,
               busy : BOOLEAN, syncing : BOOLEAN, unlocked : BOOLEAN]
  /\ sent \subseteq [id : 1..MaxSends, route : Routes \cup {"sync"}, visit : 1..MaxMounts,
                     guild : FormGuilds \cup {"none"}, text : Texts, asks : Texts,
                     applied : BOOLEAN]
  /\ sends \in 0..MaxSends /\ secret \in Texts
  /\ records.feeds \subseteq FormGuilds \X Texts
  /\ records.settings \in [FormGuilds -> Texts \cup {"unset"}]

\* What the server holds of a guild was submitted from a screen that showed
\* this guild and this text, wherever the user went before the request
\* arrived; no blank target gets there (useFeedForm.validate, the closures
\* of handleSubmit and handleSave).
SavedAsSubmitted ==
  /\ \A f \in records.feeds :
       <<"feeds", f[1], f[2]>> \in said.submitted /\ f[2] \notin Blank
  /\ \A g \in FormGuilds : records.settings[g] # "unset" =>
       <<"settings", g, records.settings[g]>> \in said.submitted

\* The button of a page is disabled exactly while a request of this visit
\* is under way: the answer to an earlier visit's request does not free it,
\* and no failure leaves it disabled (isSaving, isVerifying, isLoading; the
\* console's second button has isSyncing).
BusyWhileUnderway ==
  form.route # "elsewhere" =>
    /\ form.busy <=> Underway(Routes) # {}
    /\ form.syncing <=> Underway({"sync"}) # {}

\* A toast that says a feed was saved names one the server created, even if
\* the fields have changed since (FeedCreateCard.handleSubmit).
ToastNamesSavedFeed ==
  \A s \in said.saved : s[1] = "feeds" =>
    \E g \in FormGuilds : <<g, s[2]>> \in records.feeds

\* The console is open only while a secret is kept, although the page has a
\* flag of its own for it (DeveloperPage.isAdminAuthenticated), and logins of
\* earlier visits are answered late.
OpenConsoleHasSecret == form.unlocked => secret # Empty

\* A form means what it shows, whatever answers come late: what it saves, when it is
\* busy, what its toast names and whether the console is open.
FormsTruthful ==
  SavedAsSubmitted /\ BusyWhileUnderway /\ ToastNamesSavedFeed /\ OpenConsoleHasSecret

\* The preview shows what was typed once the typing stops
\* (useFeedForm.debouncedTargetId).
PreviewCatchesUp ==
  []<>(form.route = "feeds" => form.preview = form.text)

\* Every button is enabled again: each request has an end.
ButtonFreed == []<>~form.busy
=============================================================================
