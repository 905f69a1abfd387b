---------------------------- MODULE WebOverlays ----------------------------
(***************************************************************************)
(* What the dashboard puts on top of the page: toasts, the confirmation    *)
(* dialog with its promise, and the two modal surfaces (ui/Drawer and      *)
(* ui/Modal) that each lock the page's scrolling, listen for Escape and    *)
(* hold the keyboard focus on their own, knowing nothing of each other.    *)
(*                                                                         *)
(* A step is one commit of React: the clean-ups of every effect that must  *)
(* rerun come first, then the effects, both in tree order.  The drawer is  *)
(* below ConfirmProvider's children, the dialog is its last child.         *)
(***************************************************************************)
EXTENDS Naturals, Sequences, SequencesExt

CONSTANTS
  KeptOnShow,     \* toasts that stay when one more is shown (4 in the code)
  MaxToasts,      \* bound: toasts shown
  MaxQuestions,   \* bound: confirmations asked
  MaxVisits       \* bound: times the feeds page is mounted

ASSUME OverlayAssumption ==
  {KeptOnShow, MaxToasts, MaxQuestions} \subseteq Nat /\ MaxVisits \in Nat \ {0}

VARIABLES
  dom,       \* the document: open surfaces, scroll lock, keyboard focus
  question,  \* ConfirmProvider's promises and the one it shows
  toasts,    \* ToastProvider.toasts, oldest first
  shown,     \* history: number of toasts shown so far
  removed,   \* history: toasts dismissed or timed out
  feeds      \* GuildFeedsPage: its mounts

overlayVars == <<dom, question, toasts, shown, removed, feeds>>

Surfaces == {"drawer", "dialog"}
Questions == 1..MaxQuestions

\* Of the document: `open` in the order of opening, `overflow` the inline
\* style of the body, `before` and `returnTo` what each surface's effects
\* noted for their clean-up.  History: `orderly` while no surface was closed
\* below another one and no two were rerun together, `kept` while the focus has not left
\* the surfaces by the edge of a trap.
OverlayInit ==
  /\ dom = [open |-> <<>>, overflow |-> "unset", focus |-> "page",
            before |-> [s \in Surfaces |-> "unset"],
            returnTo |-> [s \in Surfaces |-> "page"],
            orderly |-> TRUE, kept |-> TRUE]
  /\ question = [asked |-> 0, current |-> 0,
                 answer |-> [q \in Questions |-> "unasked"]]
  /\ toasts = <<>> /\ shown = 0 /\ removed = {}
  /\ feeds = [visit |-> 1, mounted |-> TRUE]

IsOpen(s) == \E i \in DOMAIN dom.open : dom.open[i] = s

(***************************** Drawer and Modal ****************************)

\* The effects of a surface that opens: note the focus and the overflow,
\* take the focus, lock the page.
Opening(d, s) ==
  [d EXCEPT !.open = Append(@, s),
            !.returnTo[s] = d.focus, !.focus = s,
            !.before[s] = d.overflow, !.overflow = "hidden"]

\* Mutant: the page is unlocked, not given back what it had.
ClosingUnlocks(d, s) ==
  LET left == RemoveFirst(d.open, s)
  IN [d EXCEPT !.open = left, !.overflow = "unset",
               !.focus = IF d.returnTo[s] \in Range(left) THEN d.returnTo[s] ELSE "page",
               !.orderly = @ /\ Last(d.open) = s,
               !.kept = left = <<>> \/ @]

\* Mutant: the focus is not given back.
ClosingKeepsFocus(d, s) ==
  LET left == RemoveFirst(d.open, s)
  IN [d EXCEPT !.open = left, !.overflow = d.before[s],
               !.orderly = @ /\ Last(d.open) = s,
               !.kept = left = <<>> \/ @]

\* The clean-ups of a surface that closes.  The focus goes back to the
\* element noted, unless that was inside a surface closed since.
Closing(d, s) ==
  LET left == RemoveFirst(d.open, s)
      target == d.returnTo[s]
      there == target = "page" \/ target \in Range(left)
  IN [d EXCEPT !.open = left,
               !.overflow = d.before[s],
               !.focus = IF there THEN target
                         ELSE IF @ = s THEN "page" ELSE @,
               !.orderly = @ /\ Last(d.open) = s,
               !.kept = left = <<>> \/ @]

\* A commit in which the open surfaces of `which` get a new onClose: their
\* overflow effects are cleaned up and run again (the focus trap's are not), the
\* drawer's first.
Rerunning(d, which) ==
  LET first == IF "drawer" \in which THEN "drawer" ELSE "dialog"
      last == IF "dialog" \in which THEN "dialog" ELSE "drawer"
  IN [d EXCEPT !.before = [s \in Surfaces |->
                 IF s \notin which THEN d.before[s]
                 ELSE IF s = first THEN d.before[last] ELSE "hidden"],
               !.overflow = "hidden",
               !.orderly = @ /\ first = last]

\* Something of the page can be used: by mouse when nothing covers it, by
\* keyboard when the focus is there.
PageUsable == dom.open = <<>> \/ dom.focus = "page"

\* The hamburger of DashboardHeader (or of the navbar).
OpenDrawer ==
  /\ PageUsable /\ ~IsOpen("drawer")
  /\ dom' = Opening(dom, "drawer")
  /\ UNCHANGED <<question, toasts, shown, removed, feeds>>

\* The drawer's close button, its backdrop or one of its links.
CloseDrawer ==
  /\ IsOpen("drawer")
  /\ dom' = Closing(dom, "drawer")
  /\ UNCHANGED <<question, toasts, shown, removed, feeds>>

\* After a click on a surface's text, Tab does not start from the first or
\* the last control and leaves the trap.
LeaveTrap ==
  /\ dom.open # <<>> /\ dom.focus # "page"
  /\ dom' = [dom EXCEPT !.focus = "page", !.kept = FALSE]
  /\ UNCHANGED <<question, toasts, shown, removed, feeds>>

\* The layout renders again (a new locale, a guild loaded): its drawer's
\* onClose is a new function.
RenderLayout ==
  /\ IsOpen("drawer")
  /\ dom' = Rerunning(dom, {"drawer"})
  /\ UNCHANGED <<question, toasts, shown, removed, feeds>>

\* App renders again (the answer of /health): every onClose is new.
RenderApp ==
  /\ dom.open # <<>>
  /\ dom' = Rerunning(dom, Range(dom.open))
  /\ UNCHANGED <<question, toasts, shown, removed, feeds>>

(********************************** Toasts *********************************)

\* Mutant: no toast makes room.
showAll(before) == Append(before, shown + 1)

\* Mutant: the oldest stay.
showOldest(before) ==
  Append(SubSeq(before, 1, IF Len(before) < KeptOnShow THEN Len(before) ELSE KeptOnShow),
         shown + 1)

\* show: the newest goes last, at most KeptOnShow of the earlier ones stay.
\* The identifier is a new one, here the count.
show(before) ==
  LET kept == IF Len(before) <= KeptOnShow THEN before
              ELSE SubSeq(before, Len(before) - KeptOnShow + 1, Len(before))
  IN Append(kept, shown + 1)

Notify ==
  /\ shown < MaxToasts
  /\ toasts' = show(toasts)
  /\ shown' = shown + 1
  /\ UNCHANGED removed

\* handleTestFeed of GuildFeedsPage.
RunTest ==
  /\ feeds.mounted /\ PageUsable
  /\ Notify
  /\ UNCHANGED <<dom, question, feeds>>

\* Mutant: one timer serves all toasts.
DismissNewest(id) ==
  /\ id = shown /\ \E i \in DOMAIN toasts : toasts[i] = id
  /\ toasts' = RemoveFirst(toasts, id)
  /\ removed' = removed \cup {id}
  /\ UNCHANGED <<dom, question, shown, feeds>>

\* dismiss: the toast's close button, or the timer of its ToastItem.
Dismiss(id) ==
  /\ \E i \in DOMAIN toasts : toasts[i] = id
  /\ toasts' = RemoveFirst(toasts, id)
  /\ removed' = removed \cup {id}
  /\ UNCHANGED <<dom, question, shown, feeds>>

(****************************** Confirmations ******************************)

\* handleClear up to its await: confirm() replaces whatever is shown; the
\* dialog opens, or the one that is open gets other handlers.
AskToClear ==
  /\ feeds.mounted /\ PageUsable
  /\ question.asked < MaxQuestions
  /\ LET q == question.asked + 1 IN
       question' = [question EXCEPT !.asked = q, !.current = q,
                                    !.answer[q] = "waiting"]
  /\ dom' = IF IsOpen("dialog") THEN Rerunning(dom, {"dialog"})
                                ELSE Opening(dom, "dialog")
  /\ UNCHANGED <<toasts, shown, removed, feeds>>

\* Mutant: the dialog is put away before its promise is answered.
CloseUnanswered(value) ==
  question.current # 0 /\ question' = [question EXCEPT !.current = 0]

\* handleConfirmResolve: answer the promise that is shown, and show none.
handleConfirmResolve(value) ==
  /\ question.current # 0
  /\ question' = [question EXCEPT !.answer[question.current] = value,
                                  !.current = 0]

\* "Confirm": handleClear goes on, clears its form if that is still mounted
\* (WebForms.resetForm), and shows a toast in any case.
Confirm ==
  /\ handleConfirmResolve("yes")
  /\ dom' = Closing(dom, "dialog")
  /\ Notify
  /\ UNCHANGED feeds

\* "Cancel", the overlay or the close button.
Cancel ==
  /\ handleConfirmResolve("no")
  /\ dom' = Closing(dom, "dialog")
  /\ UNCHANGED <<toasts, shown, removed, feeds>>

\* Escape reaches both listeners, the document's before the window's: the
\* dialog goes first, then the drawer, whichever was opened last.
Escape ==
  /\ dom.open # <<>>
  /\ IF IsOpen("dialog") THEN handleConfirmResolve("no") ELSE UNCHANGED question
  /\ LET upper == IF IsOpen("dialog") THEN Closing(dom, "dialog") ELSE dom
     IN dom' = IF IsOpen("drawer") THEN Closing(upper, "drawer") ELSE upper
  /\ UNCHANGED <<toasts, shown, removed, feeds>>

(****************************** The feeds page *****************************)

\* The browser's Back works with anything open.  It unmounts the page, and
\* when it leaves the dashboard the layout with its drawer; the dialog is
\* the provider's and stays.
GoBack(leavesDashboard) ==
  /\ feeds.mounted
  /\ feeds' = [feeds EXCEPT !.mounted = FALSE]
  /\ dom' = IF leavesDashboard /\ IsOpen("drawer") THEN Closing(dom, "drawer")
                                                   ELSE dom
  /\ UNCHANGED <<question, toasts, shown, removed>>

Return ==
  /\ ~feeds.mounted /\ feeds.visit < MaxVisits
  /\ feeds' = [feeds EXCEPT !.mounted = TRUE, !.visit = @ + 1]
  /\ UNCHANGED <<dom, question, toasts, shown, removed>>

OverlayNext ==
  \/ OpenDrawer \/ CloseDrawer \/ LeaveTrap \/ RenderLayout \/ RenderApp
  \/ RunTest \/ (\E id \in 1..MaxToasts : Dismiss(id))
  \/ AskToClear \/ Confirm \/ Cancel \/ Escape
  \/ (\E leaves \in BOOLEAN : GoBack(leaves)) \/ Return

\* Every toast of the application keeps the default duration, and its timer
\* is cleared only when it leaves: it goes off.
OverlayFairness == \A id \in 1..MaxToasts : WF_overlayVars(Dismiss(id))

OverlaySpec == OverlayInit /\ [][OverlayNext]_overlayVars /\ OverlayFairness

-----------------------------------------------------------------------------
(* Properties                                                              *)

Places == Surfaces \cup {"page"}

OverlayTypeOK ==
  /\ dom.open \in SeqOf(Surfaces, 2) /\ dom.overflow \in {"unset", "hidden"}
  /\ dom.focus \in Places /\ dom.orderly \in BOOLEAN /\ dom.kept \in BOOLEAN
  /\ dom.before \in [Surfaces -> {"unset", "hidden"}]
  /\ dom.returnTo \in [Surfaces -> Places]
  /\ question.asked \in 0..MaxQuestions /\ question.current \in 0..MaxQuestions
  /\ question.answer \in [Questions -> {"unasked", "waiting", "yes", "no"}]
  /\ toasts \in SeqOf(1..MaxToasts, KeptOnShow + 1)
  /\ shown \in 0..MaxToasts /\ removed \subseteq 1..MaxToasts
  /\ feeds.visit \in 1..MaxVisits

\* While surfaces close in the reverse order of their opening and are not
\* rerun together, the page is locked exactly as long as one is open
\* (Drawer, ModalRoot: each restores the overflow it found).
PageLockedWhileCovered ==
  dom.orderly => (dom.overflow = "hidden" <=> dom.open # <<>>)

\* The focus is in the surface opened last unless the user tabbed out of it,
\* and on the page when nothing is open (useFocusTrap).
FocusFollowsSurfaces ==
  /\ dom.open = <<>> => dom.focus = "page"
  /\ dom.open # <<>> /\ dom.kept => dom.focus = Last(dom.open)

\* The dialog shown is the unanswered promise asked last; every other
\* unanswered one was replaced by a later question, which takes a focus that
\* left the dialog (ConfirmProvider.confirm).
EveryQuestionAnswered ==
  /\ IsOpen("dialog") <=> question.current # 0
  /\ question.current # 0 => question.current = question.asked
  /\ \A q \in Questions :
       question.answer[q] = "waiting" => q = question.current \/ q < question.asked
  /\ question.current = 0 /\ question.asked > 0
       => question.answer[question.asked] # "waiting"

\* A toast leaves the screen unseen only when KeptOnShow + 1 newer ones have
\* been shown; the newest is there until it is dismissed
\* (ToastProvider.show).
NewestToastsShown ==
  \A id \in 1..shown :
    id \in Range(toasts) \cup removed \/ shown - id > KeptOnShow

\* Surfaces and toasts keep their order: the lock and the focus follow the surfaces
\* that are open, every question is answered, and no toast is pushed out early.
SurfacesOrderly ==
  /\ PageLockedWhileCovered /\ FocusFollowsSurfaces
  /\ EveryQuestionAnswered /\ NewestToastsShown

\* The toasts go away by themselves once no more are shown (ToastItem's timer,
\* which a dismissal or a newer toast must not stop for the others).
ToastsGo == []<>(toasts = <<>>)
=============================================================================
