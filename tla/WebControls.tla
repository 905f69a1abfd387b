---------------------------- MODULE WebControls -----------------------------
(***************************************************************************)
(* Controls of the page that keep a state of their own: the drop-down      *)
(* (web/src/ui/Select: its trigger, its search box and its list) and the   *)
(* pager (web/src/ui/Pagination).                                          *)
(*                                                                         *)
(* An option is a name; a query is the set of the options it matches.      *)
(* Positions count from 1, 0 is no position.  The effects of a render run  *)
(* before the next event of the user.                                      *)
(***************************************************************************)
EXTENDS Integers, Sequences, FiniteSets

CONSTANTS
  OptionList,        \* parsedOptions, in their order
  DisabledOptions,   \* those that cannot be chosen
  QueryTexts,        \* what can be typed, "" among it
  MatchesOf,         \* [QueryTexts -> SUBSET Range(OptionList)]
  MaxSiblings, MaxPages   \* bounds: the pagers that are tried

AllOptions == {OptionList[i] : i \in DOMAIN OptionList}

ASSUME ControlsAssumption ==
  /\ OptionList \in Seq(AllOptions) /\ "" \notin AllOptions /\ "" \in QueryTexts
  /\ MatchesOf \in [QueryTexts -> SUBSET AllOptions] /\ MatchesOf[""] = AllOptions
  /\ DisabledOptions \subseteq AllOptions
  /\ MaxSiblings \in Nat /\ MaxPages \in Nat

VARIABLES
  select,    \* Select: searchable, value, open, query, at (highlightedIndex), focus
  aim,       \* history: the option the user last moved to, "" if none
  pager      \* Pagination: siblings, total, page

controlVars == <<select, aim, pager>>

\* The highlight is on an option or on none; in a list without options an arrow may also put it
\* on the first place.
ControlsTypeOK ==
  /\ select.searchable \in BOOLEAN /\ select.open \in BOOLEAN
  /\ select.value \in AllOptions \cup {""} /\ select.query \in QueryTexts
  /\ select.at \in (0 .. Len(OptionList)) \cup {1}
  /\ select.focus \in {"trigger", "search", "elsewhere"}
  /\ aim \in AllOptions \cup {""}
  /\ pager.siblings \in 0 .. MaxSiblings /\ pager.total \in 2 .. MaxPages
  /\ pager.page \in 1 .. pager.total

-----------------------------------------------------------------------------
(* Select.tsx.                                                             *)

\* The matching options in their order: the n-th has n - 1 of them before it.
MatchPositions(query) == {i \in DOMAIN OptionList : OptionList[i] \in MatchesOf[query]}
Nth(n, positions) ==
  CHOOSE i \in positions : Cardinality({j \in positions : j < i}) = n - 1
filteredOptions(query) ==
  [n \in 1 .. Cardinality(MatchPositions(query)) |-> OptionList[Nth(n, MatchPositions(query))]]

\* findIndex: where the value is in the list, 0 if it is not.
PositionOf(value, query) ==
  LET found == {i \in DOMAIN filteredOptions(query) : filteredOptions(query)[i] = value}
  IN IF found = {} THEN 0 ELSE CHOOSE i \in found : TRUE

\* Mutant: the position is looked up again only for another value.
ResetForValue(s) ==
  [s EXCEPT !.at = IF s.value # select.value THEN PositionOf(s.value, s.query) ELSE @]

\* The effect on [filteredOptions, currentValue]: the highlight returns to the
\* value when the query or the value has changed.
ResetHighlight(s) ==
  [s EXCEPT !.at = IF s.query # select.query \/ s.value # select.value
                   THEN PositionOf(s.value, s.query) ELSE @]

Now(s) == select' = ResetHighlight(s)

\* An opened list with a search box gives it the focus.
OpenedList(s) ==
  [s EXCEPT !.open = TRUE, !.focus = IF s.searchable THEN "search" ELSE "trigger"]
Shut(focus) == [select EXCEPT !.open = FALSE, !.query = "", !.focus = focus]

\* handleTriggerClick, also for a space while the list is open: what was searched
\* for stays.
handleTriggerClick ==
  /\ Now(IF select.open THEN [select EXCEPT !.open = FALSE, !.focus = "trigger"]
         ELSE OpenedList(select))
  /\ UNCHANGED <<aim, pager>>

OpenByKey ==
  /\ select.focus = "trigger" /\ ~select.open /\ Now(OpenedList(select))
  /\ UNCHANGED <<aim, pager>>

\* A press elsewhere, and Escape or Tab on the trigger; in the search box these
\* keys are not heard.
handleClickOutside ==
  /\ select.open /\ Now(Shut("elsewhere"))
  /\ UNCHANGED <<aim, pager>>
CloseByKey ==
  /\ select.open /\ select.focus = "trigger"
  /\ Now(Shut("trigger")) \/ Now(Shut("elsewhere"))
  /\ UNCHANGED <<aim, pager>>

\* The focus moves between trigger and search box, or comes from elsewhere.
MoveFocus(focus) ==
  /\ select.focus # focus /\ (focus = "search" => select.open /\ select.searchable)
  /\ select' = [select EXCEPT !.focus = focus] /\ UNCHANGED <<aim, pager>>

\* The arrows go around the list; on an empty one down leads to its first place.
Arrow(step) ==
  LET n == Len(filteredOptions(select.query))
      to == IF step = 1 THEN (IF select.at + 1 > n THEN 1 ELSE select.at + 1)
            ELSE (IF select.at - 1 < 1 THEN n ELSE select.at - 1)
  IN /\ select.open /\ select.focus = "trigger"
     /\ select' = [select EXCEPT !.at = to]
     /\ aim' = IF to \in DOMAIN filteredOptions(select.query)
               THEN filteredOptions(select.query)[to] ELSE aim
     /\ UNCHANGED pager

\* handleSelect; a controlled select keeps its value if its owner does not take
\* the new one (the sidebar's, when the guild's page is refused).
handleSelect(option, focus) ==
  /\ Now([Shut(focus) EXCEPT !.value = option]) \/ Now(Shut(focus))
  /\ UNCHANGED <<aim, pager>>

PickByEnter ==
  /\ select.open /\ select.focus = "trigger"
  /\ select.at \in DOMAIN filteredOptions(select.query)
  /\ filteredOptions(select.query)[select.at] \notin DisabledOptions
  /\ handleSelect(filteredOptions(select.query)[select.at], "trigger")

\* SelectListbox: a click on an enabled option of the list.
PickByClick(option) ==
  /\ select.open /\ option \in MatchesOf[select.query] \ DisabledOptions
  /\ handleSelect(option, "elsewhere")

\* SelectTrigger: the cross of a clearable select, open or not.
handleClear == select.value # "" /\ handleSelect("", "elsewhere")

\* SelectSearch: typing, or the cross of the search box.
Search(query) ==
  /\ select.open /\ select.focus = "search" /\ query # select.query
  /\ Now([select EXCEPT !.query = query]) /\ UNCHANGED <<aim, pager>>

\* The owner renders again, maybe with another value (the sidebar, on another
\* guild's page) and with a list it builds on the spot: equal options in another
\* array.
OwnerRenders(value) ==
  /\ select' = [select EXCEPT !.value = value, !.at = PositionOf(value, select.query)]
  /\ UNCHANGED <<aim, pager>>

-----------------------------------------------------------------------------
(* Pagination.tsx.  A pager is the set of pages it lists and those of them  *)
(* that three dots follow.                                                  *)

Larger(a, b) == IF a > b THEN a ELSE b
Smaller(a, b) == IF a < b THEN a ELSE b

\* Mutant: the dots on the left come with the second page.
DotsFromSecond(page, siblings) == Larger(page - siblings, 1) > 1

shouldShowLeftDots(page, siblings) == Larger(page - siblings, 1) > 2
shouldShowRightDots(page, siblings, total) == Smaller(page + siblings, total) < total - 2

generatePageNumbers(page, siblings, total) ==
  LET edge == 3 + 2 * siblings
      left == shouldShowLeftDots(page, siblings)
      right == shouldShowRightDots(page, siblings, total)
  IN CASE total <= edge + 2 -> [numbers |-> 1 .. total, dots |-> {}]
       [] total > edge + 2 /\ ~left /\ right ->
            [numbers |-> (1 .. edge) \cup {total}, dots |-> {edge}]
       [] total > edge + 2 /\ left /\ ~right ->
            [numbers |-> {1} \cup ((total - edge + 1) .. total), dots |-> {1}]
       [] total > edge + 2 /\ left /\ right ->
            [numbers |-> {1, total} \cup
                           (Larger(page - siblings, 1) .. Smaller(page + siblings, total)),
             dots |-> {1, Smaller(page + siblings, total)}]
       [] OTHER -> [numbers |-> {}, dots |-> {}]

\* The buttons: a listed page, and the neighbours where there are any.
GoTo(page) ==
  /\ \/ page \in generatePageNumbers(pager.page, pager.siblings, pager.total).numbers
     \/ page = pager.page - 1 /\ pager.page # 1
     \/ page = pager.page + 1 /\ pager.page # pager.total
  /\ pager' = [pager EXCEPT !.page = page] /\ UNCHANGED <<select, aim>>

-----------------------------------------------------------------------------
ControlsInit ==
  /\ \E searchable \in BOOLEAN, value \in AllOptions \cup {""} :
       select = [searchable |-> searchable, value |-> value, open |-> FALSE, query |-> "",
                 at |-> PositionOf(value, ""), focus |-> "elsewhere"]
  /\ aim = ""
  /\ pager \in [siblings : 0 .. MaxSiblings, total : 2 .. MaxPages, page : {1}]

SelectNext ==
  \/ handleTriggerClick \/ OpenByKey \/ handleClickOutside \/ CloseByKey
  \/ \E focus \in {"trigger", "search", "elsewhere"} : MoveFocus(focus)
  \/ Arrow(1) \/ Arrow(-1) \/ PickByEnter \/ handleClear
  \/ \E value \in AllOptions \cup {""} : OwnerRenders(value)
  \/ \E option \in AllOptions : PickByClick(option)
  \/ \E query \in QueryTexts : Search(query)

PagerNext == \E page \in 1 .. pager.total : GoTo(page)

ControlsNext == SelectNext \/ PagerNext

ControlsSpec == ControlsInit /\ [][ControlsNext]_controlVars

-----------------------------------------------------------------------------
(* Properties.                                                             *)

\* The position that is highlighted always means an option the user knows of: the
\* current value, or the one last moved to, however the list was filtered, left
\* open, closed with its query or rebuilt since; Enter picks no other.
HighlightFollowsOption ==
  select.at # 0 /\ select.at \in DOMAIN filteredOptions(select.query) =>
    filteredOptions(select.query)[select.at] \in {select.value, aim}

\* A pager lists the first, the last and the current page with its siblings, and
\* has three dots exactly where it leaves pages out.
PagesAccounted ==
  LET shown == generatePageNumbers(pager.page, pager.siblings, pager.total)
  IN /\ {1, pager.total} \subseteq shown.numbers
     /\ (Larger(pager.page - pager.siblings, 1)
           .. Smaller(pager.page + pager.siblings, pager.total)) \subseteq shown.numbers
     /\ shown.dots = {n \in shown.numbers \ {pager.total} : n + 1 \notin shown.numbers}
=============================================================================
