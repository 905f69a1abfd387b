---------------------------- MODULE WebViewProofs ---------------------------
(***************************************************************************)
(* Theorems about what the console shows and lets its visitor do: controls, *)
(* the server picker, the table of feeds, forms and overlays; and what the  *)
(* site says of itself, to visitors and to crawlers.                        *)
(***************************************************************************)
EXTENDS WebControls, WebPicker, WebFeeds, WebForms, WebOverlays, WebSite,
        SequenceLemmas

-----------------------------------------------------------------------------
(* The pager, for any page counts.                                          *)

\* A pager has two pages at least, stays within what it was mounted with and stands on
\* one of its pages.
PagerInv ==
  /\ DOMAIN pager = {"siblings", "total", "page"}
  /\ pager.siblings \in 0 .. MaxSiblings /\ pager.total \in 2 .. MaxPages
  /\ pager.page \in 1 .. pager.total

\* A pager starts on its first page.
LEMMA PagerStart == ControlsInit => PagerInv
<1>1. ControlsInit => pager \in [siblings : 0 .. MaxSiblings, total : 2 .. MaxPages, page : {1}]
  BY Zenon DEF ControlsInit
<1>2. pager \in [siblings : 0 .. MaxSiblings, total : 2 .. MaxPages, page : {1}] => PagerInv
  BY DEF PagerInv
<1> QED
  BY <1>1, <1>2

\* A button leads to a page of the pager.
LEMMA PagerStep == PagerInv /\ [ControlsNext]_controlVars => PagerInv'
<1> SUFFICES ASSUME PagerInv, [ControlsNext]_controlVars PROVE PagerInv'
  OBVIOUS
<1>1. CASE UNCHANGED pager
  BY <1>1 DEF PagerInv
<1>2. ASSUME NEW page \in 1 .. pager.total, GoTo(page) PROVE PagerInv'
  <2>1. pager' = [pager EXCEPT !.page = page]
    BY <1>2 DEF GoTo
  <2> QED
    BY <1>2, <2>1 DEF PagerInv
<1>3. SelectNext => UNCHANGED pager
  BY DEF SelectNext, handleTriggerClick, OpenByKey, handleClickOutside, CloseByKey, MoveFocus,
         Arrow, PickByEnter, PickByClick, handleClear, handleSelect, OwnerRenders, Search
<1> QED
  BY <1>1, <1>2, <1>3 DEF ControlsNext, PagerNext, controlVars

\* What generatePageNumbers promises of any page of any pager.
LEMMA NumbersAccounted ==
  ASSUME NEW siblings \in Nat, NEW total \in Nat, total >= 2, NEW page \in 1 .. total
  PROVE  LET drawn == generatePageNumbers(page, siblings, total)
         IN /\ {1, total} \subseteq drawn.numbers
            /\ (Larger(page - siblings, 1) .. Smaller(page + siblings, total)) \subseteq drawn.numbers
            /\ drawn.dots = {n \in drawn.numbers \ {total} : n + 1 \notin drawn.numbers}
<1> DEFINE edge == 3 + 2 * siblings
           left == shouldShowLeftDots(page, siblings)
           right == shouldShowRightDots(page, siblings, total)
           low == Larger(page - siblings, 1)
           high == Smaller(page + siblings, total)
           drawn == generatePageNumbers(page, siblings, total)
           N == drawn.numbers
           D == drawn.dots
           Goal == /\ 1 \in N /\ total \in N /\ \A n \in low .. high : n \in N
                   /\ \A n : n \in D <=> n \in N /\ n # total /\ n + 1 \notin N
<1>1. edge \in Nat /\ edge >= 3 /\ edge = 3 + 2 * siblings
  OBVIOUS
<1>2. /\ low \in 1 .. page /\ low >= page - siblings
      /\ high \in page .. total /\ high <= page + siblings
      /\ left <=> low > 2
      /\ right <=> high < total - 2
  BY DEF Larger, Smaller, shouldShowLeftDots, shouldShowRightDots
<1>3. left <=> page - siblings > 2
  BY DEF Larger, shouldShowLeftDots
<1>4. right <=> page + siblings < total - 2
  BY DEF Smaller, shouldShowRightDots
<1> HIDE DEF edge, left, right, low, high, drawn, N, D
<1>5. ASSUME total <= edge + 2 PROVE Goal
  <2>1. drawn = [numbers |-> 1 .. total, dots |-> {}]
    BY <1>1, <1>5 DEF drawn, generatePageNumbers, edge
  <2>2. N = 1 .. total /\ D = {}
    BY <2>1 DEF N, D
  <2> QED
    BY <1>2, <2>2
<1>6. ASSUME total > edge + 2 /\ ~left /\ right PROVE Goal
  <2>1. drawn = [numbers |-> (1 .. edge) \cup {total}, dots |-> {edge}]
    BY <1>6 DEF drawn, generatePageNumbers, edge, left, right
  <2>2. N = (1 .. edge) \cup {total} /\ D = {edge}
    BY <2>1 DEF N, D
  <2>3. high <= edge
    BY <1>1, <1>2, <1>3, <1>6
  <2> QED
    BY <1>1, <1>2, <1>6, <2>2, <2>3
<1>7. ASSUME total > edge + 2 /\ left /\ ~right PROVE Goal
  <2>1. drawn = [numbers |-> {1} \cup ((total - edge + 1) .. total), dots |-> {1}]
    BY <1>7 DEF drawn, generatePageNumbers, edge, left, right
  <2>2. N = {1} \cup ((total - edge + 1) .. total) /\ D = {1}
    BY <2>1 DEF N, D
  <2>3. low >= total - edge + 1
    BY <1>1, <1>2, <1>4, <1>7
  <2> QED
    BY <1>1, <1>2, <1>7, <2>2, <2>3
<1>8. ASSUME total > edge + 2 /\ left /\ right PROVE Goal
  <2>1. drawn = [numbers |-> {1, total} \cup (low .. high), dots |-> {1, high}]
    BY <1>8 DEF drawn, generatePageNumbers, edge, left, right, low, high
  <2>2. N = {1, total} \cup (low .. high) /\ D = {1, high}
    BY <2>1 DEF N, D
  <2>3. low > 2 /\ high < total - 2 /\ low <= high
    BY <1>2, <1>8
  <2> QED
    BY <1>2, <2>2, <2>3
<1>9. total > edge + 2 => left \/ right
  BY <1>1, <1>3, <1>4
<1> QED
  <2>1. Goal
    BY <1>1, <1>5, <1>6, <1>7, <1>8, <1>9
  <2>2. D \subseteq N /\ D = {n \in N \ {total} : n + 1 \notin N}
    BY <2>1
  <2> QED
    BY <2>1, <2>2 DEF low, high, N, D, drawn

\* For any number of pages and siblings, a pager lists the first, the last and the current
\* page with its siblings, and has dots exactly where it leaves pages out (Pagination.tsx).
THEOREM PagesAlwaysAccounted == ControlsSpec => []PagesAccounted
<1>1. ControlsInit => PagerInv
  BY PagerStart
<1>2. PagerInv /\ [ControlsNext]_controlVars => PagerInv'
  BY PagerStep
<1>3. PagerInv => PagesAccounted
  <2>1. MaxSiblings \in Nat /\ MaxPages \in Nat
    BY ControlsAssumption, Zenon
  <2>2. PagerInv => pager.siblings \in Nat /\ pager.total \in Nat /\ pager.total >= 2
    BY <2>1 DEF PagerInv
  <2> QED
    BY <2>2, NumbersAccounted DEF PagerInv, PagesAccounted
<1> QED
  BY <1>1, <1>2, <1>3, PTL DEF ControlsSpec
-----------------------------------------------------------------------------
(* The drop-down.                                                          *)

\* A select keeps its parts.
SelectInv == DOMAIN select = {"searchable", "value", "open", "query", "at", "focus"}
             /\ HighlightFollowsOption

\* A position that is looked up is the value's own.
LEMMA PositionFound ==
  ASSUME NEW value, NEW query,
         PositionOf(value, query) # 0,
         PositionOf(value, query) \in DOMAIN filteredOptions(query)
  PROVE  filteredOptions(query)[PositionOf(value, query)] = value
<1> DEFINE found == {i \in DOMAIN filteredOptions(query) : filteredOptions(query)[i] = value}
<1>1. CASE found = {}
  BY <1>1 DEF PositionOf
<1>2. CASE found # {}
  <2>1. (CHOOSE i \in found : TRUE) \in found
    BY <1>2
  <2> HIDE DEF filteredOptions
  <2>2. PositionOf(value, query) = CHOOSE i \in found : TRUE
    BY <1>2 DEF PositionOf
  <2> QED
    BY <2>1, <2>2
<1> QED
  BY <1>1, <1>2

\* The effect of a render leaves the highlight where it was or on the value.
LEMMA NowKeeps ==
  ASSUME SelectInv, NEW s, DOMAIN s = DOMAIN select, s.at = select.at, Now(s), UNCHANGED aim
  PROVE  SelectInv'
<1>1. select' = [s EXCEPT !.at = IF s.query # select.query \/ s.value # select.value
                                 THEN PositionOf(s.value, s.query) ELSE s.at]
  BY DEF Now, ResetHighlight
<1>2. DOMAIN select' = DOMAIN select /\ select'.query = s.query /\ select'.value = s.value
  BY <1>1 DEF SelectInv
<1>3. CASE s.query # select.query \/ s.value # select.value
  <2>1. select'.at = PositionOf(s.value, s.query)
    BY <1>1, <1>3 DEF SelectInv
  <2>2. HighlightFollowsOption'
    BY <1>2, <2>1, PositionFound DEF HighlightFollowsOption
  <2> QED
    BY <1>2, <2>2 DEF SelectInv
<1>4. CASE s.query = select.query /\ s.value = select.value
  <2>1. select'.at = select.at
    BY <1>1, <1>4 DEF SelectInv
  <2>2. HighlightFollowsOption'
    BY <1>2, <1>4, <2>1 DEF HighlightFollowsOption, SelectInv
  <2> QED
    BY <1>2, <2>2 DEF SelectInv
<1> QED
  BY <1>3, <1>4

\* Every step keeps them.
LEMMA SelectStep == SelectInv /\ [ControlsNext]_controlVars => SelectInv'
<1> SUFFICES ASSUME SelectInv, [ControlsNext]_controlVars PROVE SelectInv'
  OBVIOUS
<1>1. CASE UNCHANGED <<select, aim>>
  BY <1>1 DEF SelectInv, HighlightFollowsOption
<1>2. ASSUME NEW focus, select' = [select EXCEPT !.focus = focus], UNCHANGED aim PROVE SelectInv'
  <2>1. /\ DOMAIN select' = DOMAIN select /\ select'.query = select.query
        /\ select'.value = select.value /\ select'.at = select.at
    BY <1>2 DEF SelectInv
  <2> QED
    BY <1>2, <2>1 DEF SelectInv, HighlightFollowsOption
<1>3. CASE handleTriggerClick \/ OpenByKey
  <2>1. \E s : s \in {[select EXCEPT !.open = FALSE, !.focus = "trigger"], OpenedList(select)}
               /\ Now(s)
    BY <1>3 DEF handleTriggerClick, OpenByKey
  <2>2. PICK s : s \in {[select EXCEPT !.open = FALSE, !.focus = "trigger"], OpenedList(select)}
                 /\ Now(s)
    BY <2>1
  <2>3. DOMAIN s = DOMAIN select /\ s.at = select.at
    BY <2>2 DEF OpenedList, SelectInv
  <2>4. UNCHANGED aim
    BY <1>3 DEF handleTriggerClick, OpenByKey
  <2> QED
    BY <2>2, <2>3, <2>4, NowKeeps
<1>4. ASSUME NEW focus PROVE DOMAIN Shut(focus) = DOMAIN select /\ Shut(focus).at = select.at
  BY DEF Shut, SelectInv
<1>5. ASSUME NEW option, NEW focus, handleSelect(option, focus) PROVE SelectInv'
  <2>1. DOMAIN [Shut(focus) EXCEPT !.value = option] = DOMAIN select
        /\ [Shut(focus) EXCEPT !.value = option].at = select.at
    BY DEF Shut, SelectInv
  <2> QED
    BY <1>4, <1>5, <2>1, NowKeeps DEF handleSelect
<1>6. CASE handleClickOutside \/ CloseByKey
  BY <1>4, <1>6, NowKeeps DEF handleClickOutside, CloseByKey
<1>7. ASSUME NEW step, Arrow(step) PROVE SelectInv'
  <2>1. PICK to : /\ select' = [select EXCEPT !.at = to]
                  /\ aim' = IF to \in DOMAIN filteredOptions(select.query)
                            THEN filteredOptions(select.query)[to] ELSE aim
    BY <1>7 DEF Arrow
  <2>2. /\ DOMAIN select' = DOMAIN select /\ select'.query = select.query
        /\ select'.value = select.value /\ select'.at = to
    BY <2>1 DEF SelectInv
  <2> QED
    BY <2>1, <2>2 DEF SelectInv, HighlightFollowsOption
<1>8. ASSUME NEW query, Search(query) PROVE SelectInv'
  <2>1. DOMAIN [select EXCEPT !.query = query] = DOMAIN select
        /\ [select EXCEPT !.query = query].at = select.at
    BY DEF SelectInv
  <2> QED
    BY <1>8, <2>1, NowKeeps DEF Search
<1>9. ASSUME NEW value, OwnerRenders(value) PROVE SelectInv'
  <2>1. /\ DOMAIN select' = DOMAIN select /\ select'.query = select.query
        /\ select'.value = value /\ select'.at = PositionOf(value, select.query)
    BY <1>9 DEF OwnerRenders, SelectInv
  <2> QED
    BY <1>9, <2>1, PositionFound DEF SelectInv, HighlightFollowsOption
<1>10. PagerNext => UNCHANGED <<select, aim>>
  BY DEF PagerNext, GoTo
<1> QED
  BY <1>1, <1>2, <1>3, <1>5, <1>6, <1>7, <1>8, <1>9, <1>10
     DEF ControlsNext, SelectNext, controlVars, MoveFocus, PickByEnter, PickByClick, handleClear

\* For any list and any matches: the highlight means the current value or the option last
\* moved to, however the list is filtered, left open or rebuilt (Select.tsx).
THEOREM HighlightAlwaysFollows == ControlsSpec => []HighlightFollowsOption
<1>1. ControlsInit => SelectInv
  <2> SUFFICES ASSUME ControlsInit PROVE SelectInv
    OBVIOUS
  <2>1. PICK searchable \in BOOLEAN, value \in AllOptions \cup {""} :
          select = [searchable |-> searchable, value |-> value, open |-> FALSE, query |-> "",
                    at |-> PositionOf(value, ""), focus |-> "elsewhere"]
    BY DEF ControlsInit
  <2>2. select.at = PositionOf(value, "") /\ select.query = "" /\ select.value = value
        /\ DOMAIN select = {"searchable", "value", "open", "query", "at", "focus"}
    BY <2>1
  <2>3. ASSUME select.at # 0, select.at \in DOMAIN filteredOptions(select.query)
        PROVE  filteredOptions(select.query)[select.at] = select.value
    <3>1. filteredOptions("")[PositionOf(value, "")] = value
      BY <2>2, <2>3, PositionFound
    <3> QED
      BY <2>2, <3>1
  <2>4. HighlightFollowsOption
    BY <2>3 DEF HighlightFollowsOption
  <2> QED
    BY <2>2, <2>4 DEF SelectInv
<1>2. SelectInv /\ [ControlsNext]_controlVars => SelectInv'
  BY SelectStep
<1>3. SelectInv => HighlightFollowsOption
  BY DEF SelectInv
<1> QED
  BY <1>1, <1>2, <1>3, PTL DEF ControlsSpec

-----------------------------------------------------------------------------
(* The types of the controls.                                              *)

\* Positions are counted without a gap: for every n up to their number there is one with
\* n - 1 of them before it.
LEMMA NthFound ==
  ASSUME NEW m \in Nat, NEW K \in SUBSET (1..m), NEW n \in 1..Cardinality(K)
  PROVE  Nth(n, K) \in K
<1> DEFINE Before(i) == {j \in K : j < i}
           Found(k) == \E i \in K : Cardinality(Before(i)) = k - 1
           size == Cardinality(K)
           missed == {k \in 1..size : ~Found(k)}
<1>1. IsFiniteSet(K) /\ size \in Nat
  <2>1. IsFiniteSet(1..m)
    BY FS_Interval
  <2> QED
    BY <2>1, FS_Subset, FS_CardinalityType
<1>2. \A i \in K : IsFiniteSet(Before(i)) /\ i \in Nat
  <2> SUFFICES ASSUME NEW i \in K PROVE IsFiniteSet(Before(i))
    OBVIOUS
  <2>1. Before(i) \in SUBSET K
    OBVIOUS
  <2> QED
    BY <1>1, <2>1, FS_Subset
<1>3. size >= 1 => Found(1)
  <2> SUFFICES ASSUME size >= 1 PROVE Found(1)
    OBVIOUS
  <2>1. K # {}
    BY <1>1, FS_EmptySet
  <2> DEFINE first == Min(K)
  <2>2. first \in K /\ \A j \in K : first <= j
    BY <2>1, LeastPosition
  <2> HIDE DEF first
  <2>3. \A j \in K : ~(j < first)
    BY <1>2, <2>2
  <2>4. Before(first) = {}
    BY <2>3
  <2>5. Cardinality(Before(first)) = 1 - 1
    BY <2>4, FS_EmptySet
  <2> QED
    BY <2>2, <2>5
<1>4. ASSUME NEW k \in 1..size, Found(k), k + 1 <= size PROVE Found(k + 1)
  <2>1. PICK i \in K : Cardinality(Before(i)) = k - 1
    BY <1>4
  <2> DEFINE upto == Before(i) \cup {i}
             after == {j \in K : i < j}
  <2>2. Cardinality(upto) = k
    <3>1. i \notin Before(i) /\ IsFiniteSet(Before(i))
      BY <1>2
    <3>2. Cardinality(upto) = Cardinality(Before(i)) + 1
      <4> HIDE DEF Before
      <4> QED
        BY <3>1, FS_AddElement
    <3>3. (k - 1) + 1 = k
      BY <1>1
    <3> QED
      BY <2>1, <3>2, <3>3
  <2>3. after # {}
    <3> SUFFICES ASSUME after = {} PROVE FALSE
      OBVIOUS
    <3>1. \A j \in K : j < i \/ j = i
      BY <1>2
    <3>2. K = upto
      BY <3>1
    <3>3. size = k
      BY <2>2, <3>2
    <3> HIDE DEF size
    <3> QED
      BY <1>1, <1>4, <3>3
  <2> DEFINE next == Min(after)
  <2>4. next \in after /\ \A j \in after : next <= j
    <3>1. after \in SUBSET (1..m)
      OBVIOUS
    <3> HIDE DEF after
    <3> QED
      BY <2>3, <3>1, LeastPosition
  <2> HIDE DEF next
  <2>5. Before(next) = upto
    <3>1. next \in K /\ i < next
      BY <2>4
    <3>2. \A j \in K : j < next <=> j < i \/ j = i
      BY <1>2, <2>4, <3>1
    <3> QED
      BY <3>2
  <2>6. Cardinality(Before(next)) = (k + 1) - 1
    <3>1. (k + 1) - 1 = k
      BY <1>1
    <3> QED
      BY <2>2, <2>5, <3>1
  <2> QED
    BY <2>4, <2>6
<1>5. missed = {}
  <2> SUFFICES ASSUME missed # {} PROVE FALSE
    OBVIOUS
  <2> DEFINE least == Min(missed)
  <2>1. least \in missed /\ \A j \in missed : least <= j
    <3>1. missed \in SUBSET (1..size)
      OBVIOUS
    <3> HIDE DEF missed
    <3> QED
      BY <1>1, <3>1, LeastPosition
  <2>2. least \in 1..size /\ ~Found(least)
    BY <2>1
  <2> HIDE DEF least, size, Found
  <2>3. least # 1
    BY <1>1, <1>3, <2>2
  <2>4. least - 1 \in 1..size /\ ~(least <= least - 1) /\ (least - 1) + 1 = least
    BY <1>1, <2>2, <2>3
  <2>5. Found(least - 1)
    BY <2>1, <2>4
  <2>6. Found((least - 1) + 1)
    BY <1>1, <1>4, <2>2, <2>4, <2>5
  <2> QED
    BY <2>2, <2>4, <2>6
<1>6. Found(n)
  BY <1>5
<1> QED
  BY <1>6 DEF Nth

\* The filtered list has options only, and no more than the list.
LEMMA FilteredOptions ==
  ASSUME NEW query \in QueryTexts
  PROVE  /\ DOMAIN filteredOptions(query) = 1..Len(filteredOptions(query))
         /\ Len(filteredOptions(query)) \in 0..Len(OptionList)
         /\ \A n \in DOMAIN filteredOptions(query) : filteredOptions(query)[n] \in AllOptions
<1> DEFINE K == MatchPositions(query)
           list == filteredOptions(query)
<1>1. Len(OptionList) \in Nat /\ DOMAIN OptionList = 1..Len(OptionList)
  BY ControlsAssumption, LenProperties
<1>2. K \in SUBSET (1..Len(OptionList))
  BY <1>1 DEF MatchPositions
<1>3. IsFiniteSet(K) /\ Cardinality(K) \in Nat /\ Cardinality(K) <= Len(OptionList)
  <2>1. IsFiniteSet(1..Len(OptionList)) /\ Cardinality(1..Len(OptionList)) = Len(OptionList)
    <3> DEFINE len == Len(OptionList)
    <3> HIDE DEF len
    <3>1. len \in Nat => IsFiniteSet(1..len) /\ Cardinality(1..len) = len
      BY FS_Interval
    <3> QED
      BY <1>1, <3>1 DEF len
  <2> QED
    BY <1>2, <2>1, FS_Subset, FS_CardinalityType
<1>4. \A n \in 1..Cardinality(K) : Nth(n, K) \in DOMAIN OptionList
  BY <1>1, <1>2, NthFound
<1>5. list = [n \in 1..Cardinality(K) |-> OptionList[Nth(n, K)]]
  BY DEF filteredOptions
<1> HIDE DEF K, list
<1>6. \A n \in 1..Cardinality(K) : list[n] \in AllOptions
  BY <1>4, <1>5 DEF AllOptions
<1>7. DOMAIN list = 1..Cardinality(K) /\ list \in Seq(AllOptions)
  BY <1>3, <1>5, <1>6
<1>8. Len(list) = Cardinality(K)
  BY <1>3, <1>7, LenProperties
<1> QED
  BY <1>1, <1>3, <1>6, <1>7, <1>8 DEF list

\* The states of a select.
Values == AllOptions \cup {""}
Foci == {"trigger", "search", "elsewhere"}
Selects ==
  [searchable : BOOLEAN, value : Values, open : BOOLEAN, query : QueryTexts,
   at : (0 .. Len(OptionList)) \cup {1}, focus : Foci]
SelectTyped == select \in Selects /\ aim \in Values

\* Nothing is a value, and a text that can be typed; an option is a value.
LEMMA EmptyTextTyped == "" \in Values /\ "" \in QueryTexts /\ AllOptions \subseteq Values
<1>1. "" \in Values /\ AllOptions \subseteq Values
  BY Zenon DEF Values
<1>2. "" \in QueryTexts
  BY ControlsAssumption, Zenon
<1> QED
  BY <1>1, <1>2, Zenon

\* A position that is looked up is one of the list, or none.
LEMMA PositionTyped ==
  ASSUME NEW value, NEW query \in QueryTexts
  PROVE  PositionOf(value, query) \in 0 .. Len(OptionList)
<1> DEFINE list == filteredOptions(query)
           found == {i \in DOMAIN list : list[i] = value}
           n == Len(list)
           m == Len(OptionList)
<1>1. DOMAIN list = 1..n /\ n \in 0..m
  BY FilteredOptions
<1>2. m \in Nat
  BY ControlsAssumption, LenProperties
<1>3. PositionOf(value, query) = IF found = {} THEN 0 ELSE CHOOSE i \in found : TRUE
  BY DEF PositionOf
<1>4. found \subseteq 1..n
  BY <1>1
<1>5. n \in 0..m
  BY <1>1
<1> HIDE DEF found, n, m
<1>6. PositionOf(value, query) = 0 \/ PositionOf(value, query) \in found
  BY <1>3
<1>7. 0 \in 0..m
  BY <1>2
<1>8. ASSUME NEW i \in found PROVE i \in 0..m
  <2>1. i \in 1..n
    BY <1>4
  <2>2. n \in Nat /\ n <= m
    BY <1>2, <1>5
  <2> QED
    BY <1>2, <2>1, <2>2
<1> QED
  BY <1>6, <1>7, <1>8, Zenon DEF m

\* What may be put in the place of a part.
LEMMA SelectParts ==
  ASSUME NEW s \in Selects
  PROVE  /\ s.searchable \in BOOLEAN /\ s.open \in BOOLEAN /\ s.value \in Values
         /\ s.query \in QueryTexts /\ s.focus \in Foci
         /\ s.at \in (0 .. Len(OptionList)) \cup {1}
         /\ \A open \in BOOLEAN, focus \in Foci :
              [s EXCEPT !.open = open, !.focus = focus] \in Selects
         /\ \A open \in BOOLEAN, focus \in Foci, query \in QueryTexts :
              [s EXCEPT !.open = open, !.query = query, !.focus = focus] \in Selects
         /\ \A focus \in Foci : [s EXCEPT !.focus = focus] \in Selects
         /\ \A query \in QueryTexts : [s EXCEPT !.query = query] \in Selects
         /\ \A value \in Values : [s EXCEPT !.value = value] \in Selects
         /\ \A at \in (0 .. Len(OptionList)) \cup {1} : [s EXCEPT !.at = at] \in Selects
<1> DEFINE Positions == (0 .. Len(OptionList)) \cup {1}
<1> HIDE DEF Positions
<1>1. Selects = [searchable : BOOLEAN, value : Values, open : BOOLEAN, query : QueryTexts,
                 at : Positions, focus : Foci]
  BY DEF Selects, Positions
<1> QED
  BY <1>1 DEF Positions

\* The effect of a render stays among them.
LEMMA NowTyped ==
  ASSUME NEW s \in Selects, Now(s)
  PROVE  select' \in Selects
<1> DEFINE at == IF s.query # select.query \/ s.value # select.value
                 THEN PositionOf(s.value, s.query) ELSE s.at
<1>1. select' = [s EXCEPT !.at = at]
  BY DEF Now, ResetHighlight
<1>2. at \in (0 .. Len(OptionList)) \cup {1}
  BY SelectParts, PositionTyped
<1> HIDE DEF at
<1> QED
  BY <1>1, <1>2, SelectParts

\* Every step keeps the types.
LEMMA SelectTypedStep == SelectTyped /\ [ControlsNext]_controlVars => SelectTyped'
<1> SUFFICES ASSUME SelectTyped, [ControlsNext]_controlVars PROVE SelectTyped'
  OBVIOUS
<1>0. select \in Selects /\ aim \in Values
  BY DEF SelectTyped
<1>1. CASE UNCHANGED <<select, aim>>
  BY <1>0, <1>1 DEF SelectTyped
<1>2. ASSUME NEW s \in Selects, Now(s), UNCHANGED aim PROVE SelectTyped'
  BY <1>0, <1>2, NowTyped DEF SelectTyped
<1>3. /\ "trigger" \in Foci /\ "search" \in Foci /\ "elsewhere" \in Foci
      /\ \A focus \in {"trigger", "search", "elsewhere"} : focus \in Foci
  BY DEF Foci
<1>4. OpenedList(select) \in Selects
  BY <1>0, <1>3, SelectParts DEF OpenedList
<1>5. \A focus \in Foci : Shut(focus) \in Selects
  <2>1. \A focus \in Foci, none \in QueryTexts :
          [select EXCEPT !.open = FALSE, !.query = none, !.focus = focus] \in Selects
    BY <1>0, SelectParts
  <2> QED
    BY <2>1, EmptyTextTyped, Zenon DEF Shut
<1>6. CASE handleTriggerClick \/ OpenByKey
  <2>1. [select EXCEPT !.open = FALSE, !.focus = "trigger"] \in Selects
    BY <1>0, <1>3, SelectParts
  <2> QED
    BY <1>2, <1>4, <1>6, <2>1 DEF handleTriggerClick, OpenByKey
<1>7. CASE handleClickOutside \/ CloseByKey
  BY <1>2, <1>3, <1>5, <1>7 DEF handleClickOutside, CloseByKey
<1>8. ASSUME NEW focus \in {"trigger", "search", "elsewhere"}, MoveFocus(focus) PROVE SelectTyped'
  BY <1>0, <1>3, <1>8, SelectParts DEF MoveFocus, SelectTyped
<1>9. ASSUME NEW step \in {1, -1}, Arrow(step) PROVE SelectTyped'
  <2> DEFINE list == filteredOptions(select.query)
             n == Len(list)
             m == Len(OptionList)
             to == IF step = 1 THEN (IF select.at + 1 > n THEN 1 ELSE select.at + 1)
                   ELSE (IF select.at - 1 < 1 THEN n ELSE select.at - 1)
  <2>1. /\ select' = [select EXCEPT !.at = to]
        /\ aim' = IF to \in DOMAIN list THEN list[to] ELSE aim
    BY <1>9 DEF Arrow
  <2>2. n \in 0..m /\ \A k \in DOMAIN list : list[k] \in AllOptions
    BY <1>0, SelectParts, FilteredOptions
  <2>3. m \in Nat /\ select.at \in (0..m) \cup {1}
    BY <1>0, SelectParts, ControlsAssumption, LenProperties
  <2>4. to \in (0..m) \cup {1}
    <3> HIDE DEF n, m
    <3> QED
      BY <2>2, <2>3
  <2> HIDE DEF to, list
  <2>5. select' \in Selects
    BY <1>0, <2>1, <2>4, SelectParts DEF m
  <2>6. aim' \in Values
    BY <1>0, <2>1, <2>2, EmptyTextTyped
  <2> QED
    BY <2>5, <2>6 DEF SelectTyped
<1>10. ASSUME NEW option \in Values, NEW focus \in Foci, handleSelect(option, focus) PROVE SelectTyped'
  <2>1. Shut(focus) \in Selects /\ [Shut(focus) EXCEPT !.value = option] \in Selects
    BY <1>5, SelectParts
  <2> QED
    BY <1>2, <1>10, <2>1 DEF handleSelect
<1>11. CASE PickByEnter
  <2>1. filteredOptions(select.query)[select.at] \in Values
    BY <1>0, <1>11, EmptyTextTyped, SelectParts, FilteredOptions DEF PickByEnter
  <2> QED
    BY <1>3, <1>10, <1>11, <2>1 DEF PickByEnter
<1>12. ASSUME NEW option \in AllOptions, PickByClick(option) PROVE SelectTyped'
  BY <1>3, <1>10, <1>12, EmptyTextTyped DEF PickByClick
<1>13. CASE handleClear
  BY <1>3, <1>10, <1>13, EmptyTextTyped, Zenon DEF handleClear
<1>14. ASSUME NEW query \in QueryTexts, Search(query) PROVE SelectTyped'
  BY <1>0, <1>2, <1>14, SelectParts DEF Search
<1>15. ASSUME NEW value \in Values, OwnerRenders(value) PROVE SelectTyped'
  <2> DEFINE at == PositionOf(value, select.query)
  <2>1. at \in (0 .. Len(OptionList)) \cup {1}
    BY <1>0, SelectParts, PositionTyped
  <2>2. select' = [select EXCEPT !.value = value, !.at = at] /\ UNCHANGED aim
    BY <1>15 DEF OwnerRenders
  <2>3. [select EXCEPT !.value = value, !.at = at] = [[select EXCEPT !.value = value] EXCEPT !.at = at]
    BY <1>0 DEF Selects
  <2> HIDE DEF at
  <2>4. [[select EXCEPT !.value = value] EXCEPT !.at = at] \in Selects
    BY <1>0, <2>1, SelectParts
  <2> QED
    BY <1>0, <2>2, <2>3, <2>4 DEF SelectTyped
<1>16. PagerNext => UNCHANGED <<select, aim>>
  BY DEF PagerNext, GoTo
<1>17. SelectNext => \/ \E focus \in {"trigger", "search", "elsewhere"} : MoveFocus(focus)
                     \/ \E step \in {1, -1} : Arrow(step)
                     \/ \E value \in Values : OwnerRenders(value)
                     \/ \E option \in AllOptions : PickByClick(option)
                     \/ \E query \in QueryTexts : Search(query)
                     \/ handleTriggerClick \/ OpenByKey \/ handleClickOutside \/ CloseByKey
                     \/ PickByEnter \/ handleClear
  BY DEF SelectNext, Values
<1> QED
  BY <1>1, <1>6, <1>7, <1>8, <1>9, <1>11, <1>12, <1>13, <1>14, <1>15, <1>16, <1>17
     DEF ControlsNext, controlVars

\* For any options, matches and searches: the highlight of a drop-down is on one of its
\* options or on none (Select.tsx), and a pager stays on one of its pages (Pagination.tsx).
THEOREM ControlsAlwaysTyped == ControlsSpec => []ControlsTypeOK
<1>1. ControlsInit => SelectTyped
  <2> SUFFICES ASSUME ControlsInit PROVE SelectTyped
    OBVIOUS
  <2>1. PICK searchable \in BOOLEAN, value \in Values :
          select = [searchable |-> searchable, value |-> value, open |-> FALSE, query |-> "",
                    at |-> PositionOf(value, ""), focus |-> "elsewhere"]
    BY Zenon DEF ControlsInit, Values
  <2>2. \A none \in QueryTexts :
          [searchable |-> searchable, value |-> value, open |-> FALSE, query |-> none,
           at |-> PositionOf(value, none), focus |-> "elsewhere"] \in Selects
    BY PositionTyped DEF Selects, Foci
  <2>3. select \in Selects
    BY <2>1, <2>2, EmptyTextTyped, Zenon
  <2>4. aim \in Values
    BY EmptyTextTyped, Zenon DEF ControlsInit
  <2> QED
    BY <2>3, <2>4 DEF SelectTyped
<1>2. ControlsInit => PagerInv
  BY PagerStart
<1>3. SelectTyped /\ PagerInv => ControlsTypeOK
  <2> SUFFICES ASSUME SelectTyped, PagerInv PROVE ControlsTypeOK
    OBVIOUS
  <2>1. /\ select.searchable \in BOOLEAN /\ select.open \in BOOLEAN /\ select.value \in Values
        /\ select.query \in QueryTexts /\ select.focus \in Foci
        /\ select.at \in (0 .. Len(OptionList)) \cup {1} /\ aim \in Values
    BY SelectParts DEF SelectTyped
  <2> QED
    BY <2>1, Zenon DEF ControlsTypeOK, PagerInv, Values, Foci
<1> QED
  BY <1>1, <1>2, <1>3, SelectTypedStep, PagerStep, PTL DEF ControlsSpec

-----------------------------------------------------------------------------
(* The server picker and the guild provider, for any guilds and lists.      *)

\* The guilds a page may name, and the lists it may hold.
AnyGuild == PickerGuilds \cup Samples \cup {"none"}
AnyList == Lists \cup {NoList}

\* The states of the picker, the provider and the GET they share.
PickerStates ==
  [mounted : BOOLEAN, data : AnyList, error : {"none", "expired", "failed", "timeout"},
   isLoading : BOOLEAN, demo : BOOLEAN, awaits : BOOLEAN]
ProviderStates == [list : AnyList, loading : BOOLEAN, failed : BOOLEAN, active : AnyGuild]
GETStates == [pc : {"none", "sent", "read"}, list : AnyList]

\* The fields of the picker's records.
PickerShape ==
  /\ member \in Lists /\ memberChanges \in 0 .. MaxMemberChanges
  /\ guildsGET \in GETStates
  /\ provider \in ProviderStates
  /\ picker \in PickerStates
  /\ cachedList \in AnyList
  /\ place \in [page : {"elsewhere", "servers", "guild"}, guild : AnyGuild,
                via : {"card", "link"}]
  /\ bounce \in [guild : AnyGuild, steady : BOOLEAN]
  /\ provider.active = keptGuild
  /\ picker.mounted = (place.page = "servers")

\* Whom the server lists still, an answer under way lists and the provider knows,
\* unless its request has failed; and a card's dashboard is that of the active guild.
PickerInv ==
  /\ PickerShape
  /\ steady \subseteq Listed(member)
  /\ guildsGET.pc = "read" => steady \subseteq Listed(guildsGET.list)
  /\ ~provider.loading /\ ~provider.failed => steady \subseteq Listed(provider.list)
  /\ place.page = "guild" /\ place.via = "card" => provider.active = place.guild
  /\ BounceExplained

\* Every step keeps the invariant.
LEMMA PickerStep == PickerInv /\ [PickerNext]_pickerVars => PickerInv'
<1> SUFFICES ASSUME PickerInv, [PickerNext]_pickerVars PROVE PickerInv'
  OBVIOUS
<1> USE PickerAssumption DEF PickerInv, PickerShape, BounceExplained, AnyGuild, AnyList, PickerStates,
       ProviderStates, GETStates
<1>0. /\ NoGET \in GETStates
      /\ [pc |-> "sent", list |-> NoList] \in GETStates
      /\ NoPicker \in PickerStates
      /\ NoGET.pc = "none" /\ NoPicker.mounted = FALSE
  BY DEF NoGET, NoPicker
<1> HIDE DEF AnyList
<1>1. ASSUME MountPicker, place.page # "servers", place.page = "guild" => TRUE,
             UNCHANGED <<member, memberChanges, provider, keptGuild, cachedList, steady>>,
             bounce' = bounce \/ (bounce' = [guild |-> place.guild, steady |-> place.guild \in steady]
                /\ place.page = "guild" /\ GateOfGuild = "refused")
      PROVE PickerInv'
  <2>1. guildsGET' = guildsGET \/ guildsGET' = [pc |-> "sent", list |-> NoList]
    BY <1>1 DEF MountPicker, SendOrJoinList
  <2>2. /\ picker' \in PickerStates
        /\ picker'.mounted = TRUE
    BY <1>1, <1>0 DEF MountPicker
  <2>3. place' = [page |-> "servers", guild |-> "none", via |-> "link"]
    BY <1>1 DEF MountPicker, At
  <2>4. bounce'.steady => provider.failed
    BY <1>1 DEF GateOfGuild, checkGuildPermission
  <2> QED
    BY <1>0, <1>1, <2>1, <2>2, <2>3, <2>4
<1>2. CASE OpenPicker
  BY <1>1, <1>2 DEF OpenPicker
<1>3. CASE BounceToPicker
  BY <1>1, <1>3 DEF BounceToPicker
<1>4. CASE Retry
  <2>1. /\ guildsGET' = guildsGET \/ guildsGET' = [pc |-> "sent", list |-> NoList]
        /\ UNCHANGED <<member, memberChanges, provider, keptGuild, cachedList, place,
                       steady, bounce>>
    BY <1>4 DEF Retry, SendOrJoinList
  <2>2. picker' \in PickerStates /\ picker'.mounted = picker.mounted
    BY <1>4 DEF Retry
  <2> QED
    BY <1>0, <2>1, <2>2
<1>5. CASE ShowSamples
  <2>1. picker' \in PickerStates /\ picker'.mounted = picker.mounted
    BY <1>5 DEF ShowSamples
  <2> QED
    BY <1>5, <2>1 DEF ShowSamples
<1>6. ASSUME UnmountPicker PROVE picker' = NoPicker /\ guildsGET' \in {guildsGET, NoGET}
  BY <1>6 DEF UnmountPicker
<1>7. ASSUME NEW g \in PickerGuilds \cup Samples, Manage(g) PROVE PickerInv'
  BY <1>0, <1>6, <1>7 DEF Manage, CanManage, selectGuild, At
<1>8. ASSUME NEW g \in PickerGuilds \cup Samples, FollowLink(g) PROVE PickerInv'
  BY <1>0, <1>6, <1>8 DEF FollowLink, At
<1>9. CASE LeaveForElsewhere
  BY <1>0, <1>6, <1>9 DEF LeaveForElsewhere, At
<1>10. CASE ReloadTab
  BY <1>0, <1>10 DEF ReloadTab, Loaded, AnyList
<1>11. ASSUME NEW g \in PickerGuilds, NEW how \in {"none", "invite", "bot"}, ChangeMember(g, how)
       PROVE  PickerInv'
  BY <1>11 DEF ChangeMember, Lists, Listed
<1>12. CASE ReadList
  BY <1>12 DEF ReadList, AnyList
<1>13. CASE ListAnswered
  <2>1. picker' \in PickerStates /\ picker'.mounted = picker.mounted
    BY <1>13 DEF ListAnswered
  <2>2. /\ provider' \in ProviderStates /\ provider'.active = provider.active
        /\ ~provider'.loading /\ provider'.failed = provider.failed
        /\ provider'.list = IF provider.loading THEN guildsGET.list ELSE provider.list
    BY <1>13 DEF ListAnswered
  <2>3. cachedList' \in AnyList /\ guildsGET.pc = "read"
    BY <1>13 DEF ListAnswered
  <2>4. PickerShape'
    BY <1>0, <1>13, <2>1, <2>2, <2>3 DEF ListAnswered
  <2> QED
    BY <1>0, <1>13, <2>2, <2>3, <2>4 DEF ListAnswered
<1>14. ASSUME NEW kind \in {"expired", "failed", "timeout"}, ListFailed(kind) PROVE PickerInv'
  <2>1. picker' \in PickerStates /\ picker'.mounted = picker.mounted
    BY <1>14 DEF ListFailed
  <2>2. /\ provider' \in ProviderStates /\ provider'.active = provider.active
        /\ ~provider'.loading /\ provider'.list = provider.list
        /\ provider'.failed = (provider.failed \/ provider.loading)
    BY <1>14 DEF ListFailed
  <2>3. PickerShape'
    BY <1>0, <1>14, <2>1, <2>2 DEF ListFailed
  <2> QED
    BY <1>0, <1>14, <2>2, <2>3 DEF ListFailed
<1>15. CASE UNCHANGED pickerVars
  BY <1>15 DEF pickerVars
<1> QED
  BY <1>2, <1>3, <1>4, <1>5, <1>7, <1>8, <1>9, <1>10, <1>11, <1>12, <1>13, <1>14, <1>15
  DEF PickerNext

\* The invariant holds of every behaviour.
LEMMA PickerInvariant == PickerSpec => []PickerInv
<1>1. PickerInit => PickerInv
  <2> SUFFICES ASSUME PickerInit PROVE PickerInv
    OBVIOUS
  <2>1. member \in Lists /\ steady = Listed(member)
    BY DEF PickerInit, Lists
  <2>2. picker \in PickerStates /\ picker.mounted = FALSE /\ place.page = "elsewhere"
    BY DEF PickerInit, NoPicker, PickerStates, AnyList, At
  <2>3. provider \in ProviderStates /\ guildsGET \in GETStates /\ cachedList \in AnyList
    BY DEF PickerInit, AnyGuild, AnyList, ProviderStates, GETStates
  <2>4. /\ place \in [page : {"elsewhere", "servers", "guild"}, guild : AnyGuild,
                      via : {"card", "link"}]
        /\ bounce \in [guild : AnyGuild, steady : BOOLEAN]
        /\ provider.active = keptGuild /\ memberChanges \in 0 .. MaxMemberChanges
    BY PickerAssumption DEF PickerInit, AnyGuild, At
  <2> QED
    BY <2>1, <2>2, <2>3, <2>4 DEF PickerInit, PickerInv, PickerShape, BounceExplained
<1> QED
  BY <1>1, PickerStep, PTL DEF PickerSpec

\* Whatever lists arrive late, fail or change meanwhile, the header names the guild
\* whose page is open, and only a guild that was lost sends its visitor back.
THEOREM PickerLeadsWhereItSays == PickerSpec => [](PickerTypeOK /\ PickerLeadsThere)
<1>1. PickerInv => PickerTypeOK
  BY DEF PickerInv, PickerShape, PickerTypeOK, AnyGuild, AnyList, PickerStates, GETStates,
     ProviderStates
<1>2. PickerInv => PickerLeadsThere
  BY DEF PickerInv, PickerShape, PickerLeadsThere, ManagedGuildInHeader, GateOfGuild,
     HeaderNames, checkGuildPermission
<1> QED
  BY <1>1, <1>2, PickerInvariant, PTL

-----------------------------------------------------------------------------
(* The table of feeds and the gallery of samples.                           *)

\* A feed as the table shows it.
ShownFeeds == [target_id : TargetTexts, target_name : TargetTexts,
               platform : FEED_TYPE_OPTIONS, destination_channel_id : ChannelTexts]

\* The table keeps the rows it was given, and the keyboard stays on the sample shown.
FeedsInv ==
  /\ feedTable \in [feeds : SUBSET ShownFeeds, loading : BOOLEAN, search : SearchTexts]
  /\ monitorRows \subseteq FeedRows
  /\ gallery \in [selected : PreviewPlatforms, focus : PreviewPlatforms \cup {"none"}]
  /\ FocusOnShownPlatform

\* An arrow goes to a tab of the list.
LEMMA NeighbourIsTab ==
  ASSUME NEW p \in PreviewPlatforms, NEW step \in {1, -1}
  PROVE  LET n == Len(PREVIEW_PLATFORMS)
             at == CHOOSE i \in 1 .. n : PREVIEW_PLATFORMS[i] = p
         IN PREVIEW_PLATFORMS[1 + ((at - 1 + step + n) % n)] \in PreviewPlatforms
<1> DEFINE n == Len(PREVIEW_PLATFORMS)
           at == CHOOSE i \in 1 .. n : PREVIEW_PLATFORMS[i] = p
<1>1. n = 8
  BY DEF PREVIEW_PLATFORMS
<1>2. DOMAIN PREVIEW_PLATFORMS = 1 .. 8
  BY DEF PREVIEW_PLATFORMS
<1>3. \E i \in 1 .. n : PREVIEW_PLATFORMS[i] = p
  BY <1>1, <1>2 DEF PreviewPlatforms
<1>4. at \in 1 .. n
  BY <1>3
<1> HIDE DEF at, n
<1>5. 1 + ((at - 1 + step + n) % n) \in 1 .. 8
  BY <1>1, <1>4
<1>6. PREVIEW_PLATFORMS[1 + ((at - 1 + step + n) % n)] \in PreviewPlatforms
  BY <1>2, <1>5 DEF PreviewPlatforms
<1> QED
  BY <1>6 DEF at, n

\* Every step keeps the invariant.
LEMMA FeedsStep == FeedsInv /\ [FeedsNext]_feedVars => FeedsInv'
<1> SUFFICES ASSUME FeedsInv, [FeedsNext]_feedVars PROVE FeedsInv'
  OBVIOUS
<1> USE FeedsAssumption DEF FeedsInv, FocusOnShownPlatform
<1>1. CASE LoadList \/ FeedsRefused
  BY <1>1 DEF LoadList, FeedsRefused
<1>8. ASSUME NEW text \in SearchTexts, TypeSearch(text) PROVE FeedsInv'
  BY <1>8 DEF TypeSearch
<1>2. CASE FeedsArrive
  <2>1. get_guild_feeds \subseteq ShownFeeds
    BY DEF get_guild_feeds, FeedRows, ShownFeeds
  <2> QED
    BY <1>2, <2>1 DEF FeedsArrive
<1>3. CASE \E row \in FeedRows : SaveFeed(row)
  BY <1>3 DEF SaveFeed
<1>4. CASE MoveTabFocus
  BY <1>4 DEF MoveTabFocus
<1>5. ASSUME NEW step \in {1, -1}, ArrowKey(step) PROVE FeedsInv'
  <2>1. gallery.focus \in PreviewPlatforms
    BY <1>5 DEF ArrowKey
  <2> DEFINE n == Len(PREVIEW_PLATFORMS)
             at == CHOOSE i \in 1 .. n : PREVIEW_PLATFORMS[i] = gallery.focus
             to == PREVIEW_PLATFORMS[1 + ((at - 1 + step + n) % n)]
  <2>2. gallery' = [selected |-> to, focus |-> to]
    BY <1>5 DEF ArrowKey
  <2>3. to \in PreviewPlatforms
    BY <2>1, NeighbourIsTab
  <2> HIDE DEF to
  <2> QED
    BY <1>5, <2>2, <2>3 DEF ArrowKey
<1>6. CASE \E p \in PreviewPlatforms : SelectPlatform(p)
  BY <1>6 DEF SelectPlatform
<1>7. CASE UNCHANGED feedVars
  BY <1>7 DEF feedVars
<1> QED
  BY <1>1, <1>2, <1>3, <1>4, <1>5, <1>6, <1>7, <1>8 DEF FeedsNext, FeedListNext, GalleryNext

\* Every platform's sample is laid out in full.
LEMMA SamplesWhole == EverySampleShown
<1>1. \A p : getEmbedMocks(p) \subseteq DiscordEmbed(getEmbedMocks(p))
  BY DEF getEmbedMocks, DiscordEmbed, isComponentV2, ComponentLayout
<1>2. FeedEmbedPreview \subseteq DiscordEmbed(FeedEmbedPreview)
  BY DEF FeedEmbedPreview, DiscordEmbed, isComponentV2, ClassicLayout
<1> QED
  BY <1>1, <1>2 DEF EverySampleShown

\* Whatever is saved, typed or selected, a row is found by any text it shows, the
\* keyboard stays on the sample shown, and every sample is shown in whole.
THEOREM FeedsAlwaysShown == FeedsSpec => [](FeedsTypeOK /\ FeedsShown)
<1>1. FeedsInit => FeedsInv
  <2>1. "youtube" \in PreviewPlatforms
    <3>1. 1 \in DOMAIN PREVIEW_PLATFORMS /\ PREVIEW_PLATFORMS[1] = "youtube"
      BY DEF PREVIEW_PLATFORMS
    <3> QED
      BY <3>1 DEF PreviewPlatforms
  <2>2. [feeds |-> {}, loading |-> TRUE, search |-> NoText] \in
          [feeds : SUBSET ShownFeeds, loading : BOOLEAN, search : SearchTexts]
    BY FeedsAssumption
  <2>3. [selected |-> "youtube", focus |-> "none"] \in
          [selected : PreviewPlatforms, focus : PreviewPlatforms \cup {"none"}]
    BY <2>1
  <2> QED
    BY <2>2, <2>3 DEF FeedsInit, FeedsInv, FocusOnShownPlatform
<1>2. FeedsInv => FeedsTypeOK
  BY DEF FeedsInv, FeedsTypeOK, FeedRows, ShownFeeds
<1>3. FoundByWhatItShows
  BY DEF FoundByWhatItShows, CellsOf, filteredFeeds, MatchesSearch, TableBody
<1>4. FeedsInv => FeedsShown
  BY <1>3, SamplesWhole DEF FeedsInv, FeedsShown
<1> QED
  BY <1>1, <1>2, <1>4, FeedsStep, PTL DEF FeedsSpec

-----------------------------------------------------------------------------
(* The forms of a guild and the developer console, for any visits and sends.*)

\* The states of a page and the requests it sends.
PageStates ==
  [route : Routes \cup {"elsewhere"}, visit : 0..MaxMounts,
   guild : FormGuilds \cup {"none"}, text : Texts, preview : Texts,
   busy : BOOLEAN, syncing : BOOLEAN, unlocked : BOOLEAN]
FormRequests ==
  [id : 1..MaxSends, route : Routes \cup {"sync"}, visit : 1..MaxMounts,
   guild : FormGuilds \cup {"none"}, text : Texts, asks : Texts, applied : BOOLEAN]

\* The shapes the variables keep.
FormShape ==
  /\ form \in PageStates /\ sent \subseteq FormRequests
  /\ sends \in 0..MaxSends /\ secret \in Texts
  /\ records.feeds \subseteq FormGuilds \X Texts
  /\ records.settings \in [FormGuilds -> Texts \cup {"unset"}]
  /\ DOMAIN records = {"feeds", "settings"}
  /\ DOMAIN said = {"submitted", "saved"}

\* A page of a guild has one; the opened console is a page with a secret kept.
OpenPageSound ==
  /\ form.route # "elsewhere" => form.visit >= 1
  /\ form.route \in {"feeds", "settings"} => form.guild \in FormGuilds
  /\ form.unlocked => form.route = "console" /\ secret # Empty

\* A request carries what was submitted on a page that is no younger than the open one;
\* what it is about is in the records once it is applied.
RequestSound(r) ==
  /\ r.visit <= form.visit
  /\ r.visit = form.visit /\ r.route \in Routes => form.route \in {r.route, "elsewhere"}
  /\ r.route \in Routes => <<r.route, r.guild, r.text>> \in said.submitted
  /\ r.route \in {"feeds", "settings"} => r.guild \in FormGuilds
  /\ r.route \in {"feeds", "console"} => r.text \notin Blank
  /\ r.applied /\ r.route = "feeds" => <<r.guild, r.text>> \in records.feeds

\* A visit has one request of its button under way, and one of the console's second.
SameButton(r, s) == r.visit = s.visit /\ (r.route = "sync" <=> s.route = "sync")
OneEach == \A r, s \in sent : SameButton(r, s) => r = s

\* What is kept about forms, requests and records.
FormsInv ==
  /\ FormShape /\ OpenPageSound /\ (\A r \in sent : RequestSound(r)) /\ OneEach
  /\ SavedAsSubmitted /\ BusyWhileUnderway /\ ToastNamesSavedFeed

\* Steps of the page alone: its requests stay, and its flags unless it is left.
LEMMA PageStep ==
  ASSUME FormsInv, UNCHANGED <<sent, sends, records, said>>,
         form' \in PageStates, secret' \in Texts, OpenPageSound', form'.visit >= form.visit,
         \/ form'.visit = form.visit /\ form'.route = form.route /\ form'.busy = form.busy
              /\ form'.syncing = form.syncing /\ form.route # "elsewhere"
         \/ form'.route = "elsewhere"
         \/ form'.visit > form.visit /\ ~form'.busy /\ ~form'.syncing
  PROVE  FormsInv'
<1> USE FormAssumption DEF FormsInv
<1>1. FormShape' /\ OneEach'
  BY DEF FormShape, OneEach, SameButton
<1>0. /\ form.visit \in Nat /\ form'.visit \in Nat
      /\ \A r \in sent : r.visit \in Nat /\ r.visit <= form.visit
  <2>1. form.visit \in Nat /\ form'.visit \in Nat
    BY DEF FormShape, PageStates
  <2>2. \A r \in sent : r.visit \in Nat
    BY DEF FormShape, FormRequests
  <2> QED
    BY <2>1, <2>2 DEF RequestSound
<1>2. \A r \in sent : RequestSound(r)'
  <2> SUFFICES ASSUME NEW r \in sent PROVE RequestSound(r)'
    OBVIOUS
  <2>1. r.visit <= form'.visit
    BY <1>0
  <2>2. RequestSound(r)
    OBVIOUS
  <2>3. r.visit = form'.visit => form'.visit = form.visit \/ form'.route = "elsewhere"
    BY <1>0
  <2>4. r.visit = form'.visit /\ r.route \in Routes => form'.route \in {r.route, "elsewhere"}
    <3>1. CASE form'.route = "elsewhere"
      BY <3>1
    <3>2. CASE form'.visit = form.visit /\ form'.route = form.route
      BY <3>2, <2>2 DEF RequestSound
    <3>3. CASE form'.visit > form.visit
      BY <3>3, <1>0
    <3> QED
      BY <3>1, <3>2, <3>3
  <2> QED
    BY <2>1, <2>2, <2>4 DEF RequestSound
<1>3. SavedAsSubmitted' /\ ToastNamesSavedFeed'
  BY DEF SavedAsSubmitted, ToastNamesSavedFeed
<1>4. BusyWhileUnderway'
  <2>1. \A R : form'.visit = form.visit => Underway(R)' = Underway(R)
    BY DEF Underway
  <2>2. form'.visit > form.visit => Underway(Routes)' = {} /\ Underway({"sync"})' = {}
    <3>1. ASSUME form'.visit > form.visit, NEW r \in sent, r.visit = form'.visit PROVE FALSE
      BY <1>0, <3>1
    <3> QED
      BY <3>1 DEF Underway
  <2> QED
    BY <2>1, <2>2 DEF BusyWhileUnderway
<1> QED
  BY <1>1, <1>2, <1>3, <1>4

\* A request leaves with what the page shows.
LEMMA SendStep ==
  ASSUME FormsInv, NEW r \in FormRequests, sent' = sent \cup {r},
         r.visit = form.visit, form.route # "elsewhere", ~r.applied,
         \/ r.route = form.route /\ ~form.busy /\ form' = [form EXCEPT !.busy = TRUE]
         \/ r.route = "sync" /\ ~form.syncing /\ form' = [form EXCEPT !.syncing = TRUE],
         sends' \in 0..MaxSends, UNCHANGED <<records, secret>>,
         DOMAIN said' = {"submitted", "saved"}, said'.saved = said.saved,
         said.submitted \subseteq said'.submitted,
         r.route \in Routes => <<r.route, r.guild, r.text>> \in said'.submitted,
         r.route \in {"feeds", "settings"} => r.guild \in FormGuilds,
         r.route \in {"feeds", "console"} => r.text \notin Blank
  PROVE  FormsInv'
<1> USE FormAssumption DEF FormsInv
<1>1. /\ form' \in PageStates /\ form'.visit = form.visit /\ form'.route = form.route
      /\ form'.guild = form.guild /\ form'.unlocked = form.unlocked
      /\ form'.busy <=> form.busy \/ r.route # "sync"
      /\ form'.syncing <=> form.syncing \/ r.route = "sync"
  BY DEF FormShape, PageStates, FormRequests, Routes
<1>2. FormShape' /\ OpenPageSound'
  BY <1>1 DEF FormShape, OpenPageSound
<1>3. \A s \in sent' : RequestSound(s)'
  <2>1. r.visit <= form'.visit
    BY <1>1 DEF FormShape, PageStates
  <2>2. RequestSound(r)'
    <3>1. r.route = form'.route \/ r.route \notin Routes
      BY <1>1 DEF Routes
    <3> QED
      BY <2>1, <3>1 DEF RequestSound
  <2>3. \A s \in sent : RequestSound(s)'
    BY <1>1 DEF RequestSound
  <2> QED
    BY <2>2, <2>3
<1>4. \A s \in sent : ~SameButton(r, s)
  <2> SUFFICES ASSUME NEW s \in sent, s.visit = form.visit, r.route = "sync" <=> s.route = "sync"
               PROVE  FALSE
    BY DEF SameButton
  <2>1. s.route \in Routes \cup {"sync"}
    BY DEF FormShape, FormRequests
  <2>2. CASE s.route = "sync"
    BY <2>2 DEF BusyWhileUnderway, Underway, Routes, FormShape, PageStates
  <2>3. CASE s.route # "sync"
    <3>1. s \in Underway(Routes) /\ ~form.busy
      BY <2>1, <2>3 DEF Underway
    <3> QED
      BY <3>1 DEF BusyWhileUnderway
  <2> QED
    BY <2>2, <2>3
<1>5. OneEach'
  BY <1>4 DEF OneEach, SameButton
<1>6. SavedAsSubmitted' /\ ToastNamesSavedFeed'
  BY DEF SavedAsSubmitted, ToastNamesSavedFeed
<1>7. BusyWhileUnderway'
  <2>1. Underway(Routes)' = Underway(Routes) \cup (IF r.route # "sync" THEN {r} ELSE {})
    BY <1>1 DEF Underway, FormRequests, Routes
  <2>2. Underway({"sync"})' = Underway({"sync"}) \cup (IF r.route = "sync" THEN {r} ELSE {})
    BY <1>1 DEF Underway
  <2> QED
    BY <1>1, <2>1, <2>2 DEF BusyWhileUnderway
<1> QED
  BY <1>2, <1>3, <1>5, <1>6, <1>7

\* The server executes a request.
LEMMA ApplyStep == ASSUME FormsInv, NEW r \in sent, Apply(r) PROVE FormsInv'
<1> USE FormAssumption DEF FormsInv
<1> DEFINE a == [r EXCEPT !.applied = TRUE]
<1>1. /\ a \in FormRequests /\ a.visit = r.visit /\ a.route = r.route /\ a.guild = r.guild
      /\ a.text = r.text /\ a.applied = TRUE
  BY DEF FormShape, FormRequests
<1>2. sent' = (sent \ {r}) \cup {a} /\ UNCHANGED <<form, sends, secret, said>>
  BY DEF Apply
<1> HIDE DEF a
<1>3. CASE r.route = "feeds"
  <2>1. /\ records' = [records EXCEPT !.feeds = @ \cup {<<r.guild, r.text>>}]
    BY <1>3 DEF Apply
  <2>2. /\ records'.feeds = records.feeds \cup {<<r.guild, r.text>>}
        /\ records'.settings = records.settings /\ DOMAIN records' = {"feeds", "settings"}
    BY <2>1 DEF FormShape
  <2>3. RequestSound(r) /\ r.guild \in FormGuilds /\ r.text \in Texts
    BY <1>3 DEF RequestSound, FormShape, FormRequests
  <2>4. FormShape' /\ OpenPageSound'
    BY <1>1, <1>2, <2>2, <2>3 DEF FormShape, OpenPageSound
  <2>5. \A s \in sent' : RequestSound(s)'
    BY <1>1, <1>2, <1>3, <2>2, <2>3 DEF RequestSound
  <2>6. SavedAsSubmitted' /\ ToastNamesSavedFeed'
    BY <1>2, <1>3, <2>2, <2>3 DEF SavedAsSubmitted, ToastNamesSavedFeed, RequestSound, Routes
  <2>7. OneEach' /\ BusyWhileUnderway'
    BY <1>1, <1>2 DEF OneEach, SameButton, BusyWhileUnderway, Underway
  <2> QED
    BY <2>4, <2>5, <2>6, <2>7
<1>4. CASE r.route = "settings"
  <2>1. /\ records' = [records EXCEPT !.settings[r.guild] = r.text]
    BY <1>4 DEF Apply
  <2>2. /\ records'.feeds = records.feeds
        /\ records'.settings = [records.settings EXCEPT ![r.guild] = r.text]
        /\ DOMAIN records' = {"feeds", "settings"}
    BY <2>1 DEF FormShape
  <2>3. RequestSound(r) /\ r.guild \in FormGuilds /\ r.text \in Texts
    BY <1>4 DEF RequestSound, FormShape, FormRequests
  <2>4. FormShape' /\ OpenPageSound'
    BY <1>1, <1>2, <2>2, <2>3 DEF FormShape, OpenPageSound
  <2>5. \A s \in sent' : RequestSound(s)'
    BY <1>1, <1>2, <1>4, <2>2, <2>3 DEF RequestSound
  <2>6. SavedAsSubmitted' /\ ToastNamesSavedFeed'
    BY <1>2, <1>4, <2>2, <2>3
    DEF FormShape, SavedAsSubmitted, ToastNamesSavedFeed, RequestSound, Routes
  <2>7. OneEach' /\ BusyWhileUnderway'
    BY <1>1, <1>2 DEF OneEach, SameButton, BusyWhileUnderway, Underway
  <2> QED
    BY <2>4, <2>5, <2>6, <2>7
<1>5. CASE r.route \notin {"feeds", "settings"}
  <2>1. records' = records
    BY <1>5 DEF Apply
  <2>2. FormShape' /\ OpenPageSound'
    BY <1>1, <1>2, <2>1 DEF FormShape, OpenPageSound
  <2>3. \A s \in sent' : RequestSound(s)'
    BY <1>1, <1>2, <1>5, <2>1 DEF RequestSound
  <2>4. SavedAsSubmitted' /\ ToastNamesSavedFeed'
    BY <1>2, <2>1 DEF SavedAsSubmitted, ToastNamesSavedFeed
  <2>5. OneEach' /\ BusyWhileUnderway'
    BY <1>1, <1>2 DEF OneEach, SameButton, BusyWhileUnderway, Underway
  <2> QED
    BY <2>2, <2>3, <2>4, <2>5
<1> QED
  BY <1>3, <1>4, <1>5

\* The answer: the request is over, and frees the button of its own visit.
LEMMA AnswerStep ==
  ASSUME FormsInv, NEW r \in sent, sent' = sent \ {r}, UNCHANGED <<sends, records>>,
         form' \in PageStates, OpenPageSound', secret' \in Texts,
         form'.visit = form.visit, form'.route = form.route,
         form'.busy = Freed(r).busy, form'.syncing = Freed(r).syncing,
         DOMAIN said' = {"submitted", "saved"}, said'.submitted = said.submitted,
         said'.saved = said.saved \/ (r.applied /\ said'.saved = said.saved \cup {ToastOf(r)})
  PROVE  FormsInv'
<1> USE FormAssumption DEF FormsInv
<1>1. FormShape' /\ OneEach'
  BY DEF FormShape, OneEach, SameButton
<1>2. \A s \in sent' : RequestSound(s)'
  BY DEF RequestSound
<1>3. SavedAsSubmitted'
  BY DEF SavedAsSubmitted
<1>4. ToastNamesSavedFeed'
  <2>1. r.applied /\ r.route = "feeds" => <<r.guild, r.text>> \in records.feeds /\ r.guild \in FormGuilds
    BY DEF RequestSound
  <2>2. ToastOf(r)[1] = r.route /\ ToastOf(r)[2] = r.text
    BY DEF ToastOf
  <2>3. \A t \in said'.saved : t \in said.saved \/ (r.applied /\ t = ToastOf(r))
    OBVIOUS
  <2> QED
    BY <2>1, <2>2, <2>3 DEF ToastNamesSavedFeed
<1>5. BusyWhileUnderway'
  <2> SUFFICES ASSUME form.route # "elsewhere"
               PROVE  /\ form'.busy <=> Underway(Routes)' # {}
                      /\ form'.syncing <=> Underway({"sync"})' # {}
    BY DEF BusyWhileUnderway
  <2>1. \A R : Underway(R)' = Underway(R) \ {r}
    BY DEF Underway
  <2>2. CASE form.visit # r.visit
    <3>1. r \notin Underway(Routes) /\ r \notin Underway({"sync"})
      BY <2>2 DEF Underway
    <3> QED
      BY <2>1, <2>2, <3>1 DEF Freed, StillOpen, BusyWhileUnderway
  <2>3. CASE form.visit = r.visit /\ r.route = "sync"
    <3>1. Underway({"sync"}) \subseteq {r} /\ r \notin Underway(Routes)
      BY <2>3 DEF Underway, OneEach, SameButton, Routes
    <3> QED
      BY <2>1, <2>3, <3>1 DEF Freed, StillOpen, BusyWhileUnderway, FormShape, PageStates
  <2>4. CASE form.visit = r.visit /\ r.route # "sync"
    <3>1. Underway(Routes) \subseteq {r} /\ r \notin Underway({"sync"})
      BY <2>4 DEF Underway, OneEach, SameButton, Routes
    <3> QED
      BY <2>1, <2>4, <3>1 DEF Freed, StillOpen, BusyWhileUnderway, FormShape, PageStates
  <2> QED
    BY <2>2, <2>3, <2>4
<1> QED
  BY <1>1, <1>2, <1>3, <1>4, <1>5

\* Every step keeps the invariant.
LEMMA FormsStep == FormsInv /\ [FormNext]_formVars => FormsInv'
<1> SUFFICES ASSUME FormsInv, [FormNext]_formVars PROVE FormsInv'
  OBVIOUS
<1> USE FormAssumption DEF FormsInv
<1>1. ASSUME NEW route \in Routes, NEW g \in FormGuilds \cup {"none"}, Enter(route, g)
      PROVE  FormsInv'
  <2>1. /\ form' \in PageStates /\ form'.visit = form.visit + 1 /\ ~form'.busy /\ ~form'.syncing
        /\ form'.route = route /\ form'.guild = g
        /\ form'.unlocked => route = "console" /\ secret # Empty
    <3>1. form.visit + 1 \in 0..MaxMounts /\ Empty \in Texts /\ DefaultText \in Texts
      BY <1>1 DEF Enter, FormShape, PageStates
    <3> QED
      BY <1>1, <3>1 DEF Enter, FormShape, PageStates
  <2>2. OpenPageSound' /\ secret' \in Texts /\ form'.visit > form.visit
    BY <1>1, <2>1 DEF Enter, OpenPageSound, FormShape, PageStates
  <2> QED
    <3>1. UNCHANGED <<sent, sends, records, said>>
      BY <1>1 DEF Enter
    <3>2. form'.visit >= form.visit
      BY <2>1 DEF FormShape, PageStates
    <3> QED
      BY <2>1, <2>2, <3>1, <3>2, PageStep
<1>2. CASE Exit
  <2>1. form' \in PageStates /\ form'.visit = form.visit /\ form'.route = "elsewhere"
        /\ ~form'.unlocked
    BY <1>2 DEF Exit, FormShape, PageStates
  <2>2. OpenPageSound' /\ secret' \in Texts /\ form'.visit >= form.visit
    BY <1>2, <2>1 DEF Exit, OpenPageSound, FormShape, PageStates
  <2> QED
    BY <1>2, <2>1, <2>2, PageStep DEF Exit
<1>3. ASSUME \/ \E g \in FormGuilds : JumpTo(g)
             \/ \E text \in Texts : Edit(text)
             \/ resetForm \/ Debounced \/ handleLogout
      PROVE  FormsInv'
  <2>1. /\ form' \in PageStates /\ form'.visit = form.visit /\ form'.route = form.route
        /\ form'.busy = form.busy /\ form'.syncing = form.syncing
        /\ form'.guild = form.guild \/ form'.guild \in FormGuilds
        /\ form'.unlocked => form.unlocked /\ secret' = secret
        /\ form.route # "elsewhere" /\ secret' \in Texts
    <3>1. CASE \E g \in FormGuilds : JumpTo(g)
      BY <3>1 DEF JumpTo, FormShape, OpenPageSound, PageStates
    <3>2. CASE \E text \in Texts : Edit(text)
      BY <3>2 DEF Edit, FormShape, OpenPageSound, PageStates
    <3>3. CASE resetForm \/ Debounced
      BY <3>3 DEF resetForm, Debounced, FormShape, OpenPageSound, PageStates
    <3>4. CASE handleLogout
      BY <3>4 DEF handleLogout, clearAdminSecretKey, FormShape, OpenPageSound, PageStates
    <3> QED
      BY <1>3, <3>1, <3>2, <3>3, <3>4
  <2>2. UNCHANGED <<sent, sends, records, said>>
    BY <1>3 DEF JumpTo, Edit, resetForm, Debounced, handleLogout
  <2>3. OpenPageSound' /\ form'.visit >= form.visit
    BY <2>1 DEF OpenPageSound, FormShape, PageStates
  <2> QED
    BY <2>1, <2>2, <2>3, PageStep
<1>4. CASE handleSubmit
  <2>1. form.route \in Routes /\ form.visit \in 1..MaxMounts /\ sends + 1 \in 1..MaxSends
    BY <1>4 DEF handleSubmit, FormShape, PageStates, OpenPageSound
  <2>2. Asked \in Texts
    BY <1>4 DEF Asked, FormShape, FormRequests, PageStates
  <2> DEFINE r == [id |-> sends + 1, route |-> form.route, visit |-> form.visit,
                   guild |-> form.guild, text |-> form.text,
                   asks |-> Asked, applied |-> FALSE]
  <2>3. r \in FormRequests
    BY <2>1, <2>2 DEF FormShape, PageStates, FormRequests
  <2>4. /\ r.visit = form.visit /\ r.route = form.route /\ ~r.applied /\ r.guild = form.guild
        /\ r.text = form.text
    OBVIOUS
  <2>5. sent' = sent \cup {r}
    BY <1>4 DEF handleSubmit
  <2> HIDE DEF r
  <2>6. /\ DOMAIN said' = {"submitted", "saved"} /\ said'.saved = said.saved
        /\ said.submitted \subseteq said'.submitted
        /\ <<r.route, r.guild, r.text>> \in said'.submitted
    BY <1>4, <2>4 DEF handleSubmit, FormShape
  <2>7. /\ r.route \in {"feeds", "settings"} => r.guild \in FormGuilds
        /\ r.route \in {"feeds", "console"} => r.text \notin Blank
    BY <1>4, <2>4 DEF handleSubmit, OpenPageSound
  <2> QED
    <3>1. /\ ~form.busy /\ form' = [form EXCEPT !.busy = TRUE] /\ form.route # "elsewhere"
          /\ sends' \in 0..MaxSends /\ UNCHANGED <<records, secret>>
      BY <1>4, <2>1 DEF handleSubmit
    <3> QED
      BY <2>3, <2>4, <2>5, <2>6, <2>7, <3>1, SendStep
<1>5. CASE handleForceSync
  <2>1. form.route # "elsewhere" /\ form.visit \in 1..MaxMounts /\ sends + 1 \in 1..MaxSends
    BY <1>5 DEF handleForceSync, FormShape, PageStates, OpenPageSound
  <2> DEFINE r == [id |-> sends + 1, route |-> "sync", visit |-> form.visit,
                         guild |-> form.guild, text |-> secret,
                         asks |-> secret, applied |-> FALSE]
  <2>3. r \in FormRequests
    BY <2>1 DEF FormShape, PageStates, FormRequests
  <2>4. r.visit = form.visit /\ r.route = "sync" /\ ~r.applied /\ r.route \notin Routes
    BY DEF Routes
  <2>5. sent' = sent \cup {r}
    BY <1>5 DEF handleForceSync
  <2> HIDE DEF r
  <2>6. DOMAIN said' = {"submitted", "saved"} /\ said' = said
    BY <1>5 DEF handleForceSync, FormShape
  <2> QED
    <3>1. /\ ~form.syncing /\ form' = [form EXCEPT !.syncing = TRUE]
          /\ sends' \in 0..MaxSends /\ UNCHANGED <<records, secret>>
      BY <1>5, <2>1 DEF handleForceSync
    <3> QED
      BY <2>1, <2>3, <2>4, <2>5, <2>6, <3>1, SendStep DEF Routes
<1>6. ASSUME NEW r \in sent, Apply(r) PROVE FormsInv'
  BY <1>6, ApplyStep
<1>7. ASSUME NEW r \in sent
      PROVE  /\ Freed(r) \in PageStates /\ Freed(r).visit = form.visit
             /\ Freed(r).route = form.route /\ Freed(r).guild = form.guild
             /\ Freed(r).unlocked = form.unlocked
  BY <1>7 DEF Freed, FormShape, PageStates
<1>8. ASSUME NEW r \in sent, Succeeded(r) PROVE FormsInv'
  <2>1. OpenPageSound'
    BY <1>7, <1>8 DEF Succeeded, OpenPageSound
  <2>2. /\ DOMAIN said' = {"submitted", "saved"} /\ said'.submitted = said.submitted
        /\ said'.saved = said.saved \cup {ToastOf(r)}
    BY <1>8 DEF Succeeded, FormShape
  <2> QED
    BY <1>7, <1>8, <2>1, <2>2, AnswerStep DEF Succeeded, FormShape
<1>9. ASSUME NEW r \in sent, FailedToSend(r) PROVE FormsInv'
  <2>1. OpenPageSound'
    BY <1>7, <1>9 DEF FailedToSend, OpenPageSound
  <2> QED
    BY <1>7, <1>9, <2>1, AnswerStep DEF FailedToSend, FormShape
<1>10. ASSUME NEW r \in sent, AdminLoginGranted(r) PROVE FormsInv'
  <2> DEFINE freed == Freed(r)
  <2>0. /\ form' = [freed EXCEPT !.unlocked = @ \/ StillOpen(r)]
        /\ r.route = "console" /\ secret' = r.text
    BY <1>10 DEF AdminLoginGranted, setAdminSecretKey
  <2>1. /\ form' \in PageStates /\ form'.visit = form.visit /\ form'.route = form.route
        /\ form'.busy = freed.busy /\ form'.syncing = freed.syncing
        /\ form'.guild = form.guild
        /\ form'.unlocked => form.unlocked \/ StillOpen(r)
    BY <1>7, <2>0 DEF PageStates
  <2>2. secret' \in Texts /\ secret' # Empty
    BY <2>0 DEF RequestSound, Blank, FormShape, FormRequests
  <2>3. /\ DOMAIN said' = {"submitted", "saved"} /\ said'.submitted = said.submitted
        /\ said'.saved = said.saved \cup {ToastOf(r)}
    BY <1>10 DEF AdminLoginGranted, FormShape
  <2>4. OpenPageSound'
    <3>1. StillOpen(r) => form.route = "console"
      BY <2>0 DEF StillOpen, RequestSound, Routes
    <3> QED
      BY <2>1, <2>2, <3>1 DEF OpenPageSound
  <2> QED
    BY <1>10, <2>1, <2>2, <2>3, <2>4, AnswerStep DEF AdminLoginGranted
<1>11. CASE UNCHANGED formVars
  BY <1>11
  DEF formVars, FormShape, OpenPageSound, RequestSound, OneEach, SameButton,
      SavedAsSubmitted, BusyWhileUnderway, Underway, ToastNamesSavedFeed
<1> QED
  BY <1>1, <1>2, <1>3, <1>4, <1>5, <1>6, <1>8, <1>9, <1>10, <1>11 DEF FormNext

\* However pages open and close over their requests, what is saved is what was
\* submitted, a button is busy while its own request is under way, a toast names what
\* was saved, and the open console has its secret.
THEOREM FormsAlwaysTruthful == FormSpec => [](FormTypeOK /\ FormsTruthful)
<1>1. FormInit => FormsInv
  BY FormAssumption DEF FormInit, FormsInv, FormShape, PageStates, OpenPageSound, OneEach,
     SavedAsSubmitted, BusyWhileUnderway, Underway, ToastNamesSavedFeed
<1>2. FormsInv => FormTypeOK
  BY DEF FormsInv, FormShape, PageStates, FormRequests, FormTypeOK
<1>3. FormsInv => FormsTruthful
  BY DEF FormsInv, OpenPageSound, FormsTruthful, OpenConsoleHasSecret
<1> QED
  BY <1>1, <1>2, <1>3, FormsStep, PTL DEF FormSpec

-----------------------------------------------------------------------------
(* Drawer, dialogs, confirmations and toasts, for any number of each.       *)

\* The stacks of open surfaces, and the states of the document.
Opens ==
  {<<>>, <<"drawer">>, <<"dialog">>, <<"drawer", "dialog">>, <<"dialog", "drawer">>}
Overflows == {"unset", "hidden"}
Documents ==
  [open : Opens, overflow : Overflows, focus : Places,
   before : [Surfaces -> Overflows], returnTo : [Surfaces -> Places],
   orderly : BOOLEAN, kept : BOOLEAN]

\* No surface opens but from the page, so each gives the focus back to the page, and a
\* second one opens only after the focus has left the first.
FocusSound(d) ==
  /\ \A s \in Surfaces : d.returnTo[s] = "page"
  /\ d.open = <<>> => d.focus = "page" /\ d.kept
  /\ d.open # <<>> /\ d.kept => Len(d.open) = 1 /\ d.focus = d.open[1]

\* In order, the surface below noted an unlocked page and the one above a locked one.
LockSound(d) ==
  d.orderly =>
    /\ d.overflow = "hidden" <=> d.open # <<>>
    /\ \A i \in 1..Len(d.open) :
         d.before[d.open[i]] = IF i = 1 THEN "unset" ELSE "hidden"

\* What is kept about the document.
DocumentInv == dom \in Documents /\ FocusSound(dom) /\ LockSound(dom)

\* The open surfaces are a sequence of one or two, or none.
LEMMA OpenSequence ==
  ASSUME NEW o \in Opens
  PROVE  o \in Seq(Surfaces) /\ Len(o) \in 0..2
<1>1. "drawer" \in Surfaces /\ "dialog" \in Surfaces
  BY DEF Surfaces
<1>2. \A a, b \in Surfaces : <<a>> \in Seq(Surfaces) /\ <<a, b>> \in Seq(Surfaces)
  OBVIOUS
<1>3. <<>> \in Seq(Surfaces)
  OBVIOUS
<1>4. o \in Seq(Surfaces)
  BY <1>1, <1>2, <1>3 DEF Opens
<1>5. Len(o) \in 0..2
  BY DEF Opens
<1> QED
  BY <1>4, <1>5

\* What is left of the open surfaces when one of them closes.
LEMMA ClosedOpen ==
  ASSUME NEW s, NEW t, s # t
  PROVE  /\ RemoveFirst(<<s>>, s) = <<>>
         /\ RemoveFirst(<<s, t>>, s) = <<t>>
         /\ RemoveFirst(<<t, s>>, s) = <<t>>
<1> DEFINE S == {s, t}
<1>1. RemoveFirst(<<s>>, s) = <<>>
  <2> DEFINE o == <<s>>
  <2>1. o \in Seq(S) /\ Len(o) = 1 /\ o[1] = s
    OBVIOUS
  <2> HIDE DEF o, S
  <2>2. PICK p \in 1..Len(o) : o[p] = s /\ RemoveFirst(o, s) = RemoveAt(o, p)
    BY <2>1, RemovedFirst
  <2>3. RemoveAt(o, p) \in Seq(S) /\ Len(RemoveAt(o, p)) = 0
    <3>1. /\ RemoveAt(o, p) \in Seq(S) /\ Len(RemoveAt(o, p)) = Len(o) - 1
      BY <2>1, RemovedAt
    <3> QED
      BY <2>1, <3>1
  <2> DEFINE r == RemoveAt(o, p)
  <2> HIDE DEF r
  <2>4. r = <<>>
    BY <2>3 DEF r
  <2> QED
    BY <2>2, <2>4 DEF o, r
<1>2. ASSUME NEW o \in Seq(S), Len(o) = 2, NEW q \in {1, 2}, o[q] = s, o[3 - q] = t
      PROVE  RemoveFirst(o, s) = <<t>>
  <2>1. PICK p \in 1..Len(o) : o[p] = s /\ RemoveFirst(o, s) = RemoveAt(o, p)
    BY <1>2, RemovedFirst
  <2>2. p = q
    BY <1>2, <2>1
  <2> DEFINE r == RemoveAt(o, p)
  <2> HIDE DEF S
  <2>3. /\ r \in Seq(S) /\ Len(r) = 1
        /\ \A j \in 1..1 : r[j] = IF j < p THEN o[j] ELSE o[j + 1]
    <3>1. /\ r \in Seq(S) /\ Len(r) = Len(o) - 1
          /\ \A j \in 1..(Len(o) - 1) : r[j] = IF j < p THEN o[j] ELSE o[j + 1]
      BY <1>2, RemovedAt
    <3>2. Len(o) - 1 = 1
      BY <1>2
    <3> HIDE DEF r
    <3> QED
      BY <3>1, <3>2
  <2> HIDE DEF r
  <2>4. r[1] = t
    BY <1>2, <2>2, <2>3
  <2>5. r = <<t>>
    BY <2>3, <2>4
  <2> QED
    BY <2>1, <2>5 DEF r
<1>3. RemoveFirst(<<s, t>>, s) = <<t>>
  <2> DEFINE o == <<s, t>>
  <2>1. o \in Seq(S) /\ Len(o) = 2 /\ o[1] = s /\ o[3 - 1] = t
    OBVIOUS
  <2> HIDE DEF o
  <2>2. RemoveFirst(o, s) = <<t>>
    BY <1>2, <2>1
  <2> QED
    BY <2>2 DEF o
<1>4. RemoveFirst(<<t, s>>, s) = <<t>>
  <2> DEFINE o == <<t, s>>
  <2>1. o \in Seq(S) /\ Len(o) = 2 /\ o[2] = s /\ o[3 - 2] = t
    OBVIOUS
  <2> HIDE DEF o
  <2>2. RemoveFirst(o, s) = <<t>>
    BY <1>2, <2>1
  <2> QED
    BY <2>2 DEF o
<1> QED
  BY <1>1, <1>3, <1>4

\* A surface is open in a document.
OpenIn(d, s) == \E i \in DOMAIN d.open : d.open[i] = s

\* A surface that is open is the only one, the upper or the lower of two.
LEMMA OpenCases ==
  ASSUME NEW d \in Documents, NEW s \in Surfaces
  PROVE  /\ OpenIn(d, s) =>
              \E t \in Surfaces \ {s} : d.open = <<s>> \/ d.open = <<s, t>> \/ d.open = <<t, s>>
         /\ ~OpenIn(d, s) => \E t \in Surfaces \ {s} : d.open = <<>> \/ d.open = <<t>>
<1> DEFINE o == d.open
<1>1. o \in Opens
  BY DEF Documents
<1>2. o = <<>> => DOMAIN o = {}
  OBVIOUS
<1>3. \A a : o = <<a>> => DOMAIN o = {1} /\ o[1] = a
  OBVIOUS
<1>4. \A a, b : o = <<a, b>> => DOMAIN o = {1, 2} /\ o[1] = a /\ o[2] = b
  OBVIOUS
<1> HIDE DEF o
<1>5. \A r \in Opens : o = r => 
        /\ (\E i \in DOMAIN o : o[i] = s) =>
              \E t \in Surfaces \ {s} : o = <<s>> \/ o = <<s, t>> \/ o = <<t, s>>
        /\ ~(\E i \in DOMAIN o : o[i] = s) => \E t \in Surfaces \ {s} : o = <<>> \/ o = <<t>>
  <2>1. CASE o = <<>>
    BY <2>1, <1>2 DEF Surfaces
  <2>2. ASSUME NEW a \in Surfaces, o = <<a>>
        PROVE /\ (\E i \in DOMAIN o : o[i] = s) => o = <<s>>
              /\ ~(\E i \in DOMAIN o : o[i] = s) => a # s
    BY <2>2, <1>3
  <2>3. ASSUME NEW a \in Surfaces, NEW b \in Surfaces, a # b, o = <<a, b>>
        PROVE s \in {a, b} /\ \E i \in DOMAIN o : o[i] = s
    BY <2>3, <1>4 DEF Surfaces
  <2>4. \E t \in Surfaces : t # s
    BY DEF Surfaces
  <2>5. o = <<>> \/ (\E a \in Surfaces : o = <<a>>)
         \/ \E a, b \in Surfaces : a # b /\ o = <<a, b>>
    BY <1>1 DEF Opens, Surfaces
  <2> QED
    BY <2>1, <2>2, <2>3, <2>4, <2>5
<1> QED
  BY <1>1, <1>5 DEF OpenIn, o

\* A surface that opens from the page.
LEMMA OpeningSound ==
  ASSUME NEW d \in Documents, FocusSound(d), LockSound(d), NEW s \in Surfaces,
         ~OpenIn(d, s), d.open = <<>> \/ d.focus = "page"
  PROVE  /\ Opening(d, s) \in Documents /\ FocusSound(Opening(d, s))
         /\ LockSound(Opening(d, s)) /\ OpenIn(Opening(d, s), s)
         /\ \A t \in Surfaces \ {s} : OpenIn(Opening(d, s), t) <=> OpenIn(d, t)
<1> DEFINE e == Opening(d, s)
<1>0. s # "page" /\ d.focus = "page"
  BY DEF FocusSound, Surfaces
<1>1. /\ e.open = Append(d.open, s) /\ e.focus = s /\ e.overflow = "hidden"
      /\ e.returnTo = [d.returnTo EXCEPT ![s] = d.focus]
      /\ e.before = [d.before EXCEPT ![s] = d.overflow]
      /\ e.orderly = d.orderly /\ e.kept = d.kept
  BY DEF Opening, Documents
<1>2. PICK t \in Surfaces \ {s} : d.open = <<>> \/ d.open = <<t>>
  BY OpenCases
<1>3. e.open = (IF d.open = <<>> THEN <<s>> ELSE <<t, s>>)
  BY <1>1, <1>2
<1>4. e.open \in Opens
  BY <1>2, <1>3 DEF Opens, Surfaces
<1>5. e \in Documents
  BY <1>1, <1>4 DEF Opening, Documents, Overflows, Places
<1> HIDE DEF e
<1>6. FocusSound(e)
  <2>1. \A u \in Surfaces : e.returnTo[u] = "page"
    BY <1>0, <1>1 DEF FocusSound, Documents
  <2>2. e.open # <<>>
    BY <1>3
  <2>3. e.kept => d.open = <<>>
    BY <1>0, <1>1, <1>2 DEF FocusSound, Surfaces
  <2>4. d.open = <<>> => Len(e.open) = 1 /\ e.open[1] = s
    BY <1>3
  <2> QED
    BY <1>1, <2>1, <2>2, <2>3, <2>4 DEF FocusSound
<1>7. LockSound(e)
  <2> SUFFICES ASSUME e.orderly PROVE
        /\ e.overflow = "hidden" <=> e.open # <<>>
        /\ \A i \in 1..Len(e.open) : e.before[e.open[i]] = IF i = 1 THEN "unset" ELSE "hidden"
    BY DEF LockSound
  <2>1. e.open # <<>>
    BY <1>3
  <2>2. CASE d.open = <<>>
    <3>1. d.overflow = "unset"
      BY <1>1, <2>2 DEF LockSound, Documents, Overflows
    <3>2. e.open = <<s>> /\ e.before[s] = "unset"
      BY <1>1, <1>3, <2>2, <3>1 DEF Documents
    <3> QED
      BY <1>1, <2>1, <3>2
  <2>3. CASE d.open = <<t>>
    <3>1. d.overflow = "hidden" /\ d.before[t] = "unset"
      BY <1>1, <2>3 DEF LockSound
    <3>2. e.open = <<t, s>> /\ e.before[s] = "hidden" /\ e.before[t] = "unset"
      BY <1>1, <1>2, <1>3, <2>3, <3>1 DEF Documents
    <3> QED
      BY <1>1, <2>1, <3>2
  <2> QED
    BY <1>2, <2>2, <2>3
<1>8. OpenIn(e, s) /\ \A u \in Surfaces \ {s} : OpenIn(e, u) <=> OpenIn(d, u)
  <2>1. CASE d.open = <<>>
    BY <1>3, <2>1 DEF OpenIn
  <2>2. CASE d.open = <<t>>
    BY <1>3, <2>2 DEF OpenIn
  <2> QED
    BY <1>2, <2>1, <2>2
<1> QED
  BY <1>5, <1>6, <1>7, <1>8 DEF e

\* A surface that closes.
LEMMA ClosingSound ==
  ASSUME NEW d \in Documents, FocusSound(d), LockSound(d), NEW s \in Surfaces, OpenIn(d, s)
  PROVE  /\ Closing(d, s) \in Documents /\ FocusSound(Closing(d, s))
         /\ LockSound(Closing(d, s)) /\ ~OpenIn(Closing(d, s), s)
         /\ \A t \in Surfaces \ {s} : OpenIn(Closing(d, s), t) <=> OpenIn(d, t)
<1> DEFINE e == Closing(d, s)
           left == RemoveFirst(d.open, s)
<1>1. PICK t \in Surfaces \ {s} : d.open = <<s>> \/ d.open = <<s, t>> \/ d.open = <<t, s>>
  BY OpenCases
<1>2. left = IF d.open = <<s>> THEN <<>> ELSE <<t>>
  <2>1. RemoveFirst(<<s>>, s) = <<>> /\ RemoveFirst(<<s, t>>, s) = <<t>>
        /\ RemoveFirst(<<t, s>>, s) = <<t>>
    BY ClosedOpen
  <2>2. <<s, t>> # <<s>> /\ <<t, s>> # <<s>>
    OBVIOUS
  <2> QED
    BY <1>1, <2>1, <2>2
<1>3. left \in Opens
  BY <1>2 DEF Opens, Surfaces
<1> HIDE DEF left
<1>4. d.returnTo[s] = "page"
  BY DEF FocusSound
<1>5. /\ e.open = left /\ e.overflow = d.before[s] /\ e.focus = "page"
      /\ e.orderly = (d.orderly /\ Last(d.open) = s)
      /\ e.kept = (left = <<>> \/ d.kept)
      /\ e.before = d.before /\ e.returnTo = d.returnTo
  BY <1>4 DEF Closing, Documents, left
<1>6. e \in Documents
  <2>1. e = [d EXCEPT !.open = left, !.overflow = d.before[s], !.focus = "page",
                      !.orderly = d.orderly /\ Last(d.open) = s,
                      !.kept = left = <<>> \/ d.kept]
    BY <1>4 DEF Closing, Documents, left
  <2>2. d.before[s] \in Overflows /\ "page" \in Places
    BY DEF Documents, Places
  <2> DEFINE k == left = <<>> \/ d.kept
             y == d.orderly /\ Last(d.open) = s
  <2>3. k \in BOOLEAN /\ y \in BOOLEAN
    OBVIOUS
  <2> HIDE DEF k, y
  <2>4. [d EXCEPT !.open = left, !.overflow = d.before[s], !.focus = "page",
                  !.orderly = y, !.kept = k] \in Documents
    BY <1>3, <2>2, <2>3 DEF Documents
  <2> QED
    BY <2>1, <2>4 DEF k, y
<1> HIDE DEF e
<1>7. FocusSound(e)
  <2>1. ~(d.open = <<s>>) => ~d.kept
    BY <1>1 DEF FocusSound
  <2> QED
    BY <1>2, <1>5, <2>1 DEF FocusSound
<1>8. LockSound(e)
  <2> SUFFICES ASSUME e.orderly PROVE
        /\ e.overflow = "hidden" <=> e.open # <<>>
        /\ \A i \in 1..Len(e.open) : e.before[e.open[i]] = IF i = 1 THEN "unset" ELSE "hidden"
    BY DEF LockSound
  <2>1. d.orderly /\ Last(d.open) = s
    BY <1>5
  <2>2. CASE d.open = <<s>>
    <3>1. d.before[s] = "unset" /\ left = <<>>
      BY <1>2, <2>1, <2>2 DEF LockSound
    <3> QED
      BY <1>5, <3>1
  <2>3. CASE d.open = <<t, s>>
    <3>1. d.before[s] = "hidden" /\ d.before[t] = "unset"
      BY <2>1, <2>3 DEF LockSound
    <3>2. left = <<t>>
      BY <1>2, <2>3
    <3> QED
      BY <1>5, <3>1, <3>2
  <2>4. d.open # <<s, t>>
    <3>1. Last(<<s, t>>) = t
      BY DEF Last
    <3> QED
      BY <2>1, <3>1
  <2> QED
    BY <1>1, <2>2, <2>3, <2>4
<1>9. ~OpenIn(e, s) /\ \A u \in Surfaces \ {s} : OpenIn(e, u) <=> OpenIn(d, u)
  <2>0. \A u \in Surfaces \ {s} : u = t
    BY DEF Surfaces
  <2>1. CASE d.open = <<s>>
    BY <1>2, <1>5, <2>1 DEF OpenIn
  <2>2. CASE d.open = <<s, t>> \/ d.open = <<t, s>>
    <3>1. e.open = <<t>> /\ ~OpenIn(e, s) /\ OpenIn(e, t)
      <4>1. e.open = <<t>>
        <5>1. <<s, t>> # <<s>> /\ <<t, s>> # <<s>>
          OBVIOUS
        <5> QED
          BY <1>2, <1>5, <2>2, <5>1
      <4> QED
        BY <4>1 DEF OpenIn
    <3>2. OpenIn(d, t)
      BY <2>2 DEF OpenIn
    <3> QED
      BY <2>0, <3>1, <3>2
  <2> QED
    BY <1>1, <2>1, <2>2
<1> QED
  BY <1>6, <1>7, <1>8, <1>9 DEF e

\* A commit that reruns the effects of surfaces that stay open.
LEMMA RerunningSound ==
  ASSUME NEW d \in Documents, FocusSound(d), LockSound(d), NEW which \in SUBSET Surfaces,
         which # {}, \A s \in which : OpenIn(d, s)
  PROVE  /\ Rerunning(d, which) \in Documents /\ FocusSound(Rerunning(d, which))
         /\ LockSound(Rerunning(d, which))
         /\ \A s \in Surfaces : OpenIn(Rerunning(d, which), s) <=> OpenIn(d, s)
<1> DEFINE e == Rerunning(d, which)
           f == IF "drawer" \in which THEN "drawer" ELSE "dialog"
           l == IF "dialog" \in which THEN "dialog" ELSE "drawer"
           noted == [s \in Surfaces |-> IF s \notin which THEN d.before[s]
                                        ELSE IF s = f THEN d.before[l] ELSE "hidden"]
           y == d.orderly /\ f = l
<1>1. f \in Surfaces /\ l \in Surfaces /\ (f = l => which = {f})
  BY DEF Surfaces
<1>2. e = [d EXCEPT !.before = noted, !.overflow = "hidden", !.orderly = y]
  BY DEF Rerunning, Documents
<1>3. noted \in [Surfaces -> Overflows]
  BY <1>1 DEF Documents, Overflows
<1>4. y \in BOOLEAN
  OBVIOUS
<1>5. f = l => noted = d.before
  <2>1. f = l => \A s \in Surfaces : noted[s] = d.before[s]
    BY <1>1
  <2>2. d.before \in [Surfaces -> Overflows]
    BY DEF Documents
  <2> HIDE DEF noted
  <2> QED
    BY <1>3, <2>1, <2>2
<1> HIDE DEF e, noted, y
<1>6. e \in Documents
  BY <1>2, <1>3, <1>4 DEF Documents, Overflows
<1>7. /\ e.open = d.open /\ e.focus = d.focus /\ e.kept = d.kept /\ e.returnTo = d.returnTo
      /\ e.before = noted /\ e.overflow = "hidden" /\ e.orderly = y
  BY <1>2 DEF Documents
<1>8. FocusSound(e)
  BY <1>7 DEF FocusSound
<1>9. LockSound(e)
  <2> SUFFICES ASSUME e.orderly PROVE
        /\ e.overflow = "hidden" <=> e.open # <<>>
        /\ \A i \in 1..Len(e.open) : e.before[e.open[i]] = IF i = 1 THEN "unset" ELSE "hidden"
    BY DEF LockSound
  <2>1. d.orderly /\ e.before = d.before
    BY <1>5, <1>7 DEF y
  <2>2. d.open # <<>>
    BY DEF OpenIn
  <2> QED
    BY <1>7, <2>1, <2>2 DEF LockSound
<1> QED
  BY <1>6, <1>7, <1>8, <1>9 DEF e, OpenIn

\* The states of the confirmation, and what is kept about it.
Asks ==
  [asked : 0..MaxQuestions, current : 0..MaxQuestions,
   answer : [Questions -> {"unasked", "waiting", "yes", "no"}]]
QuestionInv == question \in Asks /\ EveryQuestionAnswered

\* Surfaces that open, close or rerun other than the dialog leave the questions alone.
LEMMA SameQuestion ==
  ASSUME QuestionInv, UNCHANGED question, OpenIn(dom', "dialog") <=> OpenIn(dom, "dialog")
  PROVE  QuestionInv'
BY DEF QuestionInv, EveryQuestionAnswered, IsOpen, OpenIn

\* A new question takes the dialog over.
LEMMA AskedSound ==
  ASSUME QuestionInv, question.asked < MaxQuestions, OpenIn(dom', "dialog"),
         question' = [question EXCEPT !.asked = question.asked + 1,
                                      !.current = question.asked + 1,
                                      !.answer[question.asked + 1] = "waiting"]
  PROVE  QuestionInv'
<1> DEFINE n == question.asked
           a == question.answer
           b == [a EXCEPT ![n + 1] = "waiting"]
<1>1. n \in 0..MaxQuestions /\ MaxQuestions \in Nat /\ n + 1 \in Questions /\ n + 1 # 0
  BY OverlayAssumption DEF QuestionInv, Asks, Questions
<1>2. /\ question'.asked = n + 1 /\ question'.current = n + 1 /\ question'.answer = b
      /\ question' = [question EXCEPT !.asked = n + 1, !.current = n + 1, !.answer = b]
  BY DEF QuestionInv, Asks
<1>3. a \in [Questions -> {"unasked", "waiting", "yes", "no"}]
  BY DEF QuestionInv, Asks
<1> HIDE DEF n, a
<1>4. b \in [Questions -> {"unasked", "waiting", "yes", "no"}]
      /\ \A q \in Questions : q # n + 1 => b[q] = a[q]
  BY <1>1, <1>3
<1>5. question' \in Asks
  <2>1. n + 1 \in 0..MaxQuestions
    BY <1>1 DEF Questions
  <2> HIDE DEF b
  <2> QED
    BY <1>2, <1>4, <2>1 DEF QuestionInv, Asks
<1>6. ASSUME NEW q \in Questions, b[q] = "waiting" PROVE q = n + 1 \/ q < n + 1
  <2>1. q # n + 1 => a[q] = "waiting"
    BY <1>4, <1>6
  <2>2. a[q] = "waiting" => q = n \/ q < n
    BY <1>1 DEF QuestionInv, EveryQuestionAnswered, Questions, n, a
  <2>3. q \in Nat
    BY <1>1 DEF Questions
  <2> QED
    BY <1>1, <2>1, <2>2, <2>3
<1> HIDE DEF b
<1>7. EveryQuestionAnswered'
  BY <1>1, <1>2, <1>6 DEF EveryQuestionAnswered, IsOpen, OpenIn
<1> QED
  BY <1>5, <1>7 DEF QuestionInv

\* An answer closes the dialog.
LEMMA ResolvedSound ==
  ASSUME QuestionInv, NEW value \in {"yes", "no"}, handleConfirmResolve(value),
         ~OpenIn(dom', "dialog")
  PROVE  QuestionInv'
<1> DEFINE c == question.current
           a == question.answer
           b == [a EXCEPT ![c] = value]
<1>1. c = question.asked /\ c \in Questions /\ c # 0
  BY OverlayAssumption
  DEF QuestionInv, Asks, Questions, handleConfirmResolve, EveryQuestionAnswered
<1>2. /\ question'.asked = question.asked /\ question'.current = 0 /\ question'.answer = b
      /\ question' = [question EXCEPT !.current = 0, !.answer = b]
  BY DEF QuestionInv, Asks, handleConfirmResolve
<1>3. a \in [Questions -> {"unasked", "waiting", "yes", "no"}]
  BY DEF QuestionInv, Asks
<1>4. question' \in Asks
  <2>1. b \in [Questions -> {"unasked", "waiting", "yes", "no"}] /\ 0 \in 0..MaxQuestions
    BY <1>1, <1>3, OverlayAssumption
  <2> HIDE DEF b
  <2> QED
    BY <1>2, <2>1 DEF QuestionInv, Asks
<1>5. b[c] # "waiting"
  BY <1>1, <1>3
<1>6. ASSUME NEW q \in Questions, b[q] = "waiting" PROVE q < question.asked
  <2>1. q # c /\ a[q] = "waiting"
    BY <1>1, <1>3, <1>5, <1>6
  <2> QED
    BY <1>1, <2>1 DEF QuestionInv, EveryQuestionAnswered
<1> HIDE DEF b
<1>7. EveryQuestionAnswered'
  BY <1>1, <1>2, <1>5, <1>6 DEF EveryQuestionAnswered, IsOpen, OpenIn
<1> QED
  BY <1>4, <1>7 DEF QuestionInv

\* Toasts stand in the order in which they were shown, so that one has at least as many
\* newer ones as stand behind it.
InOrderShown(ts) ==
  \A i, j \in 1..Len(ts) : i <= j => ts[i] + (j - i) <= ts[j]
\* The toasts are those notified, in that order, and no more than fit.
ToastInv ==
  /\ toasts \in Seq(1..MaxToasts) /\ Len(toasts) <= KeptOnShow + 1
  /\ shown \in 0..MaxToasts /\ removed \subseteq 1..MaxToasts
  /\ \A i \in 1..Len(toasts) : toasts[i] <= shown
  /\ InOrderShown(toasts) /\ NewestToastsShown

\* One more toast behind those that stay.
LEMMA NotifySound ==
  ASSUME ToastInv, Notify
  PROVE  ToastInv'
<1> DEFINE n == Len(toasts)
           g == IF n <= KeptOnShow THEN 0 ELSE n - KeptOnShow
           kept == IF n <= KeptOnShow THEN toasts
                   ELSE SubSeq(toasts, n - KeptOnShow + 1, n)
           new == Append(kept, shown + 1)
<1>1. /\ n \in Nat /\ KeptOnShow \in Nat /\ shown \in Nat /\ MaxToasts \in Nat
      /\ n <= KeptOnShow + 1 /\ shown < MaxToasts
      /\ toasts \in Seq(1..MaxToasts)
  BY OverlayAssumption DEF ToastInv, Notify
<1>2. toasts' = new /\ shown' = shown + 1 /\ removed' = removed
  BY DEF Notify, show
<1>3. g \in 0..n /\ n - g <= KeptOnShow
  BY <1>1
<1>4. /\ kept \in Seq(1..MaxToasts) /\ Len(kept) = n - g
      /\ \A i \in 1..(n - g) : kept[i] = toasts[g + i]
  <2>1. CASE n <= KeptOnShow
    BY <1>1, <2>1
  <2>2. CASE ~(n <= KeptOnShow)
    <3> DEFINE a == n - KeptOnShow + 1
    <3>1. a \in 1..(n + 1) /\ g = a - 1 /\ g \in Nat
      BY <1>1, <2>2
    <3>2. kept = SubSeq(toasts, a, n)
      BY <2>2
    <3> HIDE DEF a, g, kept
    <3>3. /\ SubSeq(toasts, a, n) \in Seq(1..MaxToasts) /\ Len(SubSeq(toasts, a, n)) = n - a + 1
          /\ \A i \in 1..(n - a + 1) : SubSeq(toasts, a, n)[i] = toasts[a + i - 1]
      BY <1>1, <3>1, EndingFrom
    <3>4. n - a + 1 = n - g /\ \A i \in 1..(n - g) : a + i - 1 = g + i
      <4>1. n \in Nat /\ a \in Nat /\ g \in Nat /\ g = a - 1
        BY <1>1, <3>1
      <4> HIDE DEF n
      <4> QED
        BY <4>1
    <3> QED
      BY <3>2, <3>3, <3>4
  <2> QED
    BY <2>1, <2>2
<1> HIDE DEF kept, g
<1>5. /\ new \in Seq(1..MaxToasts) /\ Len(new) = n - g + 1
      /\ \A i \in 1..(n - g) : new[i] = toasts[g + i]
      /\ new[n - g + 1] = shown + 1
  <2>1. shown + 1 \in 1..MaxToasts
    BY <1>1
  <2> HIDE DEF n
  <2> QED
    BY <1>1, <1>3, <1>4, <2>1
<1> HIDE DEF new
<1>6. \A i \in 1..n : toasts[i] \in Nat /\ toasts[i] <= shown
  BY <1>1 DEF ToastInv
<1>7. Len(new) <= KeptOnShow + 1
  BY <1>1, <1>3, <1>5
<1>8. \A i \in 1..Len(new) : new[i] <= shown + 1
  <2> SUFFICES ASSUME NEW i \in 1..(n - g + 1) PROVE new[i] <= shown + 1
    BY <1>5
  <2>1. CASE i = n - g + 1
    BY <1>1, <1>5, <2>1
  <2>2. CASE i \in 1..(n - g)
    <3>1. g + i \in 1..n
      BY <1>1, <1>3, <2>2
    <3>2. new[i] = toasts[g + i] /\ toasts[g + i] \in Nat /\ toasts[g + i] <= shown
      BY <1>5, <1>6, <2>2, <3>1
    <3> QED
      BY <1>1, <3>2
  <2> QED
    BY <1>1, <1>3, <2>1, <2>2
<1>9. InOrderShown(new)
  <2> SUFFICES ASSUME NEW i \in 1..(n - g + 1), NEW j \in 1..(n - g + 1), i <= j
               PROVE  new[i] + (j - i) <= new[j]
    BY <1>5 DEF InOrderShown
  <2>0. i \in Nat /\ j \in Nat /\ n - g \in Nat /\ g \in Nat
    BY <1>1, <1>3
  <2>1. CASE j \in 1..(n - g)
    <3>1. g + i \in 1..n /\ g + j \in 1..n /\ g + i <= g + j /\ i \in 1..(n - g)
      BY <1>1, <1>3, <2>0, <2>1
    <3>2. toasts[g + i] + ((g + j) - (g + i)) <= toasts[g + j]
      BY <3>1 DEF ToastInv, InOrderShown
    <3>3. (g + j) - (g + i) = j - i
      BY <2>0
    <3> QED
      BY <1>5, <2>1, <3>1, <3>2, <3>3
  <2>2. CASE j = n - g + 1 /\ i \in 1..(n - g)
    <3>1. g + i \in 1..n /\ n \in 1..n /\ g + i <= n
      BY <1>1, <1>3, <2>0, <2>2
    <3>2. toasts[g + i] + (n - (g + i)) <= toasts[n]
      BY <3>1 DEF ToastInv, InOrderShown
    <3>3. toasts[n] <= shown /\ toasts[n] \in Nat /\ toasts[g + i] \in Nat
      BY <1>6, <3>1
    <3>4. new[i] = toasts[g + i] /\ new[j] = shown + 1
      BY <1>5, <2>2
    <3> DEFINE u == toasts[g + i]
               w == toasts[n]
    <3> HIDE DEF u, w
    <3>5. u + (n - (g + i)) <= w /\ w <= shown /\ u \in Nat /\ w \in Nat
      BY <3>2, <3>3 DEF u, w
    <3>6. u + (j - i) <= shown + 1
      BY <1>1, <2>0, <2>2, <3>5
    <3> QED
      BY <3>4, <3>6 DEF u
  <2>3. CASE i = n - g + 1
    <3>1. j = i
      BY <2>0, <2>3
    <3> QED
      BY <1>1, <1>5, <2>0, <2>3, <3>1
  <2> QED
    BY <2>0, <2>1, <2>2, <2>3
<1>10. ASSUME NEW id \in 1..(shown + 1)
       PROVE  id \in Range(new) \cup removed \/ shown + 1 - id > KeptOnShow
  <2>0. id \in Nat
    BY <1>1
  <2>1. \A i \in 1..(n - g + 1) : new[i] \in Range(new)
    BY <1>5 DEF Range
  <2>2. CASE id = shown + 1
    BY <1>1, <1>3, <1>5, <2>1, <2>2
  <2>3. CASE id \in 1..shown
    <3>1. CASE id \in removed
      BY <3>1
    <3>2. CASE shown - id > KeptOnShow
      BY <1>1, <2>0, <3>2
    <3>3. ASSUME id \in Range(toasts)
          PROVE  id \in Range(new) \/ shown + 1 - id > KeptOnShow
      <4>1. PICK i \in 1..n : toasts[i] = id
        BY <1>1, <3>3 DEF Range
      <4>2. CASE i > g
        <5>1. i - g \in 1..(n - g) /\ g + (i - g) = i
          BY <1>1, <1>3, <4>2
        <5>2. new[i - g] = id
          BY <1>5, <4>1, <5>1
        <5>3. i - g \in 1..(n - g + 1)
          BY <1>1, <1>3, <5>1
        <5> QED
          BY <2>1, <5>2, <5>3
      <4>3. CASE ~(i > g)
        <5>1. i \in Nat /\ g = n - KeptOnShow /\ i <= g /\ n \in 1..n /\ i <= n
          BY <1>1, <1>3, <4>3 DEF g
        <5>2. id + (n - i) <= toasts[n] /\ toasts[n] <= shown /\ toasts[n] \in Nat
          BY <1>6, <4>1, <5>1 DEF ToastInv, InOrderShown
        <5> DEFINE w == toasts[n]
        <5> HIDE DEF w
        <5>3. id + (n - i) <= w /\ w <= shown /\ w \in Nat
          BY <5>2 DEF w
        <5>4. shown + 1 - id > KeptOnShow
          BY <1>1, <2>0, <5>1, <5>3
        <5> QED
          BY <5>4
      <4> QED
        BY <4>2, <4>3
    <3> QED
      BY <2>3, <3>1, <3>2, <3>3 DEF ToastInv, NewestToastsShown
  <2> QED
    BY <1>1, <2>0, <2>2, <2>3
<1>11. shown + 1 \in 0..MaxToasts
  BY <1>1
<1>12. removed \subseteq 1..MaxToasts
  BY DEF ToastInv
<1> QED
  BY <1>2, <1>5, <1>7, <1>8, <1>9, <1>10, <1>11, <1>12 DEF ToastInv, NewestToastsShown

\* One toast fewer.
LEMMA DismissSound ==
  ASSUME ToastInv, NEW id \in 1..MaxToasts, Dismiss(id)
  PROVE  ToastInv'
<1> DEFINE n == Len(toasts)
<1>1. /\ n \in Nat /\ KeptOnShow \in Nat /\ n <= KeptOnShow + 1
      /\ toasts \in Seq(1..MaxToasts) /\ \E i \in 1..n : toasts[i] = id
  BY OverlayAssumption DEF ToastInv, Dismiss
<1>2. PICK p \in 1..n : toasts[p] = id /\ RemoveFirst(toasts, id) = RemoveAt(toasts, p)
  BY <1>1, RemovedFirst
<1> DEFINE r == RemoveAt(toasts, p)
<1>3. /\ r \in Seq(1..MaxToasts) /\ Len(r) = n - 1
      /\ \A j \in 1..(n - 1) : r[j] = IF j < p THEN toasts[j] ELSE toasts[j + 1]
  BY <1>1, <1>2, RemovedAt
<1> HIDE DEF r
<1>4. toasts' = r /\ shown' = shown /\ removed' = removed \cup {id}
  BY <1>2 DEF Dismiss, r
<1>5. Len(r) <= KeptOnShow + 1
  BY <1>1, <1>3
<1>6. ASSUME NEW i \in 1..(n - 1)
      PROVE  \E h \in 1..n : r[i] = toasts[h] /\ h = IF i < p THEN i ELSE i + 1
  BY <1>1, <1>2, <1>3
<1>7. \A i \in 1..Len(r) : r[i] <= shown
  BY <1>3, <1>6 DEF ToastInv
<1>8. InOrderShown(r)
  <2> SUFFICES ASSUME NEW i \in 1..(n - 1), NEW j \in 1..(n - 1), i <= j
               PROVE  r[i] + (j - i) <= r[j]
    BY <1>3 DEF InOrderShown
  <2>1. PICK g \in 1..n : r[i] = toasts[g] /\ g = IF i < p THEN i ELSE i + 1
    BY <1>6
  <2>2. PICK h \in 1..n : r[j] = toasts[h] /\ h = IF j < p THEN j ELSE j + 1
    BY <1>6
  <2>3. g <= h /\ j - i <= h - g /\ i \in Nat /\ j \in Nat /\ g \in Nat /\ h \in Nat
    BY <1>1, <1>2, <2>1, <2>2
  <2>4. toasts[g] + (h - g) <= toasts[h]
    BY <2>3 DEF ToastInv, InOrderShown
  <2>5. toasts[g] \in Nat /\ toasts[h] \in Nat
    <3> DEFINE S == 1..MaxToasts
    <3>0. toasts \in Seq(S) /\ g \in 1..Len(toasts) /\ h \in 1..Len(toasts)
      BY <1>1
    <3>1. toasts[g] \in S /\ toasts[h] \in S
      <4> HIDE DEF S
      <4> QED
        BY <3>0
    <3> QED
      BY <3>1
  <2> DEFINE u == toasts[g]
             w == toasts[h]
  <2> HIDE DEF u, w
  <2>6. u \in Nat /\ w \in Nat /\ u + (h - g) <= w
    BY <2>4, <2>5 DEF u, w
  <2>7. u + (j - i) <= w
    BY <2>3, <2>6
  <2> QED
    BY <2>1, <2>2, <2>7 DEF u, w
<1>9. ASSUME NEW k \in 1..shown
      PROVE  k \in Range(r) \cup (removed \cup {id}) \/ shown - k > KeptOnShow
  <2>1. k \in Range(toasts) => k = id \/ k \in Range(r)
    <3> SUFFICES ASSUME NEW i \in 1..n, toasts[i] = k, k # id PROVE k \in Range(r)
      BY <1>1 DEF Range
    <3>1. i # p
      BY <1>2
    <3> DEFINE j == IF i < p THEN i ELSE i - 1
    <3>2. j \in 1..(n - 1) /\ (j < p <=> i < p) /\ (~(i < p) => j + 1 = i)
      BY <1>1, <1>2, <3>1
    <3>3. r[j] = k
      BY <1>3, <3>2
    <3> QED
      BY <1>3, <3>2, <3>3 DEF Range
  <2> QED
    BY <2>1 DEF ToastInv, NewestToastsShown
<1> QED
  BY <1>3, <1>4, <1>5, <1>7, <1>8, <1>9 DEF ToastInv, NewestToastsShown

\* What is kept about all of them.
OverlayInv ==
  /\ DocumentInv /\ QuestionInv /\ ToastInv
  /\ feeds \in [visit : 1..MaxVisits, mounted : BOOLEAN]

\* The document after a step in which no surface but the drawer opened, closed or reran.
LEMMA DocumentSound ==
  ASSUME DocumentInv
  PROVE  /\ \A s \in Surfaces : IsOpen(s) <=> OpenIn(dom, s)
         /\ \A s \in Surfaces :
              IsOpen(s) => /\ Closing(dom, s) \in Documents /\ FocusSound(Closing(dom, s))
                           /\ LockSound(Closing(dom, s)) /\ ~OpenIn(Closing(dom, s), s)
                           /\ \A t \in Surfaces \ {s} :
                                OpenIn(Closing(dom, s), t) <=> OpenIn(dom, t)
BY ClosingSound DEF DocumentInv, IsOpen, OpenIn

\* The focus leaves the surfaces.
LEMMA LeavingSound ==
  ASSUME DocumentInv, dom.open # <<>>, dom' = [dom EXCEPT !.focus = "page", !.kept = FALSE]
  PROVE  DocumentInv' /\ (OpenIn(dom', "dialog") <=> OpenIn(dom, "dialog"))
<1>1. dom' \in Documents
  BY DEF DocumentInv, Documents, Places
<1>2. /\ dom'.open = dom.open /\ dom'.focus = "page" /\ dom'.kept = FALSE
      /\ dom'.returnTo = dom.returnTo /\ dom'.before = dom.before
      /\ dom'.overflow = dom.overflow /\ dom'.orderly = dom.orderly
  BY DEF DocumentInv, Documents
<1> QED
  BY <1>1, <1>2 DEF DocumentInv, FocusSound, LockSound, OpenIn

\* The open surfaces that App rerenders.
LEMMA AllOpen ==
  ASSUME DocumentInv, dom.open # <<>>
  PROVE  /\ Range(dom.open) \in SUBSET Surfaces /\ Range(dom.open) # {}
         /\ \A s \in Range(dom.open) : OpenIn(dom, s)
<1> DEFINE o == dom.open
<1>1. o \in Opens /\ o # <<>>
  BY DEF DocumentInv, Documents
<1>2. o \in Seq(Surfaces)
  BY <1>1, OpenSequence
<1> HIDE DEF o
<1>3. Range(o) \in SUBSET Surfaces /\ \A s \in Range(o) : \E i \in DOMAIN o : o[i] = s
  BY <1>2 DEF Range
<1>4. Range(o) # {}
  <2>1. 1 \in DOMAIN o
    BY <1>1, <1>2
  <2> QED
    BY <2>1 DEF Range
<1> QED
  BY <1>3, <1>4 DEF OpenIn, o

\* Every step of the application keeps the invariant.
LEMMA OverlayStep ==
  ASSUME OverlayInv, [OverlayNext]_overlayVars
  PROVE  OverlayInv'
<1>0. DocumentInv /\ QuestionInv /\ ToastInv /\ feeds \in [visit : 1..MaxVisits, mounted : BOOLEAN]
  BY DEF OverlayInv
<1>a. "drawer" \in Surfaces /\ "dialog" \in Surfaces /\ "drawer" # "dialog"
  BY DEF Surfaces
<1>b. UNCHANGED <<toasts, shown, removed>> => ToastInv'
  BY <1>0 DEF ToastInv, NewestToastsShown
<1>c. UNCHANGED feeds => feeds' \in [visit : 1..MaxVisits, mounted : BOOLEAN]
  BY <1>0
<1>d. UNCHANGED dom => DocumentInv' /\ OpenIn(dom', "dialog") = OpenIn(dom, "dialog")
  BY <1>0 DEF DocumentInv
<1>1. CASE OpenDrawer
  <2>1. DocumentInv' /\ (OpenIn(dom', "dialog") <=> OpenIn(dom, "dialog"))
    BY <1>0, <1>1, <1>a, OpeningSound, DocumentSound DEF OpenDrawer, PageUsable, DocumentInv
  <2> QED
    BY <1>0, <1>1, <1>b, <1>c, <2>1, SameQuestion DEF OpenDrawer, OverlayInv
<1>2. CASE CloseDrawer
  <2>1. DocumentInv' /\ (OpenIn(dom', "dialog") <=> OpenIn(dom, "dialog"))
    BY <1>0, <1>2, <1>a, DocumentSound DEF CloseDrawer, DocumentInv
  <2> QED
    BY <1>0, <1>2, <1>b, <1>c, <2>1, SameQuestion DEF CloseDrawer, OverlayInv
<1>3. CASE LeaveTrap
  <2>1. DocumentInv' /\ (OpenIn(dom', "dialog") <=> OpenIn(dom, "dialog"))
    BY <1>0, <1>3, LeavingSound DEF LeaveTrap
  <2> QED
    BY <1>0, <1>3, <1>b, <1>c, <2>1, SameQuestion DEF LeaveTrap, OverlayInv
<1>4. CASE RenderLayout
  <2>1. DocumentInv' /\ (OpenIn(dom', "dialog") <=> OpenIn(dom, "dialog"))
    <3> DEFINE w == {"drawer"}
    <3>1. w \in SUBSET Surfaces /\ w # {} /\ \A s \in w : OpenIn(dom, s)
      BY <1>4, <1>a DEF RenderLayout, IsOpen, OpenIn
    <3>2. dom' = Rerunning(dom, w)
      BY <1>4 DEF RenderLayout
    <3> HIDE DEF w
    <3> QED
      BY <1>0, <1>a, <3>1, <3>2, RerunningSound DEF DocumentInv
  <2> QED
    BY <1>0, <1>4, <1>b, <1>c, <2>1, SameQuestion DEF RenderLayout, OverlayInv
<1>5. CASE RenderApp
  <2>1. DocumentInv' /\ (OpenIn(dom', "dialog") <=> OpenIn(dom, "dialog"))
    BY <1>0, <1>5, <1>a, AllOpen, RerunningSound DEF RenderApp, DocumentInv
  <2> QED
    BY <1>0, <1>5, <1>b, <1>c, <2>1, SameQuestion DEF RenderApp, OverlayInv
<1>6. CASE RunTest
  BY <1>0, <1>6, <1>c, <1>d, NotifySound, SameQuestion DEF RunTest, OverlayInv
<1>7. CASE \E id \in 1..MaxToasts : Dismiss(id)
  <2>1. PICK id \in 1..MaxToasts : Dismiss(id)
    BY <1>7
  <2>2. UNCHANGED <<dom, question, feeds>>
    BY <2>1 DEF Dismiss
  <2> QED
    BY <1>0, <1>c, <1>d, <2>1, <2>2, DismissSound, SameQuestion DEF OverlayInv
<1>8. CASE AskToClear
  <2>1. DocumentInv' /\ OpenIn(dom', "dialog")
    <3>1. CASE IsOpen("dialog")
      <4> DEFINE w == {"dialog"}
      <4>1. w \in SUBSET Surfaces /\ w # {} /\ \A s \in w : OpenIn(dom, s)
        BY <3>1, <1>a DEF IsOpen, OpenIn
      <4>2. dom' = Rerunning(dom, w)
        BY <1>8, <3>1 DEF AskToClear
      <4>3. "dialog" \in w
        OBVIOUS
      <4> HIDE DEF w
      <4> QED
        BY <1>0, <1>a, <4>1, <4>2, <4>3, RerunningSound DEF DocumentInv
    <3>2. CASE ~IsOpen("dialog")
      BY <1>0, <1>8, <1>a, <3>2, OpeningSound, DocumentSound
      DEF AskToClear, PageUsable, DocumentInv
    <3> QED
      BY <3>1, <3>2
  <2>2. /\ question.asked < MaxQuestions
        /\ question' = [question EXCEPT !.asked = question.asked + 1,
                                        !.current = question.asked + 1,
                                        !.answer[question.asked + 1] = "waiting"]
    BY <1>8 DEF AskToClear
  <2> QED
    BY <1>0, <1>8, <1>b, <1>c, <2>1, <2>2, AskedSound DEF AskToClear, OverlayInv
<1>9. ASSUME NEW value \in {"yes", "no"}, handleConfirmResolve(value),
             dom' = Closing(dom, "dialog")
      PROVE  DocumentInv' /\ QuestionInv'
  <2>1. IsOpen("dialog")
    BY <1>0, <1>9 DEF handleConfirmResolve, QuestionInv, EveryQuestionAnswered
  <2>2. DocumentInv' /\ ~OpenIn(dom', "dialog")
    BY <1>0, <1>9, <1>a, <2>1, DocumentSound DEF DocumentInv
  <2> QED
    BY <1>0, <1>9, <2>2, ResolvedSound
<1>10. CASE Confirm
  BY <1>0, <1>10, <1>9, <1>c, NotifySound DEF Confirm, OverlayInv
<1>11. CASE Cancel
  BY <1>0, <1>11, <1>9, <1>b, <1>c DEF Cancel, OverlayInv
<1>12. CASE Escape
  <2> DEFINE upper == IF IsOpen("dialog") THEN Closing(dom, "dialog") ELSE dom
  <2>1. /\ upper \in Documents /\ FocusSound(upper) /\ LockSound(upper)
        /\ ~OpenIn(upper, "dialog") /\ (OpenIn(upper, "drawer") <=> OpenIn(dom, "drawer"))
    BY <1>0, <1>a, DocumentSound DEF DocumentInv
  <2>2. dom' = IF OpenIn(dom, "drawer") THEN Closing(upper, "drawer") ELSE upper
    BY <1>12 DEF Escape, IsOpen, OpenIn
  <2> HIDE DEF upper
  <2>3. DocumentInv' /\ ~OpenIn(dom', "dialog")
    BY <1>a, <2>1, <2>2, ClosingSound DEF DocumentInv
  <2>4. QuestionInv'
    <3>1. CASE IsOpen("dialog")
      BY <1>0, <1>12, <2>3, <3>1, ResolvedSound DEF Escape
    <3>2. CASE ~IsOpen("dialog")
      BY <1>0, <1>12, <1>a, <2>3, <3>2, SameQuestion, DocumentSound DEF Escape
    <3> QED
      BY <3>1, <3>2
  <2> QED
    BY <1>12, <1>b, <1>c, <2>3, <2>4 DEF Escape, OverlayInv
<1>13. CASE \E leaves \in BOOLEAN : GoBack(leaves)
  <2>1. PICK leaves \in BOOLEAN : GoBack(leaves)
    BY <1>13
  <2>2. /\ UNCHANGED <<question, toasts, shown, removed>>
        /\ feeds' = [feeds EXCEPT !.mounted = FALSE]
        /\ dom' = dom \/ (IsOpen("drawer") /\ dom' = Closing(dom, "drawer"))
    BY <2>1 DEF GoBack
  <2>3. DocumentInv' /\ (OpenIn(dom', "dialog") <=> OpenIn(dom, "dialog"))
    BY <1>0, <1>a, <1>d, <2>2, DocumentSound DEF DocumentInv
  <2>4. feeds' \in [visit : 1..MaxVisits, mounted : BOOLEAN]
    BY <1>0, <2>2
  <2> QED
    BY <1>0, <1>b, <2>2, <2>3, <2>4, SameQuestion DEF OverlayInv
<1>14. CASE Return
  <2>1. feeds' \in [visit : 1..MaxVisits, mounted : BOOLEAN]
    <3> DEFINE v == feeds.visit
    <3>1. v \in 1..MaxVisits /\ v < MaxVisits /\ MaxVisits \in Nat
      BY <1>0, <1>14, OverlayAssumption DEF Return
    <3>2. feeds' = [feeds EXCEPT !.mounted = TRUE, !.visit = v + 1]
      BY <1>0, <1>14 DEF Return
    <3> HIDE DEF v
    <3>3. v + 1 \in 1..MaxVisits
      BY <3>1
    <3> QED
      BY <1>0, <3>2, <3>3
  <2> QED
    BY <1>0, <1>14, <1>b, <1>d, <2>1, SameQuestion DEF Return, OverlayInv
<1>15. CASE UNCHANGED overlayVars
  BY <1>0, <1>15, <1>b, <1>c, <1>d, SameQuestion DEF overlayVars, OverlayInv
<1> QED
  BY <1>1, <1>2, <1>3, <1>4, <1>5, <1>6, <1>7, <1>8, <1>10, <1>11, <1>12, <1>13, <1>14,
     <1>15 DEF OverlayNext

\* The invariant says what SurfacesOrderly says.
LEMMA SurfacesFollow ==
  ASSUME OverlayInv
  PROVE  OverlayTypeOK /\ SurfacesOrderly
<1>1. /\ DocumentInv /\ QuestionInv /\ ToastInv
      /\ feeds \in [visit : 1..MaxVisits, mounted : BOOLEAN]
  BY DEF OverlayInv
<1>2. dom.open \in Opens
  BY <1>1 DEF DocumentInv, Documents
<1>3. dom.open \in SeqOf(Surfaces, 2)
  <2> DEFINE o == dom.open
  <2>1. o \in Seq(Surfaces) /\ Len(o) \in 0..2
    BY <1>2, OpenSequence
  <2> HIDE DEF o
  <2>2. o \in [1..Len(o) -> Surfaces]
    BY <2>1
  <2> QED
    BY <2>1, <2>2 DEF SeqOf, o
<1>4. toasts \in SeqOf(1..MaxToasts, KeptOnShow + 1)
  <2>1. toasts \in Seq(1..MaxToasts) /\ Len(toasts) \in 0..(KeptOnShow + 1)
    BY <1>1, OverlayAssumption DEF ToastInv
  <2> DEFINE S == 1..MaxToasts
             m == KeptOnShow + 1
  <2>2. toasts \in [1..Len(toasts) -> S]
    <3>1. toasts \in Seq(S)
      BY <2>1
    <3> HIDE DEF S
    <3> QED
      BY <3>1
  <2>3. toasts \in SeqOf(S, m)
    <3>1. Len(toasts) \in 0..m
      BY <2>1
    <3> HIDE DEF S, m
    <3> QED
      BY <2>2, <3>1 DEF SeqOf
  <2> QED
    BY <2>3
<1>5. OverlayTypeOK
  BY <1>1, <1>3, <1>4
  DEF OverlayTypeOK, DocumentInv, Documents, Overflows, QuestionInv, Asks, ToastInv
<1>6. PageLockedWhileCovered
  BY <1>1 DEF PageLockedWhileCovered, DocumentInv, LockSound
<1>7. FocusFollowsSurfaces
  BY <1>1 DEF FocusFollowsSurfaces, DocumentInv, FocusSound, Last
<1> QED
  BY <1>1, <1>5, <1>6, <1>7 DEF SurfacesOrderly, QuestionInv, ToastInv

\* The page is locked exactly while a surface covers it in order, the focus and the
\* questions follow the surfaces, and toasts leave unseen only for enough newer ones.
THEOREM SurfacesAlwaysOrderly == OverlaySpec => [](OverlayTypeOK /\ SurfacesOrderly)
<1>1. OverlayInit => OverlayInv
  <2> SUFFICES ASSUME OverlayInit PROVE OverlayInv
    OBVIOUS
  <2>1. DocumentInv
    BY DEF OverlayInit, DocumentInv, Documents, Opens, Overflows, Places, FocusSound, LockSound
  <2>2. QuestionInv
    BY OverlayAssumption DEF OverlayInit, QuestionInv, Asks, EveryQuestionAnswered, IsOpen
  <2>3. ToastInv
    BY OverlayAssumption DEF OverlayInit, ToastInv, InOrderShown, NewestToastsShown
  <2>4. feeds \in [visit : 1..MaxVisits, mounted : BOOLEAN]
    BY OverlayAssumption DEF OverlayInit
  <2> QED
    BY <2>1, <2>2, <2>3, <2>4 DEF OverlayInv
<1> QED
  BY <1>1, OverlayStep, SurfacesFollow, PTL DEF OverlaySpec

-----------------------------------------------------------------------------
(* The site, for any languages, guilds and addresses nobody links to.       *)

\* The segments there are, and an address as the sequence of its segments.
TagNames ==
  SiteLocales \cup SiteGuilds \cup FirstSegments
  \cup {"commands", "feeds", "setup", "ui", "callback", "analytics", "settings"}
  \cup UNION {Range(p) : p \in Unknown}
Paths == Seq(TagNames)

\* The first segments of the marketing pages, and of the routes of the console.
PublicSegments == {"premium", "docs", "support", "changelog", "terms", "privacy"}
ConsoleSegments == {"dev", "components", "auth", "servers", "dashboard"}

\* Addresses of up to two segments.
LEMMA ShortPaths ==
  /\ <<>> \in Paths
  /\ \A a \in TagNames : <<a>> \in Paths
  /\ \A a, b \in TagNames : <<a, b>> \in Paths
BY DEF Paths

\* The segments that the source writes out.
LEMMA WrittenNames ==
  /\ "premium" \in TagNames /\ "docs" \in TagNames /\ "support" \in TagNames /\ "changelog" \in TagNames
  /\ "terms" \in TagNames /\ "privacy" \in TagNames /\ "dev" \in TagNames /\ "components" \in TagNames
  /\ "auth" \in TagNames /\ "servers" \in TagNames /\ "dashboard" \in TagNames /\ "404" \in TagNames
  /\ "commands" \in TagNames /\ "feeds" \in TagNames /\ "setup" \in TagNames /\ "ui" \in TagNames
  /\ "callback" \in TagNames /\ "analytics" \in TagNames /\ "settings" \in TagNames
BY DEF TagNames, FirstSegments

\* An address with a segment before it.
LEMMA PrefixedPath ==
  ASSUME NEW l \in TagNames, NEW r \in Paths
  PROVE  /\ <<l>> \o r \in Paths /\ <<l>> \o r # <<>>
         /\ Head(<<l>> \o r) = l /\ Tail(<<l>> \o r) = r
         /\ r # <<>> => Last(<<l>> \o r) = Last(r)
<1>1. <<l>> \in Paths /\ Len(<<l>>) = 1 /\ <<l>>[1] = l
  BY ShortPaths
<1> DEFINE p == <<l>> \o r
<1>2. /\ p \in Paths /\ Len(p) = Len(r) + 1 /\ Len(r) \in Nat
      /\ \A i \in 1..Len(r) + 1 : p[i] = IF i <= 1 THEN l ELSE r[i - 1]
  BY <1>1, ConcatProperties, LenProperties DEF Paths
<1> HIDE DEF p
<1>3. p # <<>> /\ p[1] = l
  BY <1>2
<1>4. Head(p) = l
  BY <1>3
<1>5. /\ Tail(p) \in Paths /\ Len(Tail(p)) = Len(r)
      /\ \A i \in 1..Len(r) : Tail(p)[i] = p[i + 1]
  BY <1>2, <1>3, HeadTailProperties DEF Paths
<1>6. Tail(p) = r
  <2>1. \A i \in 1..Len(r) : Tail(p)[i] = r[i]
    BY <1>2, <1>5
  <2> QED
    BY <1>5, <2>1, SeqEqual DEF Paths
<1>7. r # <<>> => Last(p) = Last(r)
  <2>1. r # <<>> => Len(r) >= 1
    BY <1>2, EmptySeq DEF Paths
  <2> QED
    BY <1>2, <2>1 DEF Last
<1> QED
  BY <1>2, <1>3, <1>4, <1>6, <1>7 DEF p

\* The marketing pages.
LEMMA MarketingPaths ==
  /\ \A r \in MARKETING_ROUTES : r \in Paths /\ (r # <<>> => Head(r) \in PublicSegments)
  /\ <<>> \in MARKETING_ROUTES /\ publicMarketingRoutes = MARKETING_ROUTES
<1>1. \A r \in MARKETING_ROUTES : r \in Paths
  BY ShortPaths, WrittenNames DEF MARKETING_ROUTES
<1>2. \A r \in MARKETING_ROUTES : r # <<>> => Head(r) \in PublicSegments
  BY DEF MARKETING_ROUTES, PublicSegments
<1>3. publicMarketingRoutes = MARKETING_ROUTES
  BY DEF MARKETING_ROUTES, publicMarketingRoutes
<1> QED
  BY <1>1, <1>2, <1>3 DEF MARKETING_ROUTES

\* The address of a guild's page.
LEMMA GuildPaths ==
  ASSUME NEW g \in SiteGuilds, NEW s \in DashboardSuffixes
  PROVE  LET p == <<"dashboard", g>> \o s
         IN p \in Paths /\ p # <<>> /\ Head(p) = "dashboard" /\ p[2] = g /\ Len(p) > 1
<1>1. <<"dashboard", g>> \in Paths /\ s \in Paths
  BY ShortPaths, WrittenNames DEF DashboardSuffixes, TagNames
<1> DEFINE p == <<"dashboard", g>> \o s
<1>2. /\ p \in Paths /\ Len(p) = 2 + Len(s) /\ Len(s) \in Nat
      /\ p[1] = "dashboard" /\ p[2] = g
  BY <1>1, ConcatProperties, LenProperties DEF Paths
<1> HIDE DEF p
<1>3. p # <<>> /\ Head(p) = "dashboard" /\ Len(p) > 1
  BY <1>2 DEF Paths
<1> QED
  BY <1>2, <1>3 DEF p

\* The routes of the console, and what each declares.
Declared(r) ==
  /\ r = [path |-> r.path, auth |-> r.auth, guild |-> r.guild]
  /\ r.auth \in BOOLEAN /\ r.guild \in BOOLEAN
  /\ r.path \in Paths /\ r.path # <<>> /\ Head(r.path) \in ConsoleSegments
  /\ r.guild => r.path[2] \in SiteGuilds /\ Len(r.path) > 1
  /\ r.guild <=> Head(r.path) = "dashboard"
  /\ r.auth <=> r.guild \/ r.path \in {<<"dev">>, <<"servers">>}
LEMMA ConsolePaths == ASSUME NEW r \in APP_ROUTES PROVE Declared(r)
<1> DEFINE ofGuild(g, s) == [path |-> <<"dashboard", g>> \o s, auth |-> TRUE, guild |-> TRUE]
           ofGuilds == {ofGuild(g, s) : g \in SiteGuilds, s \in DashboardSuffixes}
           fixed(p, needed) == [path |-> p, auth |-> needed, guild |-> FALSE]
           dev == fixed(<<"dev">>, TRUE)
           catalog == fixed(<<"dev", "ui">>, FALSE)
           components == fixed(<<"components">>, FALSE)
           callback == fixed(<<"auth", "callback">>, FALSE)
           servers == fixed(<<"servers">>, TRUE)
<1>1. ASSUME NEW g \in SiteGuilds, NEW s \in DashboardSuffixes, r = ofGuild(g, s)
      PROVE  Declared(r)
  <2>1. r.path = <<"dashboard", g>> \o s /\ r.auth = TRUE /\ r.guild = TRUE
    BY <1>1
  <2>2. /\ r.path \in Paths /\ r.path # <<>> /\ Head(r.path) = "dashboard"
        /\ r.path[2] = g /\ Len(r.path) > 1
    BY <2>1, GuildPaths
  <2>3. r = [path |-> r.path, auth |-> r.auth, guild |-> r.guild]
    BY <1>1
  <2> QED
    BY <2>1, <2>2, <2>3 DEF ConsoleSegments, Declared
<1>2. ASSUME NEW p \in Paths, NEW needed \in BOOLEAN, r = fixed(p, needed),
             p # <<>>, Head(p) \in ConsoleSegments \ {"dashboard"},
             needed <=> p \in {<<"dev">>, <<"servers">>}
      PROVE  Declared(r)
  <2>1. r.path = p /\ r.auth = needed /\ r.guild = FALSE
    BY <1>2
  <2> QED
    BY <1>2, <2>1 DEF Declared
<1>3. /\ <<"dev">> \in Paths /\ Head(<<"dev">>) = "dev"
      /\ <<"dev", "ui">> \in Paths /\ Head(<<"dev", "ui">>) = "dev"
      /\ <<"components">> \in Paths /\ Head(<<"components">>) = "components"
      /\ <<"auth", "callback">> \in Paths /\ Head(<<"auth", "callback">>) = "auth"
      /\ <<"servers">> \in Paths /\ Head(<<"servers">>) = "servers"
  BY ShortPaths, WrittenNames
<1>4. r = dev => Declared(r)
  BY <1>2, <1>3 DEF ConsoleSegments
<1>5. r = catalog => Declared(r)
  BY <1>2, <1>3 DEF ConsoleSegments
<1>6. r = components => Declared(r)
  BY <1>2, <1>3 DEF ConsoleSegments
<1>7. r = callback => Declared(r)
  BY <1>2, <1>3 DEF ConsoleSegments
<1>8. r = servers => Declared(r)
  BY <1>2, <1>3 DEF ConsoleSegments
<1>9. APP_ROUTES = {dev, catalog, components, callback, servers} \cup ofGuilds
  BY DEF APP_ROUTES
<1> HIDE DEF ofGuild, dev, catalog, components, callback, servers
<1> QED
  BY <1>1, <1>4, <1>5, <1>6, <1>7, <1>8, <1>9

\* A route of the console is none of the marketing pages.
LEMMA Disjoint ==
  ASSUME NEW r \in APP_ROUTES
  PROVE  r.path \notin MARKETING_ROUTES /\ r.path # NotFound
<1>1. Head(r.path) \in ConsoleSegments /\ r.path # <<>>
  BY ConsolePaths DEF Declared
<1>2. Head(NotFound) = "404"
  BY DEF NotFound
<1> QED
  BY <1>1, <1>2, MarketingPaths DEF ConsoleSegments, PublicSegments

\* What the registry says of a route, and of what is none.
LEMMA Metadata ==
  /\ \A r \in APP_ROUTES : getRouteMetaByPath(r.path) = r
  /\ \A p : (\A r \in APP_ROUTES : r.path # p) =>
       getRouteMetaByPath(p).auth = FALSE /\ getRouteMetaByPath(p).guild = FALSE
<1>1. ASSUME NEW r \in APP_ROUTES, NEW q \in APP_ROUTES, q.path = r.path PROVE q = r
  BY <1>1, ConsolePaths DEF Declared
<1>2. ASSUME NEW r \in APP_ROUTES PROVE getRouteMetaByPath(r.path) = r
  BY <1>1 DEF getRouteMetaByPath
<1> QED
  BY <1>2 DEF getRouteMetaByPath

\* A route of the console is shown at its address, behind the guard it declares.
LEMMA ConsoleRoute ==
  ASSUME NEW r \in APP_ROUTES
  PROVE  /\ Matched(r.path) = r.path
         /\ GuardOf(r.path) = [auth |-> r.auth, guild |-> r.guild]
<1>1. Matched(r.path) = r.path
  BY DEF Matched
<1>2. CASE Head(r.path) = "dashboard"
  <2>1. r.auth = TRUE /\ r.guild = TRUE /\ r.path # <<>>
    BY <1>2, ConsolePaths DEF Declared
  <2> QED
    BY <1>1, <1>2, <2>1 DEF GuardOf
<1>3. CASE Head(r.path) # "dashboard"
  BY <1>1, <1>3, Metadata DEF GuardOf
<1> QED
  BY <1>1, <1>2, <1>3

\* Whatever is behind a guard is a route of the console; a guild's guard stands behind
\* the one for an account, before an address that names the guild.
LEMMA Guarded ==
  ASSUME NEW p \in Paths
  PROVE  /\ GuardOf(p).auth \in BOOLEAN /\ GuardOf(p).guild \in BOOLEAN
         /\ GuardOf(p).auth \/ GuardOf(p).guild => \E r \in APP_ROUTES : r.path = p
         /\ GuardOf(p).guild => GuardOf(p).auth /\ p[2] \in SiteGuilds
<1>1. CASE \E r \in APP_ROUTES : r.path = p
  <2>1. PICK r \in APP_ROUTES : r.path = p
    BY <1>1
  <2>2. GuardOf(p) = [auth |-> r.auth, guild |-> r.guild]
    BY <2>1, ConsoleRoute
  <2>3. GuardOf(p).auth = r.auth /\ GuardOf(p).guild = r.guild
    BY <2>2
  <2> QED
    BY <2>1, <2>3, ConsolePaths DEF Declared
<1>2. CASE \A r \in APP_ROUTES : r.path # p
  <2>1. ~(p # <<>> /\ Head(p) = "dashboard" /\ Matched(p) = p)
    <3> SUFFICES ASSUME p # <<>>, Head(p) = "dashboard", Matched(p) = p PROVE FALSE
      OBVIOUS
    <3>1. p \notin MARKETING_ROUTES
      BY MarketingPaths DEF PublicSegments
    <3>2. p # NotFound
      <4>1. Head(NotFound) = "404"
        BY DEF NotFound
      <4> QED
        BY <4>1
    <3>3. Tail(p) # p
      BY HeadTailProperties, LenProperties DEF Paths
    <3> QED
      BY <1>2, <3>1, <3>2, <3>3 DEF Matched
  <2>2. GuardOf(p) = [auth |-> FALSE, guild |-> FALSE]
    BY <1>2, <2>1, Metadata DEF GuardOf
  <2> QED
    BY <1>2, <2>2
<1> QED
  BY <1>1, <1>2

\* The private pages are no pages of the sitemaps.
LEMMA PrivatePaths ==
  ASSUME NEW p \in privateNoindexRoutes
  PROVE  p \in Paths /\ p # <<>> /\ Head(p) \in ConsoleSegments
<1>1. /\ <<"dev">> \in Paths /\ Head(<<"dev">>) = "dev"
      /\ <<"dev", "ui">> \in Paths /\ Head(<<"dev", "ui">>) = "dev"
      /\ <<"components">> \in Paths /\ Head(<<"components">>) = "components"
      /\ <<"auth", "callback">> \in Paths /\ Head(<<"auth", "callback">>) = "auth"
      /\ <<"servers">> \in Paths /\ Head(<<"servers">>) = "servers"
  BY ShortPaths, WrittenNames
<1> QED
  BY <1>1 DEF privateNoindexRoutes, ConsoleSegments

\* The section that the documentation takes from the end of an address.
LEMMA Sections ==
  ASSUME NEW r \in MARKETING_ROUTES, NEW p, r # <<>>, Head(r) = "docs", Last(p) = Last(r)
  PROVE  subSectionPath(p) = r
<1>1. r \in {<<"docs">>, <<"docs", "commands">>, <<"docs", "feeds">>, <<"docs", "setup">>}
  BY DEF MARKETING_ROUTES
<1>2. Last(<<"docs">>) = "docs"
  BY DEF Last
<1>3. \A a, b : Last(<<a, b>>) = b
  BY DEF Last
<1> QED
  BY <1>1, <1>2, <1>3 DEF subSectionPath

\* What holds of a page that is announced to crawlers, at its address p.
Announced(p, r) ==
  /\ p \in Paths /\ r \in MARKETING_ROUTES /\ PrerenderedRoute(p) = r
  /\ Matched(p) = r /\ rawPath(p) = r /\ masterCanonical(p, r) = r
  /\ ~GuardOf(p).auth /\ ~GuardOf(p).guild
  /\ p \notin privateNoindexRoutes /\ ~Disallowed(p) /\ PrerenderedLocale(p) \in SiteLocales

\* It holds of a page at its own address,
LEMMA MarketingRoute == ASSUME NEW r \in MARKETING_ROUTES PROVE Announced(r, r)
<1>1. r \in Paths /\ (r # <<>> => Head(r) \in PublicSegments)
  BY MarketingPaths
<1>2. ~GuardOf(r).auth /\ ~GuardOf(r).guild
  BY <1>1, Guarded, Disjoint
<1>3. r \notin privateNoindexRoutes
  BY <1>1, PrivatePaths DEF ConsoleSegments, PublicSegments
<1>4. ~Disallowed(r)
  BY <1>1 DEF Disallowed, PublicSegments
<1>5. rawPath(r) = r
  BY <1>1, SiteAssumption DEF rawPath, PublicSegments, FirstSegments
<1>6. masterCanonical(r, r) = r
  BY <1>5, Sections DEF masterCanonical
<1>7. PrerenderedRoute(r) = r /\ PrerenderedLocale(r) \in SiteLocales
  BY MarketingPaths, SiteAssumption DEF PrerenderedRoute, PrerenderedLocale
<1> QED
  BY <1>1, <1>2, <1>3, <1>4, <1>5, <1>6, <1>7 DEF Announced, Matched

\* and at that of a language.
LEMMA LocalizedRoute ==
  ASSUME NEW l \in SiteLocales, NEW r \in MARKETING_ROUTES
  PROVE  /\ Announced(localizedPath(l, r), r)
         /\ Head(localizedPath(l, r)) = l /\ localizedPath(l, r) \notin MARKETING_ROUTES
<1> DEFINE p == localizedPath(l, r)
<1>0. l \in TagNames /\ l \notin FirstSegments
  BY SiteAssumption DEF TagNames
<1>1. /\ p \in Paths /\ p # <<>> /\ Head(p) = l /\ Tail(p) = r
      /\ r # <<>> => Last(p) = Last(r)
  BY <1>0, PrefixedPath, MarketingPaths DEF localizedPath
<1> HIDE DEF p
<1>2. p \notin MARKETING_ROUTES
  BY <1>0, <1>1, MarketingPaths DEF PublicSegments, FirstSegments
<1>3. \A q \in APP_ROUTES : q.path # p
  BY <1>0, <1>1, ConsolePaths DEF Declared, ConsoleSegments, FirstSegments
<1>4. ~GuardOf(p).auth /\ ~GuardOf(p).guild
  BY <1>1, <1>3, Guarded
<1>5. p \notin privateNoindexRoutes
  BY <1>0, <1>1, PrivatePaths DEF ConsoleSegments, FirstSegments
<1>6. ~Disallowed(p)
  BY <1>0, <1>1 DEF Disallowed, FirstSegments
<1>7. rawPath(p) = r /\ Matched(p) = r
  BY <1>1, <1>2, <1>3 DEF rawPath, Matched
<1>8. masterCanonical(p, r) = r
  BY <1>1, <1>7, Sections DEF masterCanonical
<1>9. PrerenderedRoute(p) = r /\ PrerenderedLocale(p) \in SiteLocales
  BY <1>1, <1>2, MarketingPaths DEF PrerenderedRoute, PrerenderedLocale
<1> QED
  BY <1>1, <1>2, <1>4, <1>5, <1>6, <1>7, <1>8, <1>9 DEF Announced, p

\* The addresses of the sitemaps are those.
LEMMA SitemapPaths ==
  /\ sitemapUrls = MARKETING_ROUTES \cup {localizedPath(l, r) : l \in SiteLocales, r \in MARKETING_ROUTES}
  /\ \A p \in sitemapUrls : Announced(p, PrerenderedRoute(p))
<1>1. sitemapUrls = MARKETING_ROUTES \cup {localizedPath(l, r) : l \in SiteLocales, r \in MARKETING_ROUTES}
  BY MarketingPaths DEF sitemapUrls
<1>2. ASSUME NEW r, NEW p, Announced(p, r) PROVE Announced(p, PrerenderedRoute(p))
  BY <1>2 DEF Announced
<1> QED
  BY <1>1, <1>2, MarketingRoute, LocalizedRoute

\* The static page of such an address is the one of its route, in all languages.
LEMMA StaticPages ==
  ASSUME NEW p \in sitemapUrls
  PROVE  LET r == PrerenderedRoute(p)
         IN /\ StaticPage(p).canonical = r /\ StaticPage(p).robots = {"index"}
            /\ StaticPage(p).alternates = {localizedPath(l, r) : l \in SiteLocales} \cup {r}
            /\ StaticData(p) = JsonLd(r, PrerenderedLocale(p))
<1>1. p \notin privateNoindexRoutes
  BY SitemapPaths DEF Announced
<1> QED
  BY <1>1 DEF StaticPage, StaticData, renderHtmlForRoute, generateAlternateHreflangTags

\* The beginning of an address.
LEMMA Beginning ==
  ASSUME NEW p \in Paths, NEW n \in 0 .. Len(p)
  PROVE  /\ SubSeq(p, 1, n) \in Paths /\ Len(SubSeq(p, 1, n)) = n
         /\ \A i \in 1 .. n : SubSeq(p, 1, n)[i] = p[i]
BY DEF Paths

\* What lies on the way to a marketing page is one.
LEMMA OnTheWay ==
  ASSUME NEW r \in MARKETING_ROUTES
  PROVE  /\ \A n \in 0 .. Len(r) : SubSeq(r, 1, n) \in MARKETING_ROUTES
         /\ SubSeq(r, 1, Len(r)) = r /\ Len(r) \in Nat
<1>1. r \in Paths /\ <<>> \in MARKETING_ROUTES /\ Len(r) \in Nat
  BY MarketingPaths, LenProperties DEF Paths
<1>2. SubSeq(r, 1, 0) = <<>>
  BY <1>1, Beginning, EmptySeq DEF Paths
<1>3. SubSeq(r, 1, Len(r)) = r
  BY <1>1, Beginning, SeqEqual DEF Paths
<1>4. ASSUME NEW a, r = <<"docs", a>> PROVE SubSeq(r, 1, 1) = <<"docs">>
  <2> DEFINE first == SubSeq(r, 1, 1)
             docs == <<"docs">>
  <2>1. first \in Paths /\ Len(first) = 1 /\ first[1] = "docs"
    BY <1>1, <1>4, Beginning
  <2>2. docs \in Paths /\ Len(docs) = 1 /\ docs[1] = "docs"
    BY ShortPaths, WrittenNames
  <2> HIDE DEF first, docs
  <2>3. \A i \in 1 .. Len(first) : first[i] = docs[i]
    BY <2>1, <2>2
  <2>4. first = docs
    BY <2>1, <2>2, <2>3, SeqEqual DEF Paths
  <2> QED
    BY <2>4 DEF first, docs
<1>5. \/ Len(r) \in {0, 1}
      \/ Len(r) = 2 /\ \E a : r = <<"docs", a>>
  BY DEF MARKETING_ROUTES
<1>6. <<"docs">> \in MARKETING_ROUTES
  BY DEF MARKETING_ROUTES
<1>7. ASSUME NEW n \in 0 .. Len(r) PROVE SubSeq(r, 1, n) \in MARKETING_ROUTES
  <2>1. n = 0 \/ n = Len(r) \/ (n = 1 /\ \E a : r = <<"docs", a>>)
    <3>1. CASE Len(r) \in {0, 1}
      BY <3>1
    <3>2. CASE Len(r) = 2 /\ \E a : r = <<"docs", a>>
      <4>1. n \in {0, 1, 2}
        BY <3>2
      <4> QED
        BY <3>2, <4>1
    <3> QED
      BY <1>5, <3>1, <3>2
  <2> QED
    BY <1>1, <1>2, <1>3, <1>4, <1>6, <2>1
<1> QED
  BY <1>1, <1>3, <1>7

\* An address of a page in a language is announced.
LEMMA InLanguage ==
  ASSUME NEW l \in SiteLocales, NEW r \in MARKETING_ROUTES
  PROVE  prefix(l) \o r \in sitemapUrls
<1>1. CASE l = "en"
  <2>1. <<>> \o r = r
    BY MarketingPaths, ConcatEmptySeq DEF Paths
  <2> QED
    BY <1>1, <2>1, SitemapPaths DEF prefix
<1>2. CASE l # "en"
  BY <1>2, SitemapPaths DEF prefix, localizedPath
<1> QED
  BY <1>1, <1>2

\* The marketing pages that the source writes out.
LEMMA WrittenPages ==
  /\ <<>> \in MARKETING_ROUTES /\ <<"premium">> \in MARKETING_ROUTES
  /\ <<"docs">> \in MARKETING_ROUTES /\ <<"support">> \in MARKETING_ROUTES
  /\ <<"changelog">> \in MARKETING_ROUTES /\ <<"terms">> \in MARKETING_ROUTES
  /\ <<"privacy">> \in MARKETING_ROUTES /\ <<"docs", "setup">> \in MARKETING_ROUTES
  /\ <<"docs", "feeds">> \in MARKETING_ROUTES /\ <<"docs", "commands">> \in MARKETING_ROUTES
BY DEF MARKETING_ROUTES

\* The structured data of a static page names announced addresses; that of the
\* start page, nothing but the start page and the documentation.
LEMMA StaticNames ==
  ASSUME NEW r \in MARKETING_ROUTES, NEW l \in SiteLocales, NEW d \in JsonLd(r, l)
  PROVE  /\ d.names \subseteq sitemapUrls
         /\ r = <<>> => d.names \subseteq MARKETING_ROUTES /\ d.type # "BreadcrumbList"
<1> DEFINE crumbs == [type |-> "BreadcrumbList",
                      names |-> {prefix(l) \o SubSeq(r, 1, n) : n \in 0 .. Len(r)}]
           site == [type |-> "WebSite", names |-> {<<>>, <<"docs">>}]
           faq == [type |-> "FAQPage", names |-> {}]
           start(t) == [type |-> t, names |-> {<<>>}]
           product == [type |-> "Product", names |-> {prefix(l) \o r}]
<1>0. MARKETING_ROUTES \subseteq sitemapUrls
  BY SitemapPaths
<1>1. crumbs.names \subseteq sitemapUrls
  BY OnTheWay, InLanguage
<1>2. site.names \subseteq MARKETING_ROUTES /\ faq.names = {} /\ site.type # "BreadcrumbList" /\ faq.type # "BreadcrumbList"
  BY WrittenPages
<1>3. product.names \subseteq sitemapUrls
  BY InLanguage
<1>4. \A t : start(t).names \subseteq MARKETING_ROUTES /\ start(t).type = t
  BY WrittenPages
<1>5. CASE r = <<>>
  <2>1. JsonLd(r, l) = {site, faq} \cup {start(t) : t \in {"Organization", "SoftwareApplication"}}
    BY <1>5 DEF JsonLd
  <2> HIDE DEF site, faq, start
  <2> QED
    BY <1>0, <1>2, <1>4, <2>1
<1>6. CASE r # <<>>
  <2>1. JsonLd(r, l) \subseteq {site, faq, crumbs, product}
    BY <1>6 DEF JsonLd
  <2> HIDE DEF site, faq, crumbs, product
  <2> QED
    BY <1>0, <1>1, <1>2, <1>3, <1>6, <2>1
<1> QED
  BY <1>5, <1>6

\* The links of a static page lead to announced addresses.
LEMMA StaticLinks ==
  ASSUME NEW r \in MARKETING_ROUTES, NEW l \in SiteLocales
  PROVE  FooterLinks(l) \cup MainLinks(r, l) \cup JsonLdLinks(r, l) \subseteq sitemapUrls
<1>1. FooterLinks(l) \subseteq sitemapUrls
  BY WrittenPages, InLanguage DEF FooterLinks, HeaderLinks
<1>2. StartLinks(r) \cup DocsLinks(r) \cup OtherLinks(r) \subseteq MARKETING_ROUTES
  BY WrittenPages DEF StartLinks, DocsLinks, OtherLinks
<1>3. MainLinks(r, l) \subseteq sitemapUrls
  BY <1>2, InLanguage DEF MainLinks
<1>4. JsonLdLinks(r, l) \subseteq sitemapUrls
  BY StaticNames DEF JsonLdLinks
<1> QED
  BY <1>1, <1>3, <1>4

\* The addresses of the application: its links lead to nothing else.
Reached == MARKETING_ROUTES \cup {r.path : r \in APP_ROUTES}

\* Such an address shows its own page.
LEMMA ReachedPages ==
  ASSUME NEW p \in Reached
  PROVE  Matched(p) = rawPath(p)
<1>1. CASE p \in MARKETING_ROUTES
  BY <1>1, MarketingRoute DEF Announced
<1>2. ASSUME NEW r \in APP_ROUTES, p = r.path PROVE Matched(p) = rawPath(p)
  <2>1. Head(p) \in ConsoleSegments
    BY <1>2, ConsolePaths DEF Declared
  <2>2. rawPath(p) = p
    BY <2>1, SiteAssumption DEF rawPath, ConsoleSegments, FirstSegments
  <2> QED
    BY <1>2, <2>2, ConsoleRoute
<1> QED
  BY <1>1, <1>2 DEF Reached

\* The addresses of the console that the source writes out.
LEMMA WrittenRoutes ==
  /\ <<"dev">> \in Reached /\ <<"dev", "ui">> \in Reached /\ <<"servers">> \in Reached
  /\ \A g \in SiteGuilds : \A s \in DashboardSuffixes : <<"dashboard", g>> \o s \in Reached
  /\ \A g \in SiteGuilds : /\ <<"dashboard", g>> \in Reached
                           /\ <<"dashboard", g, "feeds">> \in Reached
                           /\ <<"dashboard", g, "premium">> \in Reached
<1> DEFINE ofGuild(g, s) == [path |-> <<"dashboard", g>> \o s, auth |-> TRUE, guild |-> TRUE]
           console == [path |-> <<"dev">>, auth |-> TRUE, guild |-> FALSE]
           catalog == [path |-> <<"dev", "ui">>, auth |-> FALSE, guild |-> FALSE]
           servers == [path |-> <<"servers">>, auth |-> TRUE, guild |-> FALSE]
<1>1. console \in APP_ROUTES /\ catalog \in APP_ROUTES /\ servers \in APP_ROUTES
  BY DEF APP_ROUTES
<1>2. \A g \in SiteGuilds : \A s \in DashboardSuffixes : ofGuild(g, s) \in APP_ROUTES
  <2> DEFINE fixed(p, needed) == [path |-> p, auth |-> needed, guild |-> FALSE]
             others == {fixed(<<"dev">>, TRUE), fixed(<<"dev", "ui">>, FALSE),
                        fixed(<<"components">>, FALSE), fixed(<<"auth", "callback">>, FALSE),
                        fixed(<<"servers">>, TRUE)}
  <2>1. APP_ROUTES = others \cup {ofGuild(g, s) : g \in SiteGuilds, s \in DashboardSuffixes}
    BY DEF APP_ROUTES
  <2> HIDE DEF ofGuild, others
  <2> QED
    BY <2>1
<1>3. \A g \in SiteGuilds : \A s \in DashboardSuffixes : ofGuild(g, s).path \in Reached
  <2> HIDE DEF ofGuild
  <2> QED
    BY <1>2 DEF Reached
<1>4. console.path \in Reached /\ catalog.path \in Reached /\ servers.path \in Reached
  <2> HIDE DEF console, catalog, servers
  <2> QED
    BY <1>1 DEF Reached
<1>5. \A g \in SiteGuilds : \A s \in DashboardSuffixes : <<"dashboard", g>> \o s \in Reached
  BY <1>3
<1>6. ASSUME NEW g \in SiteGuilds
      PROVE  /\ <<"dashboard", g>> \o <<>> = <<"dashboard", g>>
             /\ <<"dashboard", g>> \o <<"feeds">> = <<"dashboard", g, "feeds">>
             /\ <<"dashboard", g>> \o <<"premium">> = <<"dashboard", g, "premium">>
  <2> DEFINE S == {"dashboard", "feeds", "premium", g}
  <2>1. \A a, b, c \in S : <<a, b>> \o <<c>> = <<a, b, c>>
    <3> SUFFICES ASSUME NEW a \in S, NEW b \in S, NEW c \in S PROVE <<a, b>> \o <<c>> = <<a, b, c>>
      OBVIOUS
    <3> HIDE DEF S
    <3> DEFINE whole == <<a, b>> \o <<c>>
               plain == <<a, b, c>>
    <3>1. /\ whole \in Seq(S) /\ Len(whole) = 3
          /\ whole[1] = a /\ whole[2] = b /\ whole[3] = c
      OBVIOUS
    <3>2. /\ plain \in Seq(S) /\ Len(plain) = 3
          /\ plain[1] = a /\ plain[2] = b /\ plain[3] = c
      OBVIOUS
    <3> HIDE DEF whole, plain
    <3>3. \A i \in 1 .. Len(whole) : whole[i] = plain[i]
      BY <3>1, <3>2
    <3>4. whole = plain
      BY <3>1, <3>2, <3>3, SeqEqual
    <3> QED
      BY <3>4 DEF whole, plain
  <2>2. <<"dashboard", g>> \o <<>> = <<"dashboard", g>>
    <3>1. <<"dashboard", g>> \in Seq(S)
      OBVIOUS
    <3> QED
      BY <3>1, ConcatEmptySeq
  <2> QED
    BY <2>1, <2>2
<1> QED
  BY <1>4, <1>5, <1>6 DEF DashboardSuffixes

\* What is shown is a page of the application, its own page, or a stand-in.
LEMMA MatchedPages ==
  ASSUME NEW p \in Paths
  PROVE  /\ Matched(p) \in Reached \cup {NotFound}
         /\ Matched(p) \in MARKETING_ROUTES /\ Matched(p) # <<>> => Last(p) = Last(Matched(p))
         /\ \A r \in APP_ROUTES : Matched(p) = r.path => p = r.path
<1>1. CASE p \in MARKETING_ROUTES \/ \E r \in APP_ROUTES : r.path = p
  BY <1>1 DEF Matched, Reached
<1>2. CASE /\ ~(p \in MARKETING_ROUTES \/ \E r \in APP_ROUTES : r.path = p)
           /\ p # <<>> /\ Tail(p) \in MARKETING_ROUTES
  <2>1. Matched(p) = Tail(p)
    BY <1>2 DEF Matched
  <2>2. Tail(p) # <<>> => Last(p) = Last(Tail(p))
    <3>1. /\ Len(Tail(p)) = Len(p) - 1 /\ Len(p) \in Nat /\ Tail(p) \in Paths
          /\ \A i \in 1 .. Len(Tail(p)) : Tail(p)[i] = p[i + 1]
      BY <1>2, HeadTailProperties, LenProperties DEF Paths
    <3>2. Tail(p) # <<>> => Len(Tail(p)) \in 1 .. Len(Tail(p)) /\ Len(Tail(p)) + 1 = Len(p)
      BY <3>1, EmptySeq DEF Paths
    <3> QED
      BY <3>1, <3>2 DEF Last
  <2> QED
    BY <1>2, <2>1, <2>2, Disjoint DEF Reached
<1>3. CASE /\ ~(p \in MARKETING_ROUTES \/ \E r \in APP_ROUTES : r.path = p)
           /\ ~(p # <<>> /\ Tail(p) \in MARKETING_ROUTES)
  <2>1. Matched(p) = NotFound
    BY <1>3 DEF Matched
  <2>2. NotFound \notin MARKETING_ROUTES
    <3>1. NotFound # <<>> /\ Head(NotFound) = "404"
      BY DEF NotFound
    <3> QED
      BY <3>1, MarketingPaths DEF PublicSegments
  <2> QED
    BY <2>1, <2>2, Disjoint
<1> QED
  BY <1>1, <1>2, <1>3

\* What a guard shows in the place of a page.
StandIns == {<<"spinner">>, <<"sign in">>, <<"redirect">>}

\* None of them is a page.
LEMMA StandInPages ==
  ASSUME NEW page \in StandIns
  PROVE  /\ page \notin MARKETING_ROUTES /\ page # NotFound /\ ~UsesSEO(page)
         /\ \A r \in APP_ROUTES : r.path # page
<1>1. page # <<>> /\ Head(page) \in {"spinner", "sign in", "redirect"}
  <2>1. \A a : <<a>> # <<>> /\ Head(<<a>>) = a
    OBVIOUS
  <2> QED
    BY <2>1 DEF StandIns
<1>2. page \notin MARKETING_ROUTES
  BY <1>1, MarketingPaths DEF PublicSegments
<1>3. \A a \in {"404", "dev", "components", "servers", "auth"} :
        page # <<a>> /\ \A b : page # <<a, b>>
  <2>1. ASSUME NEW a, NEW b PROVE Head(<<a>>) = a /\ Head(<<a, b>>) = a
    OBVIOUS
  <2> QED
    BY <1>1, <2>1
<1>4. \A r \in APP_ROUTES : r.path # page
  BY <1>1, ConsolePaths DEF Declared, ConsoleSegments
<1>5. ~noIndex(page) /\ page # <<"servers">> /\ page # NotFound
  BY <1>3 DEF noIndex, NotFound
<1> QED
  BY <1>2, <1>4, <1>5 DEF UsesSEO

\* A page is shown to whom its guards admit, a stand-in to the others.
LEMMA ShownPages ==
  ASSUME NEW p \in Paths, NEW who \in {"checking", "anonymous", "member"}
  PROVE  \/ Shown(p, who) \in StandIns /\ GuardOf(p).auth
         \/ /\ Shown(p, who) = Matched(p)
            /\ GuardOf(p).auth => who = "member"
            /\ GuardOf(p).guild => p[2] \in Manageable
<1>1. /\ GuardOf(p).auth \in BOOLEAN /\ GuardOf(p).guild \in BOOLEAN
      /\ GuardOf(p).guild => GuardOf(p).auth
  BY Guarded
<1>2. CASE GuardOf(p).auth /\ who = "checking"
  <2>1. Shown(p, who) = <<"spinner">>
    BY <1>2 DEF Shown
  <2> QED
    BY <1>1, <1>2, <2>1 DEF StandIns
<1>3. CASE GuardOf(p).auth /\ who = "anonymous"
  <2>1. Shown(p, who) = <<"sign in">>
    BY <1>3 DEF Shown
  <2> QED
    BY <1>1, <1>3, <2>1 DEF StandIns
<1>4. CASE GuardOf(p).guild /\ who = "member" /\ p[2] \notin Manageable
  <2>1. Shown(p, who) = <<"redirect">>
    BY <1>4 DEF Shown
  <2> QED
    BY <1>1, <1>4, <2>1 DEF StandIns
<1>5. CASE /\ ~(GuardOf(p).auth /\ who \in {"checking", "anonymous"})
           /\ ~(GuardOf(p).guild /\ who = "member" /\ p[2] \notin Manageable)
  <2>1. Shown(p, who) = Matched(p)
    BY <1>5 DEF Shown
  <2> QED
    BY <1>1, <1>5, <2>1
<1> QED
  BY <1>1, <1>2, <1>3, <1>4, <1>5

\* The addresses a visitor may type, and the links of a page, are addresses.
LEMMA AddressPaths == Addresses \subseteq Paths
<1>1. sitemapUrls \subseteq Paths
  BY SitemapPaths DEF Announced
<1>2. privateNoindexRoutes \subseteq Paths
  BY PrivatePaths
<1>3. Unknown \subseteq Paths
  <2> DEFINE written == UNION {Range(p) : p \in Unknown}
  <2>1. Unknown \subseteq Seq(written) /\ written \subseteq TagNames
    BY SiteAssumption DEF TagNames
  <2> HIDE DEF written
  <2> QED
    BY <2>1 DEF Paths
<1> DEFINE ofGuild(g, s) == <<"dashboard", g>> \o s
<1>4. \A g \in SiteGuilds : \A s \in DashboardSuffixes : ofGuild(g, s) \in Paths
  BY GuildPaths
<1>5. Addresses = sitemapUrls \cup privateNoindexRoutes \cup Unknown
                  \cup {ofGuild(g, s) : g \in SiteGuilds, s \in DashboardSuffixes}
  BY DEF Addresses
<1> HIDE DEF ofGuild
<1> QED
  BY <1>1, <1>2, <1>3, <1>4, <1>5

\* The structured data the application writes for the page shown at p: it names pages
\* of the application, and its breadcrumbs end at the page.
LEMMA WrittenData ==
  ASSUME NEW p \in Paths, NEW r \in MARKETING_ROUTES,
         r # <<>> => Last(p) = Last(r),
         NEW d \in StructuredData(p, r)
  PROVE  /\ d.names \subseteq MARKETING_ROUTES
         /\ d.type = "BreadcrumbList" => r \in d.names
<1>1. \A q \in MARKETING_ROUTES :
        /\ buildBreadcrumbListSchema(q).names \subseteq MARKETING_ROUTES
        /\ q \in buildBreadcrumbListSchema(q).names
  <2> SUFFICES ASSUME NEW q \in MARKETING_ROUTES
               PROVE  /\ {SubSeq(q, 1, n) : n \in 0 .. Len(q)} \subseteq MARKETING_ROUTES
                      /\ q \in {SubSeq(q, 1, n) : n \in 0 .. Len(q)}
    BY DEF buildBreadcrumbListSchema
  <2>1. Len(q) \in 0 .. Len(q)
    BY OnTheWay
  <2> QED
    BY <2>1, OnTheWay
<1> DEFINE Plain == {buildOrganizationSchema, buildWebSiteSchema, buildSoftwareApplicationSchema,
                     buildFaqPageSchema, buildPremiumProductSchema}
<1>2. \A e \in Plain : e.names \subseteq MARKETING_ROUTES /\ e.type # "BreadcrumbList"
  BY WrittenPages
  DEF buildOrganizationSchema, buildWebSiteSchema, buildSoftwareApplicationSchema,
                      buildFaqPageSchema, buildPremiumProductSchema
<1>3. r # <<>> /\ Head(r) = "docs" => subSectionPath(p) = r
  BY Sections
<1>4. d \in Plain \/ d = buildBreadcrumbListSchema(r)
  BY <1>3 DEF StructuredData, HomeData, PremiumData, DocsData, SupportData, PlainData
<1> HIDE DEF Plain
<1> QED
  BY <1>1, <1>2, <1>4

\* The application tells of a page at least what its static file tells.
LEMMA ToldAgain ==
  ASSUME NEW p \in Paths, NEW r \in MARKETING_ROUTES, NEW l \in SiteLocales,
         NEW d \in JsonLd(r, l)
  PROVE  \E e \in StructuredData(p, r) : e.type = d.type
<1> DEFINE crumbs == [type |-> "BreadcrumbList",
                      names |-> {prefix(l) \o SubSeq(r, 1, n) : n \in 0 .. Len(r)}]
           site == [type |-> "WebSite", names |-> {<<>>, <<"docs">>}]
           faq == [type |-> "FAQPage", names |-> {}]
           start(t) == [type |-> t, names |-> {<<>>}]
           product == [type |-> "Product", names |-> {prefix(l) \o r}]
<1>1. /\ crumbs.type = "BreadcrumbList" /\ site.type = "WebSite" /\ faq.type = "FAQPage"
      /\ product.type = "Product" /\ \A t : start(t).type = t
  OBVIOUS
<1>2. /\ buildOrganizationSchema.type = "Organization" /\ buildWebSiteSchema.type = "WebSite"
      /\ buildSoftwareApplicationSchema.type = "SoftwareApplication"
      /\ buildFaqPageSchema.type = "FAQPage" /\ buildPremiumProductSchema.type = "Product"
      /\ \A q : buildBreadcrumbListSchema(q).type = "BreadcrumbList"
  BY DEF buildOrganizationSchema, buildWebSiteSchema, buildSoftwareApplicationSchema,
         buildFaqPageSchema, buildPremiumProductSchema, buildBreadcrumbListSchema
<1>3. CASE r = <<>>
  <2>1. d.type \in {"WebSite", "FAQPage", "Organization", "SoftwareApplication"}
    <3>1. JsonLd(r, l) = {site, faq} \cup {start(t) : t \in {"Organization", "SoftwareApplication"}}
      BY <1>3 DEF JsonLd
    <3> HIDE DEF site, faq, start
    <3> QED
      BY <1>1, <3>1
  <2>2. StructuredData(p, r) = HomeData
    BY <1>3 DEF StructuredData
  <2> QED
    BY <1>2, <2>1, <2>2 DEF HomeData
<1>4. CASE r = <<"premium">>
  <2>1. d.type \in {"FAQPage", "BreadcrumbList", "Product"}
    <3>1. JsonLd(r, l) = {faq, crumbs, product}
      BY <1>4 DEF JsonLd
    <3> HIDE DEF faq, crumbs, product
    <3> QED
      BY <1>1, <3>1
  <2>2. StructuredData(p, r) = PremiumData
    BY <1>4 DEF StructuredData
  <2> QED
    BY <1>2, <2>1, <2>2 DEF PremiumData
<1>5. CASE r # <<>> /\ Head(r) = "docs"
  <2>0. r # <<"premium">> /\ r # <<"support">>
    BY <1>5
  <2>1. d.type \in {"WebSite", "BreadcrumbList"}
    <3>1. JsonLd(r, l) = {site, crumbs}
      BY <1>5, <2>0 DEF JsonLd
    <3> HIDE DEF site, crumbs
    <3> QED
      BY <1>1, <3>1
  <2>2. StructuredData(p, r) = DocsData(p)
    BY <1>5, <2>0 DEF StructuredData
  <2> QED
    BY <1>2, <2>1, <2>2 DEF DocsData
<1>6. CASE r \notin {<<>>, <<"premium">>} /\ ~(r # <<>> /\ Head(r) = "docs")
  <2>1. d.type = "BreadcrumbList"
    <3>1. JsonLd(r, l) = {crumbs}
      BY <1>6 DEF JsonLd
    <3> HIDE DEF crumbs
    <3> QED
      BY <1>1, <3>1
  <2>2. StructuredData(p, r) \in {SupportData, PlainData(r)}
    BY <1>6 DEF StructuredData
  <2> QED
    BY <1>2, <2>1, <2>2 DEF SupportData, PlainData
<1> QED
  BY <1>3, <1>4, <1>5, <1>6

-----------------------------------------------------------------------------
(* The document of the tab.                                                 *)

\* A head has these fields, whatever their values.
IsHead(h) ==
  h = [canonical |-> h.canonical, robots |-> h.robots, own |-> h.own,
       data |-> h.data, file |-> h.file]

\* What the effect leaves behind at path p, of a page that uses it and of one
\* that does not: only the latter may keep what the start page's file says.
Effected(h, p, page) ==
  /\ h.canonical = masterCanonical(p, page)
  /\ h.robots = (IF noIndex(page) THEN "noindex" ELSE "index")
  /\ h.data = (IF noIndex(page) THEN {} ELSE StructuredData(p, page))
  /\ h.own = (IF noIndex(page) THEN {} ELSE generateAlternateHreflangTags(rawPath(p)))
Unmarked(h) ==
  /\ h.robots \in {"index", "noindex"} /\ h.own = {}
  /\ h.data = {} \/ (h.file = <<>> /\ h.data = StaticData(<<>>))

HeadSound(h, p, page) ==
  /\ IsHead(h)
  /\ UsesSEO(page) => Effected(h, p, page)
  /\ ~UsesSEO(page) => Unmarked(h)

\* The effect on a head of any page.
LEMMA SeoEffects ==
  ASSUME NEW h, IsHead(h), NEW p, NEW page
  PROVE  /\ IsHead(SeoEffect(h, p, page)) /\ Effected(SeoEffect(h, p, page), p, page)
         /\ SeoEffect(h, p, page).file = h.file
<1> DEFINE robots == IF noIndex(page) THEN "noindex" ELSE "index"
           data == IF noIndex(page) THEN {} ELSE StructuredData(p, page)
           own == IF noIndex(page) THEN {} ELSE generateAlternateHreflangTags(rawPath(p))
           canonical == masterCanonical(p, page)
           made == [canonical |-> canonical, robots |-> robots, own |-> own,
                    data |-> data, file |-> h.file]
<1>1. SeoEffect(h, p, page)
        = [h EXCEPT !.canonical = canonical, !.robots = robots, !.data = data, !.own = own]
  BY DEF SeoEffect
<1> HIDE DEF robots, data, own, canonical
<1>2. SeoEffect(h, p, page) = made
  BY <1>1 DEF IsHead
<1>3. /\ made.canonical = canonical /\ made.robots = robots /\ made.own = own
      /\ made.data = data /\ made.file = h.file /\ IsHead(made)
  BY DEF IsHead
<1> HIDE DEF made
<1> QED
  BY <1>2, <1>3 DEF Effected, robots, data, own, canonical

\* Its cleanup.
LEMMA SeoCleanups ==
  ASSUME NEW h, NEW p, NEW page, HeadSound(h, p, page)
  PROVE  LET cleaned == IF UsesSEO(page) THEN SeoCleanup(h) ELSE h
         IN IsHead(cleaned) /\ Unmarked(cleaned) /\ cleaned.file = h.file
<1> DEFINE none == {}
           made == [canonical |-> h.canonical, robots |-> h.robots, own |-> none,
                    data |-> none, file |-> h.file]
<1>1. CASE UsesSEO(page)
  <2>0. IsHead(h)
    BY DEF HeadSound
  <2>1. SeoCleanup(h) = made
    <3>1. SeoCleanup(h) = [h EXCEPT !.own = none, !.data = none]
      BY DEF SeoCleanup
    <3> HIDE DEF none
    <3> QED
      BY <2>0, <3>1 DEF IsHead
  <2>2. h.robots \in {"index", "noindex"}
    BY <1>1 DEF HeadSound, Effected
  <2>3. /\ IsHead(made) /\ made.robots = h.robots /\ made.own = {} /\ made.data = {}
        /\ made.file = h.file
    BY DEF IsHead
  <2> HIDE DEF made
  <2> QED
    BY <1>1, <2>1, <2>2, <2>3 DEF Unmarked
<1>2. CASE ~UsesSEO(page)
  BY <1>2 DEF HeadSound
<1> QED
  BY <1>1, <1>2

\* The invariant: how far the build is tells what is written; there is no tab before it
\* is done, and the tab's page and head follow from its address and its visitor.
TabSound(t, who) ==
  /\ t = [path |-> t.path, shown |-> t.shown, entry |-> t.entry, head |-> t.head]
  /\ t.path \in Paths /\ t.entry \in Paths
  /\ t.shown = Shown(t.path, who)
  /\ HeadSound(t.head, t.path, t.shown)
  /\ t.head.file = (IF t.entry \in sitemapUrls \cup privateNoindexRoutes THEN t.entry ELSE <<>>)

DistSound ==
  \/ built = "vite" /\ dist = {}
  \/ built = "root" /\ dist = publicMarketingRoutes
  \/ built = "localized" /\ dist = sitemapUrls
  \/ built \in {"private", "published"} /\ dist = sitemapUrls \cup privateNoindexRoutes

SiteInv ==
  /\ visitor \in {"checking", "anonymous", "member"} /\ DistSound
  /\ \/ tab = Closed /\ visitor = "checking"
     \/ built = "published" /\ TabSound(tab, visitor)

\* A navigation keeps the document in order, whoever the visitor becomes.
LEMMA RenderedPages ==
  ASSUME NEW who, TabSound(tab, visitor), NEW p \in Paths, Render(p, Shown(p, who))
  PROVE  TabSound(tab', who)
<1> DEFINE page == Shown(p, who)
           cleaned == IF UsesSEO(tab.shown) THEN SeoCleanup(tab.head) ELSE tab.head
           head == IF UsesSEO(page) THEN SeoEffect(cleaned, p, page) ELSE cleaned
<1>1. IsHead(cleaned) /\ Unmarked(cleaned) /\ cleaned.file = tab.head.file
  BY SeoCleanups DEF TabSound
<1>2. tab' = [tab EXCEPT !.path = p, !.shown = page, !.head = head]
  BY DEF Render
<1> HIDE DEF cleaned, page
<1>3. HeadSound(head, p, page) /\ head.file = tab.head.file
  BY <1>1, SeoEffects DEF HeadSound
<1> HIDE DEF head
<1>4. tab' = [path |-> p, shown |-> page, entry |-> tab.entry, head |-> head]
  BY <1>2 DEF TabSound
<1>5. /\ tab'.path = p /\ tab'.shown = page /\ tab'.entry = tab.entry /\ tab'.head = head
      /\ tab' = [path |-> tab'.path, shown |-> tab'.shown, entry |-> tab'.entry, head |-> tab'.head]
  BY <1>4
<1> QED
  BY <1>3, <1>5 DEF TabSound, page

\* A document is in order as soon as it is loaded.
LEMMA DocumentLoaded ==
  ASSUME NEW p \in Paths, SiteInv, Load(p)
  PROVE  TabSound(tab', visitor')
<1> DEFINE file == IF p \in dist THEN p ELSE <<>>
           page == Shown(p, "checking")
           bare == [canonical |-> StaticPage(file).canonical, robots |-> "index",
                    own |-> {}, data |-> StaticData(file), file |-> file]
           head == IF UsesSEO(page) THEN SeoEffect(bare, p, page) ELSE bare
<1>1. dist = sitemapUrls \cup privateNoindexRoutes
  BY DEF SiteInv, DistSound, Load
<1>2. /\ tab' = [path |-> p, shown |-> page, entry |-> p, head |-> head]
      /\ visitor' = "checking"
  BY DEF Load
<1>3. /\ IsHead(bare) /\ bare.robots = "index" /\ bare.own = {} /\ bare.data = StaticData(file)
      /\ bare.file = file
  BY DEF IsHead
<1>4. ~UsesSEO(page) => StaticData(file) = {} \/ file = <<>>
  <2>1. CASE p \in sitemapUrls
    <3>1. Matched(p) \in MARKETING_ROUTES /\ ~GuardOf(p).auth
      BY <2>1, SitemapPaths DEF Announced
    <3>2. page = Matched(p)
      BY <3>1, ShownPages
    <3> QED
      BY <3>1, <3>2 DEF UsesSEO
  <2>2. CASE p \in privateNoindexRoutes
    BY <1>1, <2>2 DEF StaticData
  <2>3. CASE p \notin dist
    BY <2>3
  <2> QED
    BY <1>1, <2>1, <2>2, <2>3
<1> HIDE DEF bare, page, file
<1>5. HeadSound(head, p, page) /\ head.file = file
  <2>1. CASE UsesSEO(page)
    BY <1>3, <2>1, SeoEffects DEF HeadSound
  <2>2. CASE ~UsesSEO(page)
    <3>1. Unmarked(bare)
      BY <1>3, <1>4, <2>2 DEF Unmarked
    <3> QED
      BY <1>3, <2>2, <3>1 DEF HeadSound
  <2> QED
    BY <2>1, <2>2
<1> HIDE DEF head
<1>6. /\ tab'.path = p /\ tab'.shown = page /\ tab'.entry = p /\ tab'.head = head
      /\ tab' = [path |-> tab'.path, shown |-> tab'.shown, entry |-> tab'.entry, head |-> tab'.head]
  BY <1>2
<1> QED
  BY <1>1, <1>2, <1>5, <1>6 DEF TabSound, page, file

\* It holds before the build has written anything,
LEMMA SiteInvInit == SiteInit => SiteInv
BY DEF SiteInit, SiteInv, DistSound

\* and every part of the build and every move of a visitor keeps it.
LEMMA SiteInvNext == SiteInv /\ [SiteNext]_siteVars => SiteInv'
<1> SUFFICES ASSUME SiteInv, [SiteNext]_siteVars PROVE SiteInv'
  OBVIOUS
<1> USE DEF SiteInv
<1>1. ASSUME \E p \in Paths, who \in {"checking", "anonymous", "member"} :
               Render(p, Shown(p, who)) /\ visitor' = who,
             tab # Closed \/ visitor # "checking", UNCHANGED <<built, dist>>
      PROVE  SiteInv'
  <2>1. PICK p \in Paths, who \in {"checking", "anonymous", "member"} :
          Render(p, Shown(p, who)) /\ visitor' = who
    BY <1>1
  <2>2. TabSound(tab, visitor) /\ built = "published"
    BY <1>1
  <2>3. TabSound(tab', who)
    BY <2>1, <2>2, RenderedPages
  <2> QED
    BY <1>1, <2>1, <2>2, <2>3 DEF DistSound
<1>2. ASSUME WriteRootPages PROVE SiteInv'
  BY <1>2 DEF WriteRootPages, DistSound
<1>3. ASSUME WriteLocalizedPages PROVE SiteInv'
  BY <1>3 DEF WriteLocalizedPages, DistSound, sitemapUrls
<1>4. ASSUME WritePrivateShells PROVE SiteInv'
  BY <1>4 DEF WritePrivateShells, DistSound
<1>5. ASSUME Publish PROVE SiteInv'
  BY <1>5 DEF Publish, DistSound
<1>6. ASSUME NEW p \in Addresses, Load(p) PROVE SiteInv'
  <2>1. TabSound(tab', visitor')
    BY <1>6, AddressPaths, DocumentLoaded
  <2> QED
    BY <1>6, <2>1 DEF Load, DistSound
<1>7. ASSUME NEW p \in Addresses, Follow(p) PROVE SiteInv'
  BY <1>1, <1>7, AddressPaths DEF Follow
<1>8. ASSUME NEW who \in {"anonymous", "member"}, Recognise(who) PROVE SiteInv'
  <2>1. tab.path \in Paths
    BY <1>8 DEF Recognise, TabSound
  <2> QED
    BY <1>1, <1>8, <2>1 DEF Recognise
<1>9. ASSUME LogoutAndGoHome PROVE SiteInv'
  BY <1>1, <1>9, ShortPaths DEF LogoutAndGoHome
<1>10. Closed.shown = <<"closed">>
  BY DEF Closed
<1>11. <<"servers">> \in Paths
  BY ShortPaths, WrittenNames
<1>12. ASSUME CallbackDone PROVE SiteInv'
  <2>1. tab # Closed
    BY <1>10, <1>12 DEF CallbackDone
  <2> QED
    BY <1>1, <1>11, <1>12, <2>1 DEF CallbackDone
<1>13. ASSUME RedirectToServers PROVE SiteInv'
  <2>1. tab # Closed
    BY <1>10, <1>13 DEF RedirectToServers
  <2> QED
    BY <1>1, <1>11, <1>13, <2>1 DEF RedirectToServers
<1>14. ASSUME CloseTab PROVE SiteInv'
  BY <1>14 DEF CloseTab, DistSound
<1>15. CASE UNCHANGED siteVars
  BY <1>15 DEF siteVars, DistSound
<1> QED
  BY <1>2, <1>3, <1>4, <1>5, <1>6, <1>7, <1>8, <1>9, <1>12, <1>13, <1>14, <1>15 DEF SiteNext

-----------------------------------------------------------------------------
(* What follows from it.                                                    *)

\* What the sitemaps announce is written, admitted and named back.
LEMMA SitemapHolds == SiteInv => SitemapTruthful
<1> SUFFICES ASSUME SiteInv, built = "published", NEW url \in sitemapUrls
             PROVE  /\ url \in dist /\ ~Disallowed(url)
                    /\ "noindex" \notin StaticPage(url).robots
                    /\ Matched(url) = PrerenderedRoute(url)
                    /\ \A alternate \in StaticPage(url).alternates :
                         /\ alternate \in sitemapUrls
                         /\ url \in StaticPage(alternate).alternates
  BY DEF SitemapTruthful
<1> DEFINE r == PrerenderedRoute(url)
<1>1. url \in dist
  BY DEF SiteInv, DistSound
<1>2. /\ ~Disallowed(url) /\ Matched(url) = r /\ r \in MARKETING_ROUTES
  BY SitemapPaths DEF Announced
<1>3. /\ StaticPage(url).robots = {"index"}
      /\ StaticPage(url).alternates = {localizedPath(l, r) : l \in SiteLocales} \cup {r}
  BY StaticPages
<1>4. ASSUME NEW alternate \in StaticPage(url).alternates
      PROVE  /\ alternate \in sitemapUrls
             /\ url \in StaticPage(alternate).alternates
  <2>1. alternate \in sitemapUrls
    BY <1>2, <1>3, <1>4, SitemapPaths
  <2>2. PrerenderedRoute(alternate) = r
    BY <1>2, <1>3, <1>4, MarketingRoute, LocalizedRoute DEF Announced
  <2>3. url \in {localizedPath(l, r) : l \in SiteLocales} \cup {r}
    BY SitemapPaths, MarketingRoute, LocalizedRoute DEF Announced
  <2>4. StaticPage(alternate).alternates = {localizedPath(l, r) : l \in SiteLocales} \cup {r}
    BY <2>1, <2>2, StaticPages
  <2> QED
    BY <2>1, <2>3, <2>4
<1>5. "noindex" \notin StaticPage(url).robots
  BY <1>3
<1> QED
  BY <1>1, <1>2, <1>4, <1>5

\* The links of a static page lead to written pages.
LEMMA StaticLinksHold == SiteInv => StaticLinksLive
<1> SUFFICES ASSUME SiteInv, built = "published", NEW url \in dist \ privateNoindexRoutes
             PROVE  LET route == PrerenderedRoute(url)
                        locale == PrerenderedLocale(url)
                    IN FooterLinks(locale) \cup MainLinks(route, locale) \cup JsonLdLinks(route, locale)
                         \subseteq dist
  BY DEF StaticLinksLive
<1>1. dist = sitemapUrls \cup privateNoindexRoutes
  BY DEF SiteInv, DistSound
<1>2. PrerenderedRoute(url) \in MARKETING_ROUTES /\ PrerenderedLocale(url) \in SiteLocales
  BY <1>1, SitemapPaths DEF Announced
<1> QED
  BY <1>1, <1>2, StaticLinks

\* A page is shown to whom its route admits.
LEMMA GuardsHold == SiteInv => DeclaredGuardsHold
<1> SUFFICES ASSUME SiteInv, NEW r \in APP_ROUTES, tab.shown = r.path
             PROVE  (r.auth => visitor = "member") /\ (r.guild => r.path[2] \in Manageable)
  BY DEF DeclaredGuardsHold
<1>1. tab # Closed
  <2>1. Closed.shown = <<"closed">> /\ Head(<<"closed">>) = "closed"
    BY DEF Closed
  <2>2. Head(r.path) # "closed"
    BY ConsolePaths DEF Declared, ConsoleSegments
  <2> QED
    BY <2>1, <2>2
<1>2. TabSound(tab, visitor) /\ visitor \in {"checking", "anonymous", "member"}
  BY <1>1 DEF SiteInv
<1>3. tab.path \in Paths /\ Shown(tab.path, visitor) = r.path
  BY <1>2 DEF TabSound
<1>4. /\ Matched(tab.path) = r.path
      /\ GuardOf(tab.path).auth => visitor = "member"
      /\ GuardOf(tab.path).guild => tab.path[2] \in Manageable
  BY <1>2, <1>3, ShownPages, StandInPages
<1>5. tab.path = r.path
  BY <1>3, <1>4, MatchedPages
<1>6. GuardOf(r.path).auth = r.auth /\ GuardOf(r.path).guild = r.guild
  <2>1. GuardOf(r.path) = [auth |-> r.auth, guild |-> r.guild]
    BY ConsoleRoute
  <2> QED
    BY <2>1
<1> QED
  BY <1>4, <1>5, <1>6

\* The data of the document names marketing pages, and its breadcrumbs the page shown;
\* where a page without such data is shown, the document's file has brought it.
LEMMA NamedPages ==
  ASSUME SiteInv, NEW d \in tab.head.data
  PROVE  /\ d.names \subseteq MARKETING_ROUTES
         /\ d.type = "BreadcrumbList" => tab.shown \in d.names
         /\ tab.shown \notin MARKETING_ROUTES => d \in StaticData(tab.head.file)
<1>1. tab # Closed
  <2>1. Closed.head.data = {}
    BY DEF Closed
  <2> QED
    BY <2>1
<1>2. TabSound(tab, visitor) /\ visitor \in {"checking", "anonymous", "member"}
  BY <1>1 DEF SiteInv
<1>3. CASE UsesSEO(tab.shown)
  <2>1. d \in StructuredData(tab.path, tab.shown) /\ ~noIndex(tab.shown)
    BY <1>2, <1>3 DEF TabSound, HeadSound, Effected
  <2>2. tab.shown \in MARKETING_ROUTES
    <3>1. tab.shown \in MARKETING_ROUTES \cup {<<"servers">>}
      BY <1>3, <2>1 DEF UsesSEO, noIndex
    <3>2. <<"servers">> \notin MARKETING_ROUTES
      BY WrittenRoutes, MarketingPaths DEF PublicSegments
    <3>3. \A p : StructuredData(p, <<"servers">>) = {}
      BY <3>2 DEF StructuredData
    <3> QED
      BY <2>1, <3>1, <3>3
  <2>3. tab.shown = Matched(tab.path)
    BY <1>2, <2>2, ShownPages, StandInPages DEF TabSound
  <2>4. tab.path \in Paths /\ (tab.shown # <<>> => Last(tab.path) = Last(tab.shown))
    BY <1>2, <2>2, <2>3, MatchedPages DEF TabSound
  <2> QED
    BY <2>1, <2>2, <2>4, WrittenData
<1>4. CASE ~UsesSEO(tab.shown)
  <2>1. tab.head.file = <<>> /\ tab.head.data = StaticData(<<>>)
    BY <1>2, <1>4 DEF TabSound, HeadSound, Unmarked
  <2>2. <<>> \in sitemapUrls /\ PrerenderedRoute(<<>>) = <<>> /\ PrerenderedLocale(<<>>) \in SiteLocales
    BY SitemapPaths, MarketingRoute, MarketingPaths DEF Announced
  <2>3. d \in JsonLd(<<>>, PrerenderedLocale(<<>>))
    BY <2>1, <2>2, StaticPages
  <2>4. d.names \subseteq MARKETING_ROUTES /\ d.type # "BreadcrumbList"
    BY <2>2, <2>3, StaticNames, MarketingPaths
  <2> QED
    BY <2>1, <2>4
<1> QED
  BY <1>3, <1>4

\* The links of the application lead to pages of the application.
LEMMA LinksHold == SiteInv => NoLinkToNowhere
<1> SUFFICES ASSUME SiteInv PROVE NoLinkToNowhere
  OBVIOUS
<1> DEFINE named == UNION {d.names : d \in tab.head.data}
<1>1. /\ MARKETING_ROUTES \subseteq Reached /\ NAV_ITEMS \subseteq Reached
      /\ FOOTER_LINKS \subseteq Reached /\ DocsTabs \subseteq Reached
  BY WrittenPages DEF Reached, NAV_ITEMS, FOOTER_LINKS, DocsTabs
<1>2. MobileLinks \subseteq Reached
  BY <1>1, WrittenPages, WrittenRoutes DEF MobileLinks, NavbarLinks, Reached
<1>3. \A p : SignInLinks(p) \subseteq Reached
  BY <1>1, WrittenPages, WrittenRoutes DEF SignInLinks
<1>4. ASSUME NEW page \in MARKETING_ROUTES \ {<<>>} PROVE RelatedLinks(page) \subseteq Reached
  BY <1>1, WrittenPages DEF RelatedLinks
<1>5. PickerLinks \subseteq Reached
  BY WrittenRoutes, SiteAssumption DEF PickerLinks
<1>6. /\ PlanLinks \subseteq Reached /\ NotFoundLinks \subseteq Reached
      /\ CallbackLinks \subseteq Reached /\ ConsoleLinks \subseteq Reached
  BY <1>1, WrittenPages, WrittenRoutes DEF PlanLinks, NotFoundLinks, CallbackLinks, ConsoleLinks
<1>7. \A p, page : PageLinks(p, page) \subseteq Reached
  BY <1>1, <1>3, <1>4, <1>5, <1>6 DEF PageLinks
<1>8. ASSUME NEW g \in SiteGuilds
      PROVE  SidebarLinks(g) \cup OverviewLinks(g) \cup UpgradeLinks(g) \subseteq Reached
  <2> DEFINE ofGuild(s) == <<"dashboard", g>> \o s
             guild(h) == <<"dashboard", h>>
  <2>1. \A s \in DashboardSuffixes : ofGuild(s) \in Reached
    BY WrittenRoutes
  <2>2. \A h \in SampleGuilds : guild(h) \in Reached
    BY WrittenRoutes, SiteAssumption
  <2>3. SidebarLinks(g) = {ofGuild(s) : s \in DashboardSuffixes}
                          \cup {guild(h) : h \in SampleGuilds} \cup {<<"servers">>, <<>>}
    BY DEF SidebarLinks
  <2>4. SidebarLinks(g) \subseteq Reached
    <3> HIDE DEF ofGuild, guild
    <3> QED
      BY <1>1, <2>1, <2>2, <2>3, WrittenPages, WrittenRoutes
  <2>5. OverviewLinks(g) \cup UpgradeLinks(g) \subseteq Reached
    BY WrittenRoutes DEF OverviewLinks, UpgradeLinks
  <2> QED
    BY <2>4, <2>5
<1>9. tab.path \in Paths
  BY ShortPaths, WrittenNames DEF SiteInv, TabSound, Closed, NotFound
<1>10. LinksOn(tab.path, tab.shown) \subseteq Reached
  <2>1. CASE ~GuardOf(tab.path).guild
    BY <1>1, <1>2, <1>7, <2>1 DEF LinksOn
  <2>2. CASE GuardOf(tab.path).guild
    <3>1. tab.path[2] \in SiteGuilds
      BY <1>9, <2>2, Guarded
    <3> QED
      BY <1>3, <1>8, <2>2, <3>1 DEF LinksOn
  <2> QED
    BY <2>1, <2>2
<1>11. Breadcrumbs(tab.shown) \subseteq Reached
  BY <1>1, WrittenPages DEF Breadcrumbs
<1>12. named \subseteq Reached
  BY <1>1, NamedPages
<1> QED
  BY <1>10, <1>11, <1>12, ReachedPages DEF NoLinkToNowhere

\* A marketing page uses the effect, and is to be indexed.
LEMMA IndexedPages ==
  ASSUME NEW r \in MARKETING_ROUTES
  PROVE  UsesSEO(r) /\ ~noIndex(r)
<1>1. \A q \in {NotFound, <<"dev">>, <<"dev", "ui">>, <<"components">>, <<"auth", "callback">>} :
        q # <<>> /\ Head(q) \notin PublicSegments
  BY DEF NotFound, PublicSegments
<1> QED
  BY <1>1, MarketingPaths DEF UsesSEO, noIndex

\* A closed tab is at no announced address.
LEMMA ClosedNowhere == Closed.path \notin sitemapUrls
<1>1. Closed.path = NotFound
  BY DEF Closed
<1>2. NotFound \in Paths /\ Len(NotFound) = 1 /\ Head(NotFound) = "404" /\ NotFound # <<>>
  BY ShortPaths, WrittenNames DEF NotFound
<1>3. NotFound \notin MARKETING_ROUTES
  BY <1>2, MarketingPaths DEF PublicSegments
<1>4. ASSUME NEW l \in SiteLocales, NEW r \in MARKETING_ROUTES PROVE NotFound # localizedPath(l, r)
  BY <1>2, LocalizedRoute, SiteAssumption DEF FirstSegments
<1> QED
  BY <1>1, <1>3, <1>4, SitemapPaths

\* The head is the one the static file of the address has.
LEMMA HeadHolds == SiteInv => HeadOfShownPage
<1> SUFFICES ASSUME SiteInv PROVE HeadOfShownPage
  OBVIOUS
<1>1. CASE tab = Closed
  <2>1. tab.path \notin sitemapUrls
    BY <1>1, ClosedNowhere
  <2>2. tab.head.own = {}
    BY <1>1 DEF Closed
  <2> QED
    BY <2>1, <2>2 DEF HeadOfShownPage
<1>2. CASE tab # Closed
  <2>1. TabSound(tab, visitor) /\ visitor \in {"checking", "anonymous", "member"}
    BY <1>2 DEF SiteInv
  <2>2. ASSUME tab.path \in sitemapUrls
        PROVE  /\ tab.head.canonical = StaticPage(tab.path).canonical
               /\ tab.head.own = StaticPage(tab.path).alternates
               /\ tab.head.robots = "index"
    <3> DEFINE r == PrerenderedRoute(tab.path)
    <3>1. Announced(tab.path, r)
      BY <2>2, SitemapPaths
    <3>2. tab.shown = r /\ r \in MARKETING_ROUTES
      BY <2>1, <3>1, ShownPages DEF Announced, TabSound
    <3>3. UsesSEO(r) /\ ~noIndex(r)
      BY <3>2, IndexedPages
    <3>4. Effected(tab.head, tab.path, r)
      BY <2>1, <3>2, <3>3 DEF TabSound, HeadSound
    <3>5. /\ tab.head.canonical = r /\ tab.head.robots = "index"
          /\ tab.head.own = generateAlternateHreflangTags(r)
      BY <3>1, <3>3, <3>4 DEF Effected, Announced
    <3> QED
      BY <2>2, <3>5, StaticPages DEF generateAlternateHreflangTags
  <2>3. UsesSEO(tab.shown) \/ tab.head.own = {}
    BY <2>1 DEF TabSound, HeadSound, Unmarked
  <2> QED
    BY <2>2, <2>3 DEF HeadOfShownPage
<1> QED
  BY <1>1, <1>2

\* The structured data tells of the page that is shown.
LEMMA DataHolds == SiteInv => DataOfShownPage
<1> SUFFICES ASSUME SiteInv PROVE DataOfShownPage
  OBVIOUS
<1>1. ASSUME tab.path \in sitemapUrls
      PROVE  {d.type : d \in StaticData(tab.path)} \subseteq {d.type : d \in tab.head.data}
  <2> DEFINE r == PrerenderedRoute(tab.path)
  <2>1. tab # Closed
    BY <1>1, ClosedNowhere
  <2>2. TabSound(tab, visitor) /\ visitor \in {"checking", "anonymous", "member"}
    BY <2>1 DEF SiteInv
  <2>3. Announced(tab.path, r)
    BY <1>1, SitemapPaths
  <2>4. tab.shown = r /\ r \in MARKETING_ROUTES
    BY <2>2, <2>3, ShownPages DEF Announced, TabSound
  <2>5. UsesSEO(r) /\ ~noIndex(r)
    BY <2>4, IndexedPages
  <2>6. tab.head.data = StructuredData(tab.path, r)
    BY <2>2, <2>4, <2>5 DEF TabSound, HeadSound, Effected
  <2>7. StaticData(tab.path) = JsonLd(r, PrerenderedLocale(tab.path))
    BY <1>1, StaticPages
  <2> QED
    BY <2>3, <2>6, <2>7, ToldAgain DEF Announced
<1> QED
  BY <1>1, NamedPages DEF DataOfShownPage

\* A page behind a guard is kept from the indexes.
LEMMA PrivateHolds == SiteInv => PrivateNotIndexed
<1> SUFFICES ASSUME SiteInv, tab # Closed, tab.path = tab.entry,
                    GuardOf(tab.path).auth \/ tab.path \in privateNoindexRoutes
             PROVE  \/ "noindex" \in StaticPage(tab.head.file).robots \/ Disallowed(tab.path)
  BY DEF PrivateNotIndexed
<1>1. TabSound(tab, visitor)
  BY DEF SiteInv
<1>2. CASE tab.path \in privateNoindexRoutes
  <2>1. tab.head.file = tab.path
    BY <1>1, <1>2 DEF TabSound
  <2> QED
    BY <1>2, <2>1 DEF StaticPage, renderNoindexShell
<1>3. CASE tab.path \notin privateNoindexRoutes
  <2>1. tab.path \in Paths
    BY <1>1 DEF TabSound
  <2>2. PICK r \in APP_ROUTES : r.path = tab.path
    BY <1>3, <2>1, Guarded
  <2>3. r.auth
    <3>1. GuardOf(tab.path) = [auth |-> r.auth, guild |-> r.guild]
      BY <2>2, ConsoleRoute
    <3> QED
      BY <1>3, <3>1
  <2>4. r.path \notin {<<"dev">>, <<"servers">>}
    BY <1>3, <2>2 DEF privateNoindexRoutes
  <2>5. r.path # <<>> /\ Head(r.path) = "dashboard"
    BY <2>3, <2>4, ConsolePaths DEF Declared
  <2> QED
    BY <2>2, <2>5 DEF Disallowed
<1> QED
  BY <1>2, <1>3

\* The invariant contains the type invariant and the truth of the site.
LEMMA SiteSound == SiteInv => SiteTypeOK /\ SiteTruthful
<1> SUFFICES ASSUME SiteInv PROVE SiteTypeOK /\ SiteTruthful
  OBVIOUS
<1>1. SiteTruthful
  BY SitemapHolds, StaticLinksHold, GuardsHold, LinksHold, HeadHolds, DataHolds, PrivateHolds
     DEF SiteTruthful, AddressesHold, HeadMatchesPage
<1>2. built \in BuildSteps /\ visitor \in {"checking", "anonymous", "member"}
  BY DEF SiteInv, DistSound, BuildSteps
<1>3. dist \subseteq sitemapUrls \cup privateNoindexRoutes
  BY DEF SiteInv, DistSound, sitemapUrls
<1>4. \A d \in tab.head.data : d.names \subseteq sitemapUrls
  BY NamedPages, SitemapPaths
<1>5. tab.head.robots \in {"index", "noindex"} /\ tab.head.file \in dist \cup {<<>>}
  <2>1. CASE tab = Closed
    BY <2>1 DEF Closed
  <2>2. CASE built = "published" /\ TabSound(tab, visitor)
    <3>1. tab.head.robots \in {"index", "noindex"}
      BY <2>2 DEF TabSound, HeadSound, Effected, Unmarked
    <3>2. tab.head.file \in dist \cup {<<>>}
      BY <2>2 DEF TabSound, SiteInv, DistSound
    <3> QED
      BY <3>1, <3>2
  <2> QED
    BY <2>1, <2>2 DEF SiteInv
<1> QED
  BY <1>1, <1>2, <1>3, <1>4, <1>5 DEF SiteTypeOK

\* Whatever the build has written and whatever a visitor clicks, types or leaves: the
\* sitemaps and the static pages lead to written pages, no link of the application or of
\* its structured data to the page that says not found, no page is shown past the guards
\* its route declares, and the head of the document is that of the page shown
\* (prerender.js, routes/config.ts, AppRoutes.tsx, useSEO.ts).
THEOREM SiteAlwaysTruthful == SiteSpec => [](SiteTypeOK /\ SiteTruthful)
<1>1. SiteSpec => []SiteInv
  BY SiteInvInit, SiteInvNext, PTL DEF SiteSpec
<1> QED
  BY <1>1, SiteSound, PTL
=============================================================================
