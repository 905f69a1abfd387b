-------------------------- MODULE FeedPipelineProofs --------------------------
(***************************************************************************)
(* Theorems about FeedPipeline, for any feeds, guilds and interventions.   *)
(***************************************************************************)
EXTENDS FeedPipeline, TLAPS

\* A coroutine that ends stays well typed.
LEMMA FinishType == ASSUME ProcsTypeOK, NEW p \in Procs, Finish(p) PROVE ProcsTypeOK'
  BY DEF ProcsTypeOK, Finish

\* So does one that goes on with the next monitor.
LEMMA NextMonitorType ==
  ASSUME ProcsTypeOK, NEW p \in Procs, NextMonitor(p) PROVE ProcsTypeOK'
<1>1. CASE left[p] = {}
  BY <1>1, FinishType DEF NextMonitor
<1>2. CASE left[p] # {}
  BY <1>2 DEF NextMonitor, ProcsTypeOK
<1> QED
  BY <1>1, <1>2

\* Each step keeps every variable, history variables included, in its range.
LEMMA TypeStep == TypeOK /\ [Next]_vars => TypeOK'
<1> SUFFICES ASSUME TypeOK, [Next]_vars PROVE TypeOK'
  OBVIOUS
<1> USE FeedAssumption DEF TypeOK, Disrupt, SyncsTypeOK, GhostsTypeOK, Procs, Objects, Epochs, Pairs, Space, Feed,
        world, table, memory, procs, syncs, ghosts
<1>1. ASSUME NEW f \in Feeds, NEW i \in Items, Appear(f, i) PROVE TypeOK'
  BY <1>1 DEF Appear, ProcsTypeOK
<1>2. ASSUME NEW f \in Feeds, NEW i \in Items, Withdraw(f, i) PROVE TypeOK'
  BY <1>2 DEF Withdraw, ProcsTypeOK
<1>3. ASSUME NEW y \in Syncers, NEW m \in Monitors,
             CreateFeed(y, m) \/ UpdateFeed(y, m) \/ DeleteFeed(y, m)
      PROVE  TypeOK'
  <2>1. CASE CreateFeed(y, m)
    <3>1. GhostsTypeOK' /\ SyncsTypeOK'
      BY <2>1 DEF CreateFeed, Edited
    <3>2. enabled' \subseteq rows' /\ rows' \subseteq Monitors /\ spare' \subseteq Monitors \ rows'
      BY <2>1 DEF CreateFeed, Edited
    <3> QED
      BY <3>1, <3>2, <2>1 DEF CreateFeed, Edited, ProcsTypeOK
  <2>2. CASE UpdateFeed(y, m)
    <3>1. GhostsTypeOK' /\ SyncsTypeOK'
      BY <2>2 DEF UpdateFeed, Edited
    <3>2. enabled' \subseteq rows' /\ rows' \subseteq Monitors /\ spare' \subseteq Monitors \ rows'
      BY <2>2 DEF UpdateFeed, Edited
    <3> QED
      BY <3>1, <3>2, <2>2 DEF UpdateFeed, Edited, ProcsTypeOK
  <2>3. CASE DeleteFeed(y, m)
    <3>1. GhostsTypeOK' /\ SyncsTypeOK'
      BY <2>3 DEF DeleteFeed, Edited
    <3>2. enabled' \subseteq rows' /\ rows' \subseteq Monitors /\ spare' \subseteq Monitors \ rows'
      BY <2>3 DEF DeleteFeed, Edited
    <3> QED
      BY <3>1, <3>2, <2>3 DEF DeleteFeed, Edited, ProcsTypeOK
  <2> QED
    BY <1>3, <2>1, <2>2, <2>3
<1>4. ASSUME NEW f \in Feeds, Elapse(f) PROVE TypeOK'
  BY <1>4 DEF Elapse, ProcsTypeOK
<1>5. CASE Boot
  BY <1>5 DEF Boot, ProcsTypeOK
<1>6. CASE Crash
  <2>1. ProcsTypeOK'
    BY <1>6 DEF Crash, ProcsTypeOK
  <2>2. SyncsTypeOK'
    BY <1>6 DEF Crash
  <2>3. GhostsTypeOK'
    BY <1>6 DEF Crash
  <2> QED
    <3>1. up' \in BOOLEAN
      BY <1>6 DEF Crash
    <3> QED
      BY <2>1, <2>2, <2>3, <3>1, <1>6 DEF Crash
<1>7. ASSUME NEW y \in Syncers, SyncRequest(y) \/ SyncSnapshot(y) PROVE TypeOK'
  <2>1. CASE SyncRequest(y)
    BY <2>1 DEF SyncRequest, ProcsTypeOK
  <2>2. CASE SyncSnapshot(y)
    BY <2>2 DEF SyncSnapshot, ProcsTypeOK
  <2> QED
    BY <1>7, <2>1, <2>2
<1>8. ASSUME NEW y \in Syncers, SyncRead(y) PROVE TypeOK'
  BY <1>8 DEF SyncRead, ProcsTypeOK
<1>9. ASSUME NEW y \in Syncers, SyncSwap(y) PROVE TypeOK'
  BY <1>9 DEF SyncSwap, Rebuilt, EnabledRebuilt, ProcsTypeOK
<1>10. ASSUME NEW y \in Syncers, SyncFails(y) PROVE TypeOK'
  BY <1>10 DEF SyncFails, ProcsTypeOK
<1>11. CASE Tick
  BY <1>11 DEF Tick, Pollable, ProcsTypeOK
<1>12. ASSUME NEW f \in Feeds, Fetch(f) PROVE TypeOK'
  <2>1. CASE source[f] = {}
    <3>1. ProcsTypeOK'
      BY <2>1, <1>12, FinishType DEF Fetch
    <3> QED
      BY <3>1, <1>12 DEF Fetch
  <2>2. CASE source[f] # {}
    <3>1. /\ pc' = [pc EXCEPT ![f] = "dedup"]
          /\ got' = [got EXCEPT ![f] = source[f]]
          /\ UNCHANGED <<left, at, mine, todo>>
      BY <2>2, <1>12 DEF Fetch
    <3>2. ProcsTypeOK'
      BY <3>1 DEF ProcsTypeOK
    <3> QED
      BY <3>2, <1>12 DEF Fetch
  <2> QED
    BY <2>1, <2>2
<1>13. ASSUME NEW f \in Feeds, FetchFails(f) PROVE TypeOK'
  BY <1>13, FinishType DEF FetchFails
<1>14. ASSUME NEW f \in Feeds, Dedup(f) PROVE TypeOK'
  BY <1>14 DEF Dedup, Unpublished, ProcsTypeOK
<1>15. ASSUME NEW f \in Feeds, DedupFails(f) PROVE TypeOK'
  <2>1. ProcsTypeOK'
    <3>1. PICK o \in left[f] :
            IF left[f] = {o} THEN Finish(f)
            ELSE left' = [left EXCEPT ![f] = @ \ {o}] /\ UNCHANGED <<pc, at, got, mine, todo>>
      BY <1>15 DEF DedupFails
    <3>2. CASE left[f] = {o}
      BY <3>1, <3>2, FinishType
    <3>3. CASE left[f] # {o}
      <4>1. left' = [left EXCEPT ![f] = @ \ {o}] /\ UNCHANGED <<pc, at, got, mine, todo>>
        BY <3>1, <3>3
      <4> QED
        BY <4>1 DEF ProcsTypeOK
    <3> QED
      BY <3>2, <3>3
  <2> QED
    BY <2>1, <1>15 DEF DedupFails
<1>16. ASSUME NEW c \in Checkers, StartCheck(c) PROVE TypeOK'
  BY <1>16 DEF StartCheck, ProcsTypeOK
<1>17. ASSUME NEW c \in Checkers, NEW i \in Items, Ask(c, i) PROVE TypeOK'
  <2>1. PICK o \in at[c] :
          LET new == NewTo(o, i) IN
          IF got[c] = {i} /\ mine[c] \cup new = {}
          THEN Finish(c) /\ UNCHANGED excused
          ELSE /\ got' = [got EXCEPT ![c] = @ \ {i}]
               /\ mine' = [mine EXCEPT ![c] = @ \cup new]
               /\ todo' = [todo EXCEPT ![c] = @ \cup new]
               /\ pc' = [pc EXCEPT ![c] = IF got[c] = {i} THEN "send" ELSE "ask"]
               /\ excused' = excused \cup
                    {x \in {Space(o)} \X new : \E p \in Procs \ {c} : Claims(p, x[1], x[2])}
               /\ UNCHANGED <<left, at>>
    BY <1>17 DEF Ask
  <2>2. Space(o) \in Spaces
    BY DEF ProcsTypeOK
  <2>3. ProcsTypeOK'
    <3>1. CASE got[c] = {i} /\ mine[c] \cup NewTo(o, i) = {}
      BY <2>1, <3>1, FinishType
    <3>2. CASE ~(got[c] = {i} /\ mine[c] \cup NewTo(o, i) = {})
      <4> DEFINE new == NewTo(o, i)
      <4>1. /\ got' = [got EXCEPT ![c] = @ \ {i}]
            /\ mine' = [mine EXCEPT ![c] = @ \cup new]
            /\ todo' = [todo EXCEPT ![c] = @ \cup new]
            /\ pc' = [pc EXCEPT ![c] = IF got[c] = {i} THEN "send" ELSE "ask"]
            /\ UNCHANGED <<left, at>>
        BY <2>1, <3>2
      <4>2. new \subseteq Items
        BY DEF NewTo
      <4> HIDE DEF new
      <4> QED
        BY <4>1, <4>2 DEF ProcsTypeOK
    <3> QED
      BY <3>1, <3>2
  <2>4. excused' \subseteq Pairs
    <3>1. \/ excused' = excused
          \/ excused' = excused \cup
               {x \in {Space(o)} \X NewTo(o, i) :
                  \E q \in Procs \ {c} : Claims(q, x[1], x[2])}
      BY <2>1
    <3> QED
      BY <2>2, <3>1 DEF NewTo
  <2> QED
    BY <2>3, <2>4, <1>17 DEF Ask
<1>18. ASSUME NEW c \in Checkers, CheckAborts(c) PROVE TypeOK'
  BY <1>18, FinishType DEF CheckAborts
<1>19. ASSUME NEW p \in Procs, NEW i \in Items, Send(p, i) PROVE TypeOK'
  BY <1>19 DEF Send, Dispatched, ProcsTypeOK
<1>20. ASSUME NEW p \in Procs, NEW i \in Items, SendFails(p, i) PROVE TypeOK'
  BY <1>20 DEF SendFails, Dispatched, ProcsTypeOK
<1>21. ASSUME NEW p \in Procs, Mark(p) PROVE TypeOK'
  <2>1. ProcsTypeOK'
    BY <1>21, FinishType, NextMonitorType DEF Mark
  <2>2. PICK o \in at[p] :
          /\ pub' = [pub EXCEPT ![Space(o)] = @ \cup Recorded(p)]
          /\ firstRun' = FlagCleared(p, o)
          /\ seeded' = IF p \in Feeds THEN seeded \cup {o[1]} ELSE seeded
    BY <1>21 DEF Mark
  <2>3. o \in Objects /\ Recorded(p) \subseteq Items
    BY DEF ProcsTypeOK, Recorded
  <2>4. pub' \in [Spaces -> SUBSET Items] /\ firstRun' \subseteq Objects /\ seeded' \subseteq Monitors
    BY <2>2, <2>3 DEF FlagCleared
  <2> QED
    BY <2>1, <2>4, <1>21 DEF Mark
<1>22. ASSUME NEW p \in Procs, MarkFails(p) PROVE TypeOK'
  <2>1. ProcsTypeOK'
    BY <1>22, FinishType, NextMonitorType DEF MarkFails
  <2> QED
    BY <2>1, <1>22 DEF MarkFails
<1>23. ASSUME NEW s \in Spaces, Reset(s) PROVE TypeOK'
  BY <1>23 DEF Reset, Forget, ProcsTypeOK
<1>24. CASE ResetAll
  BY <1>24 DEF ResetAll, Forget, ProcsTypeOK
<1>25. CASE FactoryReset
  BY <1>25 DEF FactoryReset, Forget, ProcsTypeOK
<1>26. CASE Age
  BY <1>26 DEF Age, ProcsTypeOK
<1>27. CASE Retention
  BY <1>27 DEF Retention, Forget, ProcsTypeOK
<1>28. CASE UNCHANGED vars
  BY <1>28 DEF vars, ProcsTypeOK
<1> QED
  BY <1>1, <1>2, <1>3, <1>4, <1>5, <1>6, <1>7, <1>8, <1>9, <1>10, <1>11, <1>12,
     <1>13, <1>14, <1>15, <1>16, <1>17, <1>18, <1>19, <1>20, <1>21, <1>22, <1>23,
     <1>24, <1>25, <1>26, <1>27, <1>28
  DEF Next, Run, Check, Sync, Failure, Maintenance

\* The state of every run keeps the types of FeedPipeline's variables.
THEOREM TypeCorrect == Spec => []TypeOK
<1>1. Init => TypeOK
  <2> SUFFICES ASSUME Init PROVE TypeOK
    OBVIOUS
  <2>1. ProcsTypeOK
    BY DEF Init, ProcsTypeOK
  <2>2. SyncsTypeOK
    BY DEF Init, SyncsTypeOK
  <2>3. GhostsTypeOK
    BY DEF Init, GhostsTypeOK
  <2>4. up \in BOOLEAN
    BY DEF Init
  <2>5. epoch \in Epochs /\ spent \in 0..MaxDisruptions
    <3>1. epoch = 0 /\ spent = 0
      BY DEF Init
    <3> QED
      BY <3>1, FeedAssumption DEF Epochs
  <2>6. /\ source \in [Feeds -> SUBSET Items]
        /\ pub \in [Spaces -> SUBSET Items] /\ old \in [Spaces -> SUBSET Items]
        /\ rows \subseteq Monitors /\ enabled \subseteq rows /\ spare \subseteq Monitors \ rows
        /\ loaded \subseteq Objects /\ awake \subseteq loaded
        /\ firstRun \subseteq Objects /\ due \subseteq Feeds
    BY DEF Init
  <2> QED
    BY <2>1, <2>2, <2>3, <2>4, <2>5, <2>6 DEF TypeOK
<1> QED
  BY <1>1, TypeStep, PTL DEF Spec

-----------------------------------------------------------------------------
(* Accounting.  Most steps leave what is in hand alone or let go of it.    *)

\* A step leaves what a coroutine has in hand alone.
Same(p) ==
  /\ pc'[p] = pc[p] /\ at'[p] = at[p] /\ got'[p] = got[p]
  /\ mine'[p] = mine[p] /\ todo'[p] = todo[p]

\* p holds nothing any more, and what it had sent is recorded or excused.
LetGo(p) ==
  /\ pc'[p] \notin {"ask", "send", "mark"}
  /\ mine'[p] = {} /\ todo'[p] = {}
  /\ \A x \in Pairs : Exposed(p, x[1], x[2]) =>
       x[2] \in pub'[x[1]] \cup Nameless \/ x \in excused'

\* Records disappear only with an excuse.
Covered ==
  /\ tally' = tally
  /\ excused \subseteq excused'
  /\ \A x \in Pairs : x[2] \in pub[x[1]] => x[2] \in pub'[x[1]] \/ x \in excused'

\* What one coroutine lets go of is accounted for, and the others keep what they hold.
LEMMA Release ==
  ASSUME Accounting, Covered, \A p \in Procs : Same(p) \/ LetGo(p)
  PROVE  Accounting'
<1> USE DEF Covered, Holds
<1>1. Ledger'
  <2> SUFFICES ASSUME NEW x \in Pairs, tally'[x] \in {"sent", "again"}
               PROVE  \/ x[2] \in pub'[x[1]] \cup Nameless
                      \/ x \in excused'
                      \/ \E p \in Procs : Exposed(p, x[1], x[2])'
    BY DEF Ledger
  <2>1. CASE x[2] \in pub[x[1]] \cup Nameless \/ x \in excused
    BY <2>1
  <2>2. ASSUME NEW p \in Procs, Exposed(p, x[1], x[2])
        PROVE  \/ x[2] \in pub'[x[1]] \cup Nameless
               \/ x \in excused'
               \/ Exposed(p, x[1], x[2])'
    BY <2>2 DEF Exposed, Same, LetGo
  <2> QED
    BY <2>1, <2>2 DEF Accounting, Ledger
<1>2. InHandUnsent'
  BY DEF Accounting, InHandUnsent, Same, LetGo
<1>3. OneHolder'
  BY DEF Accounting, OneHolder, Claims, Same, LetGo
<1>4. InHand'
  BY DEF Accounting, InHand, Same, LetGo
<1>5. DuplicatesExplained'
  BY DEF Accounting, DuplicatesExplained
<1> QED
  BY <1>1, <1>2, <1>3, <1>4, <1>5 DEF Accounting

\* f's lookup claims new items for the monitor object o.
LEMMA DedupAccounts ==
  ASSUME TypeOK, Accounting, NEW f \in Feeds, Dedup(f)
  PROVE  Accounting'
<1> PICK o \in left[f] :
      LET new == Unpublished(f, o) IN
      /\ left' = [left EXCEPT ![f] = @ \ {o}]
      /\ at' = [at EXCEPT ![f] = {o}]
      /\ mine' = [mine EXCEPT ![f] = new]
      /\ todo' = [todo EXCEPT ![f] = new]
      /\ pc' = [pc EXCEPT ![f] = IF new = {} THEN "mark" ELSE "send"]
      /\ excused' = excused \cup
           {x \in {Space(o)} \X new : \E p \in Procs \ {f} : Claims(p, x[1], x[2])}
  BY DEF Dedup
<1> DEFINE new == Unpublished(f, o)
<1>1. /\ o \in Objects /\ f \in Procs /\ Space(o) \in Spaces
      /\ new \subseteq Items /\ new \subseteq got[f] /\ new \cap pub[Space(o)] = {}
  BY FeedAssumption DEF Unpublished, TypeOK, ProcsTypeOK, Procs, Objects, Space
<1>2. /\ pc[f] = "dedup" /\ pc'[f] \in {"mark", "send"}
      /\ at'[f] = {o} /\ mine'[f] = new /\ todo'[f] = new
      /\ got' = got /\ pub' = pub /\ tally' = tally
      /\ excused \subseteq excused'
  BY <1>1 DEF Dedup, TypeOK, ProcsTypeOK, table
<1>3. \A p \in Procs \ {f} : Same(p)
  BY <1>2 DEF TypeOK, ProcsTypeOK, Same
<1>4. \A i \in new : \A p \in Procs \ {f} :
        Claims(p, Space(o), i) => <<Space(o), i>> \in excused'
  OBVIOUS
<1>5. \A p \in Procs \ {f} : \A x \in Pairs :
        /\ Exposed(p, x[1], x[2])' <=> Exposed(p, x[1], x[2])
        /\ Claims(p, x[1], x[2])' <=> Claims(p, x[1], x[2])
  BY <1>3 DEF Same, Exposed, Claims, Holds
<1>6. \A x \in Pairs : ~Exposed(f, x[1], x[2]) /\ ~Claims(f, x[1], x[2])
  BY <1>2 DEF Exposed, Claims, Holds
<1> HIDE DEF new
<1>7. Ledger'
  BY <1>2, <1>5, <1>6 DEF Accounting, Ledger
<1>8. InHandUnsent'
  <2> SUFFICES ASSUME NEW p \in Procs, Holds(p)', NEW q \in at'[p],
                      NEW i \in todo'[p] \ Nameless,
                      tally'[<<Space(q), i>>] \in {"sent", "again"}
               PROVE  <<Space(q), i>> \in excused'
    BY DEF InHandUnsent
  <2>1. CASE p = f
    <3> DEFINE x == <<Space(o), i>>
    <3>1. q = o /\ i \in new /\ x \in Pairs
      BY <2>1, <1>1, <1>2 DEF Pairs
    <3>2. x \in excused \/ \E r \in Procs : Exposed(r, Space(o), i)
      BY <3>1, <1>1, <1>2 DEF Accounting, Ledger
    <3>3. ASSUME NEW r \in Procs, Exposed(r, Space(o), i) PROVE x \in excused'
      <4>1. r # f
        BY <3>3, <3>1, <1>6
      <4>2. Claims(r, Space(o), i)
        BY <3>3 DEF Exposed, Claims
      <4> QED
        BY <4>1, <4>2, <3>1, <1>4
    <3> QED
      BY <3>1, <3>2, <3>3, <1>2
  <2>2. CASE p # f
    BY <2>2, <1>2, <1>3 DEF Accounting, InHandUnsent, Same, Holds
  <2> QED
    BY <2>1, <2>2
<1>9. OneHolder'
  <2> SUFFICES ASSUME NEW x \in Pairs, NEW p \in Procs, NEW q \in Procs, p # q,
                      Claims(p, x[1], x[2])', Claims(q, x[1], x[2])'
               PROVE  x \in excused'
    BY DEF OneHolder
  <2>1. CASE p # f /\ q # f
    BY <2>1, <1>2, <1>5 DEF Accounting, OneHolder
  <2>2. ASSUME NEW r \in Procs, r # f, Claims(f, x[1], x[2])', Claims(r, x[1], x[2])'
        PROVE  x \in excused'
    <3>1. x[1] = Space(o) /\ x[2] \in new /\ x = <<x[1], x[2]>>
      BY <2>2, <1>2 DEF Claims, Pairs
    <3> QED
      BY <2>2, <3>1, <1>4, <1>5
  <2> QED
    BY <2>1, <2>2
<1>10. InHand'
  <2> SUFFICES ASSUME NEW p \in Procs
               PROVE  /\ todo'[p] \subseteq mine'[p]
                      /\ Holds(p)' => \E r \in Objects : at'[p] = {r}
                      /\ Holds(p)' /\ p \in Feeds => mine'[p] \subseteq got'[p]
                      /\ pc'[p] = "ask" => todo'[p] = mine'[p]
                      /\ ~Holds(p)' => mine'[p] = {} /\ todo'[p] = {}
    BY DEF InHand
  <2>1. CASE p = f
    BY <2>1, <1>1, <1>2 DEF Holds
  <2>2. CASE p # f
    BY <2>2, <1>3 DEF Accounting, InHand, Same, Holds
  <2> QED
    BY <2>1, <2>2
<1>11. DuplicatesExplained'
  BY <1>2 DEF Accounting, DuplicatesExplained
<1> QED
  BY <1>7, <1>8, <1>9, <1>10, <1>11 DEF Accounting
\* A check that starts holds nothing yet.
LEMMA StartAccounts ==
  ASSUME TypeOK, Accounting, NEW c \in Checkers, StartCheck(c)
  PROVE  Accounting'
<1>1. PICK o \in loaded : at' = [at EXCEPT ![c] = {o}]
  BY DEF StartCheck
<1>2. /\ c \in Procs /\ c \notin Feeds /\ o \in Objects
      /\ pc[c] = "idle" /\ pc'[c] = "ask" /\ at'[c] = {o}
      /\ mine' = mine /\ todo' = todo
      /\ pub' = pub /\ tally' = tally /\ excused' = excused
      /\ mine[c] = {} /\ todo[c] = {}
  BY <1>1, FeedAssumption DEF StartCheck, TypeOK, ProcsTypeOK, Procs, table, ghosts,
     Accounting, InHand, Holds
<1>3. \A p \in Procs \ {c} : Same(p)
  BY <1>1, <1>2 DEF StartCheck, TypeOK, ProcsTypeOK, Same
<1>4. \A p \in Procs : \A x \in Pairs :
        /\ Exposed(p, x[1], x[2]) => Exposed(p, x[1], x[2])'
        /\ Claims(p, x[1], x[2])' => Claims(p, x[1], x[2])
  BY <1>2, <1>3 DEF Same, Exposed, Claims, Holds
<1>5. Ledger'
  BY <1>2, <1>4 DEF Accounting, Ledger
<1>6. InHandUnsent'
  BY <1>2, <1>3 DEF Accounting, InHandUnsent, Same, Holds
<1>7. OneHolder'
  BY <1>2, <1>4 DEF Accounting, OneHolder
<1>8. InHand'
  BY <1>2, <1>3 DEF Accounting, InHand, Same, Holds
<1>9. DuplicatesExplained'
  BY <1>2 DEF Accounting, DuplicatesExplained
<1> QED
  BY <1>5, <1>6, <1>7, <1>8, <1>9 DEF Accounting
\* One lookup of a check: it claims i when i has no record.
LEMMA AskAccounts ==
  ASSUME TypeOK, Accounting, NEW c \in Checkers, NEW i \in Items, Ask(c, i)
  PROVE  Accounting'
<1>1. PICK o \in at[c] :
        LET new == NewTo(o, i) IN
        IF got[c] = {i} /\ mine[c] \cup new = {}
        THEN Finish(c) /\ UNCHANGED excused
        ELSE /\ got' = [got EXCEPT ![c] = @ \ {i}]
             /\ mine' = [mine EXCEPT ![c] = @ \cup new]
             /\ todo' = [todo EXCEPT ![c] = @ \cup new]
             /\ pc' = [pc EXCEPT ![c] = IF got[c] = {i} THEN "send" ELSE "ask"]
             /\ excused' = excused \cup
                  {x \in {Space(o)} \X new : \E p \in Procs \ {c} : Claims(p, x[1], x[2])}
             /\ UNCHANGED <<left, at>>
  BY DEF Ask
<1> DEFINE new == NewTo(o, i)
<1>2. /\ c \in Procs /\ c \notin Feeds /\ o \in Objects /\ Space(o) \in Spaces
      /\ pc[c] = "ask" /\ at[c] = {o} /\ todo[c] = mine[c]
      /\ new \subseteq Items /\ new \cap pub[Space(o)] = {} /\ new \cap Nameless = {}
      /\ pub' = pub /\ tally' = tally
  BY FeedAssumption DEF NewTo, Ask, TypeOK, ProcsTypeOK, Procs, Objects, Space, table,
     Accounting, InHand, Holds
<1>3. \A x \in Pairs : ~Exposed(c, x[1], x[2])
  BY <1>2 DEF Exposed
<1>4. CASE got[c] = {i} /\ mine[c] \cup new = {}
  <2>1. Finish(c) /\ excused' = excused
    BY <1>1, <1>4
  <2>2. \A p \in Procs : Same(p) \/ LetGo(p)
    BY <2>1, <1>2, <1>3 DEF Finish, Same, LetGo, TypeOK, ProcsTypeOK
  <2> QED
    BY <2>1, <2>2, <1>2, Release DEF Covered
<1>5. CASE ~(got[c] = {i} /\ mine[c] \cup new = {})
  <2>1. /\ got' = [got EXCEPT ![c] = @ \ {i}]
        /\ mine' = [mine EXCEPT ![c] = @ \cup new]
        /\ todo' = [todo EXCEPT ![c] = @ \cup new]
        /\ pc' = [pc EXCEPT ![c] = IF got[c] = {i} THEN "send" ELSE "ask"]
        /\ excused' = excused \cup
             {x \in {Space(o)} \X new : \E p \in Procs \ {c} : Claims(p, x[1], x[2])}
        /\ at' = at
    BY <1>1, <1>5
  <2> HIDE DEF new
  <2>2. /\ pc'[c] \in {"ask", "send"} /\ at'[c] = {o}
        /\ mine'[c] = mine[c] \cup new /\ todo'[c] = mine[c] \cup new
        /\ excused \subseteq excused'
    BY <2>1, <1>2 DEF TypeOK, ProcsTypeOK
  <2>3. \A p \in Procs \ {c} : Same(p)
    BY <2>1, <1>2 DEF TypeOK, ProcsTypeOK, Same
  <2>4. \A j \in new : \A p \in Procs \ {c} :
          Claims(p, Space(o), j) => <<Space(o), j>> \in excused'
    BY <2>1
  <2>5. \A p \in Procs \ {c} : \A x \in Pairs :
          /\ Exposed(p, x[1], x[2])' <=> Exposed(p, x[1], x[2])
          /\ Claims(p, x[1], x[2])' <=> Claims(p, x[1], x[2])
    BY <2>3 DEF Same, Exposed, Claims, Holds
  <2>6. Ledger'
    BY <1>2, <1>3, <2>2, <2>5 DEF Accounting, Ledger
  <2>7. InHandUnsent'
    <3> SUFFICES ASSUME NEW p \in Procs, Holds(p)', NEW q \in at'[p],
                        NEW j \in todo'[p] \ Nameless,
                        tally'[<<Space(q), j>>] \in {"sent", "again"}
                 PROVE  <<Space(q), j>> \in excused'
      BY DEF InHandUnsent
    <3>1. CASE p = c /\ j \in new
      <4>1. q = o /\ <<Space(o), j>> \in Pairs
        BY <3>1, <1>2, <2>2 DEF Pairs
      <4>2. <<Space(o), j>> \in excused \/ \E r \in Procs : Exposed(r, Space(o), j)
        BY <3>1, <4>1, <1>2 DEF Accounting, Ledger
      <4>3. ASSUME NEW r \in Procs, Exposed(r, Space(o), j)
            PROVE  <<Space(o), j>> \in excused'
        <5>1. r # c
          BY <4>3, <4>1, <1>3
        <5>2. Claims(r, Space(o), j)
          BY <4>3 DEF Exposed, Claims
        <5> QED
          BY <5>1, <5>2, <3>1, <2>4
      <4> QED
        BY <4>1, <4>2, <4>3, <2>2
    <3>2. CASE p = c /\ j \notin new
      BY <3>2, <1>2, <2>2 DEF Accounting, InHandUnsent, Holds
    <3>3. CASE p # c
      BY <3>3, <1>2, <2>2, <2>3 DEF Accounting, InHandUnsent, Same, Holds
    <3> QED
      BY <3>1, <3>2, <3>3
  <2>8. OneHolder'
    <3> SUFFICES ASSUME NEW x \in Pairs, NEW p \in Procs, NEW q \in Procs, p # q,
                        Claims(p, x[1], x[2])', Claims(q, x[1], x[2])'
                 PROVE  x \in excused'
      BY DEF OneHolder
    <3>1. CASE p # c /\ q # c
      BY <3>1, <2>2, <2>5 DEF Accounting, OneHolder
    <3>2. ASSUME NEW r \in Procs, r # c, Claims(c, x[1], x[2])', Claims(r, x[1], x[2])'
          PROVE  x \in excused'
      <4>1. x[1] = Space(o) /\ x = <<x[1], x[2]>> /\ x[2] \in mine[c] \cup new
        BY <3>2, <2>2 DEF Claims, Pairs
      <4>2. CASE x[2] \in new
        BY <3>2, <4>1, <4>2, <2>4, <2>5
      <4>3. CASE x[2] \in mine[c]
        <5>1. Claims(c, x[1], x[2]) /\ Claims(r, x[1], x[2])
          BY <3>2, <4>1, <4>3, <1>2, <2>5 DEF Claims, Holds
        <5> QED
          BY <3>2, <5>1, <1>2, <2>2 DEF Accounting, OneHolder
      <4> QED
        BY <4>1, <4>2, <4>3
    <3> QED
      BY <3>1, <3>2
  <2>9. InHand'
    <3> SUFFICES ASSUME NEW p \in Procs
                 PROVE  /\ todo'[p] \subseteq mine'[p]
                        /\ Holds(p)' => \E r \in Objects : at'[p] = {r}
                        /\ Holds(p)' /\ p \in Feeds => mine'[p] \subseteq got'[p]
                        /\ pc'[p] = "ask" => todo'[p] = mine'[p]
                        /\ ~Holds(p)' => mine'[p] = {} /\ todo'[p] = {}
      BY DEF InHand
    <3>1. CASE p = c
      BY <3>1, <1>2, <2>2 DEF Holds
    <3>2. CASE p # c
      BY <3>2, <2>3 DEF Accounting, InHand, Same, Holds
    <3> QED
      BY <3>1, <3>2
  <2>10. DuplicatesExplained'
    BY <1>2, <2>2 DEF Accounting, DuplicatesExplained
  <2> QED
    BY <2>6, <2>7, <2>8, <2>9, <2>10 DEF Accounting
<1> QED
  BY <1>4, <1>5

\* A dispatch, delivered or not: an item still in hand was not sent before,
\* and once it is out of hand nobody else can be about to send it.
LEMMA DispatchAccounts ==
  ASSUME TypeOK, Accounting, NEW p \in Procs, NEW i \in Items,
         Send(p, i) \/ SendFails(p, i)
  PROVE  Accounting'
<1>1. PICK o \in Objects : at[p] = {o}
  BY DEF Send, SendFails, Accounting, InHand, Holds
<1> DEFINE x == <<Space(o), i>>
<1>2. /\ pc[p] = "send" /\ i \in todo[p] /\ i \in mine[p] /\ x \in Pairs
      /\ pub' = pub /\ excused' = excused
      /\ at' = at /\ mine' = mine /\ got' = got
      /\ pc'[p] \in {"mark", "send"} /\ todo'[p] = todo[p] \ {i}
  BY <1>1, FeedAssumption DEF Send, SendFails, Dispatched, table, TypeOK, ProcsTypeOK,
     Pairs, Objects, Space, Accounting, InHand
<1>3. /\ \A y \in Pairs : y # x => tally'[y] = tally[y]
      /\ tally'[x] \in {tally[x], "failed", "sent", "again"}
      /\ tally'[x] = "again" => tally[x] \in {"sent", "again"}
  BY <1>1, <1>2 DEF Send, SendFails, TypeOK, GhostsTypeOK
<1>4. \A q \in Procs \ {p} : Same(q)
  BY <1>2 DEF Send, SendFails, Dispatched, TypeOK, ProcsTypeOK, Same
<1>5. \A q \in Procs : \A y \in Pairs :
        /\ Exposed(q, y[1], y[2]) => Exposed(q, y[1], y[2])'
        /\ Claims(q, y[1], y[2])' <=> Claims(q, y[1], y[2])
  BY <1>2, <1>4 DEF Same, Exposed, Claims, Holds
<1>6. Claims(p, Space(o), i) /\ Exposed(p, Space(o), i)'
  BY <1>1, <1>2 DEF Claims, Exposed, Holds
<1>7. Ledger'
  <2> SUFFICES ASSUME NEW y \in Pairs, tally'[y] \in {"sent", "again"}
               PROVE  \/ y[2] \in pub'[y[1]] \cup Nameless
                      \/ y \in excused'
                      \/ \E q \in Procs : Exposed(q, y[1], y[2])'
    BY DEF Ledger
  <2>1. CASE y = x
    BY <2>1, <1>6
  <2>2. CASE y # x
    BY <2>2, <1>2, <1>3, <1>5 DEF Accounting, Ledger
  <2> QED
    BY <2>1, <2>2
<1>8. InHandUnsent'
  <2> SUFFICES ASSUME NEW q \in Procs, Holds(q)', NEW r \in at'[q],
                      NEW j \in todo'[q] \ Nameless,
                      tally'[<<Space(r), j>>] \in {"sent", "again"}
               PROVE  <<Space(r), j>> \in excused'
    BY DEF InHandUnsent
  <2>1. /\ Holds(q) /\ r \in at[q] /\ j \in todo[q] /\ j \in mine[q]
        /\ <<Space(r), j>> \in Pairs
    BY <1>2, <1>4, FeedAssumption DEF Same, Holds, TypeOK, ProcsTypeOK, Pairs,
       Objects, Space, Accounting, InHand
  <2>2. CASE <<Space(r), j>> # x
    BY <2>1, <2>2, <1>2, <1>3 DEF Accounting, InHandUnsent
  <2>3. CASE <<Space(r), j>> = x
    <3>1. q # p
      BY <2>3, <1>2
    <3>2. Claims(q, Space(o), i)
      BY <2>1, <2>3 DEF Claims
    <3>3. x \in excused
      BY <3>1, <3>2, <1>2, <1>6 DEF Accounting, OneHolder
    <3> QED
      BY <3>3, <2>3, <1>2
  <2> QED
    BY <2>2, <2>3
<1>9. OneHolder'
  BY <1>2, <1>5 DEF Accounting, OneHolder
<1>10. InHand'
  <2> SUFFICES ASSUME NEW q \in Procs
               PROVE  /\ todo'[q] \subseteq mine'[q]
                      /\ Holds(q)' => \E r \in Objects : at'[q] = {r}
                      /\ Holds(q)' /\ q \in Feeds => mine'[q] \subseteq got'[q]
                      /\ pc'[q] = "ask" => todo'[q] = mine'[q]
                      /\ ~Holds(q)' => mine'[q] = {} /\ todo'[q] = {}
    BY DEF InHand
  <2>1. CASE q = p
    BY <2>1, <1>1, <1>2 DEF Accounting, InHand, Holds
  <2>2. CASE q # p
    BY <2>2, <1>4 DEF Accounting, InHand, Same, Holds
  <2> QED
    BY <2>1, <2>2
<1>11. DuplicatesExplained'
  <2> SUFFICES ASSUME NEW y \in Pairs, tally'[y] = "again", y[2] \notin Nameless
               PROVE  y \in excused'
    BY DEF DuplicatesExplained
  <2>1. CASE y = x
    BY <2>1, <1>1, <1>2, <1>3 DEF Accounting, InHandUnsent, Holds
  <2>2. CASE y # x
    BY <2>2, <1>2, <1>3 DEF Accounting, DuplicatesExplained
  <2> QED
    BY <2>1, <2>2
<1> QED
  BY <1>7, <1>8, <1>9, <1>10, <1>11 DEF Accounting
\* A coroutine that ends, or moves to the next monitor, lets go of its items.
LEMMA FinishLetsGo ==
  ASSUME TypeOK, Accounting, NEW p \in Procs, Finish(p) \/ NextMonitor(p),
         \A x \in Pairs : Exposed(p, x[1], x[2]) =>
           x[2] \in pub'[x[1]] \cup Nameless \/ x \in excused'
  PROVE  \A q \in Procs : Same(q) \/ LetGo(q)
<1>1. \A q \in Procs \ {p} : Same(q)
  BY DEF Finish, NextMonitor, Same, TypeOK, ProcsTypeOK
<1>2. pc'[p] \in {"idle", "dedup"} /\ mine'[p] = {} /\ todo'[p] = {}
  BY DEF Finish, NextMonitor, TypeOK, ProcsTypeOK
<1> QED
  BY <1>1, <1>2 DEF LetGo

\* Steps that only excuse what they forget leave the books balanced.
LEMMA ForgetCovers ==
  ASSUME TypeOK, NEW gone, Forget(gone), tally' = tally
  PROVE  Covered
  BY DEF Covered, Forget, Pairs

\* The books stay balanced.
LEMMA AccountingStep == TypeOK /\ Accounting /\ [Next]_vars => Accounting'
<1> SUFFICES ASSUME TypeOK, Accounting, [Next]_vars PROVE Accounting'
  OBVIOUS
<1> USE DEF world, table, memory, procs, syncs, ghosts, Disrupt
<1>1. ASSUME UNCHANGED <<pc, at, got, mine, todo, pub, tally, excused>> PROVE Accounting'
  BY <1>1, Release DEF Covered, Same
<1>2. ASSUME NEW f \in Feeds, NEW i \in Items, Appear(f, i) \/ Withdraw(f, i)
      PROVE  Accounting'
  BY <1>1, <1>2 DEF Appear, Withdraw
<1>3. ASSUME NEW y \in Syncers, NEW m \in Monitors,
             CreateFeed(y, m) \/ UpdateFeed(y, m) \/ DeleteFeed(y, m)
      PROVE  Accounting'
  BY <1>1, <1>3 DEF CreateFeed, UpdateFeed, DeleteFeed, Edited
<1>4. ASSUME NEW f \in Feeds, Elapse(f) PROVE Accounting'
  BY <1>1, <1>4 DEF Elapse
<1>5. CASE Boot
  BY <1>1, <1>5 DEF Boot
<1>6. CASE Crash
  <2>1. \A p \in Procs : LetGo(p)
    BY <1>6 DEF Crash, LetGo
  <2>2. Covered
    BY <1>6 DEF Crash, Covered
  <2> QED
    BY <2>1, <2>2, Release
<1>7. ASSUME NEW y \in Syncers,
             \/ SyncRequest(y) \/ SyncSnapshot(y) \/ SyncRead(y)
             \/ SyncSwap(y) \/ SyncFails(y)
      PROVE  Accounting'
  BY <1>1, <1>7 DEF SyncRequest, SyncSnapshot, SyncRead, SyncSwap, SyncFails
<1>8. CASE Tick
  <2>1. \A p \in Procs : Same(p) \/ LetGo(p)
    BY <1>8
    DEF BatchDone, Tick, Same, LetGo, TypeOK, ProcsTypeOK, Accounting, InHand, Holds,
        Exposed
  <2> QED
    BY <2>1, <1>8, Release DEF Tick, Covered
<1>9. ASSUME NEW f \in Feeds, Fetch(f) PROVE Accounting'
  <2>1. ~Holds(f) /\ mine[f] = {} /\ todo[f] = {} /\ f \in Procs
    BY <1>9 DEF Fetch, Accounting, InHand, Holds, Procs
  <2>2. \A p \in Procs : Same(p) \/ LetGo(p)
    <3>1. CASE source[f] = {}
      BY <3>1, <2>1, <1>9, FinishLetsGo DEF Fetch, Exposed
    <3>2. CASE source[f] # {}
      BY <3>2, <2>1, <1>9 DEF Fetch, Same, LetGo, Exposed, TypeOK, ProcsTypeOK
    <3> QED
      BY <3>1, <3>2
  <2> QED
    BY <2>2, <1>9, Release DEF Fetch, Covered
<1>10. ASSUME NEW f \in Feeds, FetchFails(f) PROVE Accounting'
  <2>1. ~Holds(f) /\ f \in Procs
    BY <1>10 DEF FetchFails, Holds, Procs
  <2>2. \A p \in Procs : Same(p) \/ LetGo(p)
    BY <2>1, <1>10, FinishLetsGo DEF FetchFails, Exposed
  <2> QED
    BY <2>2, <1>10, Release DEF FetchFails, Covered
<1>11. ASSUME NEW f \in Feeds, Dedup(f) PROVE Accounting'
  BY <1>11, DedupAccounts
<1>12. ASSUME NEW f \in Feeds, DedupFails(f) PROVE Accounting'
  <2>1. ~Holds(f) /\ f \in Procs
    BY <1>12 DEF DedupFails, Holds, Procs
  <2>2. Finish(f) \/ UNCHANGED <<pc, at, got, mine, todo>>
    BY <1>12 DEF DedupFails
  <2>3. \A p \in Procs : Same(p) \/ LetGo(p)
    BY <2>1, <2>2, FinishLetsGo DEF Exposed, Same
  <2> QED
    BY <2>3, <1>12, Release DEF DedupFails, Covered
<1>13. ASSUME NEW c \in Checkers, StartCheck(c) PROVE Accounting'
  BY <1>13, StartAccounts
<1>14. ASSUME NEW c \in Checkers, NEW i \in Items, Ask(c, i) PROVE Accounting'
  BY <1>14, AskAccounts
<1>15. ASSUME NEW c \in Checkers, CheckAborts(c) PROVE Accounting'
  <2>1. c \in Procs
    BY DEF Procs
  <2>2. \A p \in Procs : Same(p) \/ LetGo(p)
    BY <2>1, <1>15, FinishLetsGo DEF CheckAborts
  <2> QED
    BY <2>2, <1>15, Release DEF CheckAborts, Covered
<1>16. ASSUME NEW p \in Procs, NEW i \in Items, Send(p, i) \/ SendFails(p, i)
       PROVE  Accounting'
  BY <1>16, DispatchAccounts
<1>17. ASSUME NEW p \in Procs, Mark(p) PROVE Accounting'
  <2>1. PICK o \in at[p] : pub' = [pub EXCEPT ![Space(o)] = @ \cup Recorded(p)]
    BY <1>17 DEF Mark
  <2>2. /\ o \in Objects /\ at[p] = {o} /\ Space(o) \in Spaces
        /\ mine[p] \subseteq Recorded(p) \cup Nameless
    BY <2>1, <1>17, FeedAssumption DEF Mark, Accounting, InHand, Holds, Recorded,
       TypeOK, ProcsTypeOK, Objects, Space
  <2>3. pub'[Space(o)] = pub[Space(o)] \cup Recorded(p)
    BY <2>1, <2>2 DEF TypeOK
  <2>4. \A x \in Pairs : Exposed(p, x[1], x[2]) => x[2] \in pub'[x[1]] \cup Nameless
    BY <2>2, <2>3 DEF Exposed
  <2>5. \A q \in Procs : Same(q) \/ LetGo(q)
    BY <2>4, <1>17, FinishLetsGo DEF Mark
  <2>6. Covered
    BY <2>1, <2>2, <1>17 DEF Mark, Covered, TypeOK, Pairs
  <2> QED
    BY <2>5, <2>6, Release
<1>18. ASSUME NEW p \in Procs, MarkFails(p) PROVE Accounting'
  <2>1. \A q \in Procs : Same(q) \/ LetGo(q)
    BY <1>18, FinishLetsGo DEF MarkFails
  <2> QED
    BY <2>1, <1>18, Release DEF MarkFails, Covered
<1>19. ASSUME NEW gone, Forget(gone), UNCHANGED <<procs, tally>> PROVE Accounting'
  BY <1>19, ForgetCovers, Release DEF Same
<1>20. ASSUME NEW s \in Spaces, Reset(s) PROVE Accounting'
  BY <1>19, <1>20 DEF Reset
<1>21. CASE ResetAll \/ FactoryReset \/ Retention
  BY <1>19, <1>21 DEF ResetAll, FactoryReset, Retention
<1>22. CASE Age \/ UNCHANGED vars
  BY <1>1, <1>22 DEF Age, vars
<1> QED
  BY <1>2, <1>3, <1>4, <1>5, <1>6, <1>7, <1>8, <1>9, <1>10, <1>11, <1>12, <1>13,
     <1>14, <1>15, <1>16, <1>17, <1>18, <1>20, <1>21, <1>22
  DEF Next, Run, Check, Sync, Failure, Maintenance, Procs

\* At the start nothing is in hand and nothing has gone out.
LEMMA AccountingInit == Init => Accounting
  BY DEF Init, Accounting, Ledger, InHandUnsent, OneHolder, InHand,
     DuplicatesExplained, Holds, Exposed, Claims, Pairs

\* The books balance in every run: what went out is recorded, excused or in
\* hand, and what is in hand has not gone out.
THEOREM AccountingInvariant == Spec => []Accounting
  BY AccountingInit, AccountingStep, TypeCorrect, PTL DEF Spec

\* No item is announced twice without a lost or raced record.
THEOREM NoUnexplainedDuplicate == Spec => []DuplicatesExplained
<1>1. Accounting => DuplicatesExplained
  BY DEF Accounting
<1> QED
  BY <1>1, AccountingInvariant, PTL

-----------------------------------------------------------------------------
(* Where the entries in a coroutine's hands come from.                     *)

\* A run serves the monitors of its feed with entries of that feed, and a check
\* has entries of its monitor's feed.
Placed ==
  /\ \A f \in Feeds : source[f] \subseteq Carries[f] /\ got[f] \subseteq Carries[f]
  /\ \A f \in Feeds : \A o \in left[f] \cup at[f] : Feed(o) = f
  /\ \A c \in Checkers : \A o \in at[c] : got[c] \cup mine[c] \subseteq Carries[Feed(o)]

-----------------------------------------------------------------------------
(* No duplicates.                                                          *)

\* Nothing takes a record away or prevents one, entries have ids, nobody checks by
\* hand, and two feeds of a guild offer different entries.
Quiet ==
  /\ Checkers = {} /\ Nameless = {}
  /\ Disruptions \cap {"mark", "abort", "crash", "reset", "wipe", "retention"} = {}
  /\ \A m, n \in Monitors : SpaceOf[m] = SpaceOf[n] /\ FeedOf[m] # FeedOf[n] =>
       Carries[FeedOf[m]] \cap Carries[FeedOf[n]] = {}

\* Nobody was told twice for a reason.
NothingExcused == excused = {}

-----------------------------------------------------------------------------
(* The list.                                                               *)

\* One request at a time reloads the list, and nobody wipes it.
OneReload == "wipe" \notin Disruptions /\ \A y, z \in Syncers : y = z

\* The rows a reload has read are the present ones.
ReadIsFresh == \A y \in Syncers : sync[y] = "swap" => seenRows[y] = <<rows, enabled>>

-----------------------------------------------------------------------------
(* New entries.                                                            *)

\* The list is not reloaded while the process runs, and two monitors of a guild
\* watch different entries.
OwnEntries ==
  /\ Syncers = {}
  /\ \A m, n \in Monitors : SpaceOf[m] = SpaceOf[n] /\ m # n =>
       Carries[FeedOf[m]] \cap Carries[FeedOf[n]] = {}

\* The entry was dispatched for the monitor, and arrived unless deliveries fail.
Heard(m, i) ==
  /\ tally[<<SpaceOf[m], i>>] # "none"
  /\ "deliver" \in Disruptions \/ <<m, i>> \in reached

\* A new entry is one of a feed that was seeded before,
LateSound == \A x \in late : x[1] \in seeded /\ x[2] \in Carries[FeedOf[x[1]]]

\* and whoever watches that feed has heard of it once it is recorded.
LateHeard == \A x \in late : x[2] \in pub[SpaceOf[x[1]]] => Heard(x[1], x[2])

\* What a coroutine has dispatched was heard,
DispatchedHeard ==
  \A p \in Procs : Holds(p) =>
    \A o \in at[p] : \A i \in mine[p] \ todo[p] : Heard(o[1], i)

\* and so was a new entry that a run found published.
FoundHeard ==
  \A f \in Feeds : Holds(f) =>
    \A o \in at[f] : \A i \in got[f] \ mine[f] : <<o[1], i>> \in late => Heard(o[1], i)

\* Who records has nothing left to send.
MarkIsLast == \A p \in Procs : pc[p] = "mark" => todo[p] = {}

\* The objects in use are those of the last start, and of one that was seeded the
\* flag is down.
FlagsSound ==
  /\ \A o \in loaded \cup firstRun : o[2] = epoch
  /\ \A p \in Procs : \A o \in left[p] \cup at[p] : o[2] = epoch
  /\ \A o \in firstRun : o[1] \notin seeded

\* A process that is down has forgotten its seeds and its objects.
DownIsEmpty == ~up => seeded = {} /\ \A p \in Procs : left[p] = {} /\ at[p] = {}

\* What is kept about the telling of new entries.
TellingInv ==
  /\ LateSound /\ LateHeard /\ DispatchedHeard /\ FoundHeard /\ MarkIsLast
  /\ FlagsSound /\ DownIsEmpty

-----------------------------------------------------------------------------
\* A coroutine that ends, or goes on with the next monitor, keeps its place.
LEMMA FinishPlaced ==
  ASSUME TypeOK, Placed, NEW p \in Procs, Finish(p) \/ (p \in Feeds /\ NextMonitor(p)),
         source' = source
  PROVE  Placed'
<1> USE FeedAssumption DEF Placed, TypeOK, ProcsTypeOK, Procs
<1>1. /\ got' = got \/ got' = [got EXCEPT ![p] = {}]
      /\ left' = left \/ left' = [left EXCEPT ![p] = {}]
      /\ at' = [at EXCEPT ![p] = {}] /\ mine' = [mine EXCEPT ![p] = {}]
  BY DEF Finish, NextMonitor
<1>2. \A q \in Procs : /\ got'[q] \subseteq got[q] /\ left'[q] \subseteq left[q]
                       /\ at'[q] \subseteq at[q] /\ mine'[q] \subseteq mine[q]
  BY <1>1
<1> QED
  BY <1>2

\* Every step keeps the entries in hand where they belong.
LEMMA PlacedStep ==
  TypeOK /\ Accounting /\ Placed /\ [Next]_vars => Placed'
<1> SUFFICES ASSUME TypeOK, Accounting, Placed, [Next]_vars PROVE Placed'
  OBVIOUS
<1> USE FeedAssumption DEF world, table, memory, procs, syncs, ghosts
<1>1. ASSUME source' = source, UNCHANGED <<left, at, got, mine>> PROVE Placed'
  BY <1>1 DEF Placed
<1>2. ASSUME NEW f \in Feeds, NEW i \in Items, Appear(f, i) \/ Withdraw(f, i)
      PROVE  Placed'
  <2>1. /\ \A g \in Feeds : source'[g] \subseteq Carries[g]
        /\ UNCHANGED <<left, at, got, mine>>
    BY <1>2 DEF Appear, Withdraw, Placed, TypeOK
  <2> QED
    BY <2>1 DEF Placed
<1>3. ASSUME NEW y \in Syncers, NEW m \in Monitors,
             CreateFeed(y, m) \/ UpdateFeed(y, m) \/ DeleteFeed(y, m)
      PROVE  Placed'
  BY <1>1, <1>3 DEF CreateFeed, UpdateFeed, DeleteFeed, Edited
<1>4. ASSUME NEW f \in Feeds, Elapse(f) PROVE Placed'
  BY <1>1, <1>4 DEF Elapse
<1>5. CASE Boot
  BY <1>1, <1>5 DEF Boot
<1>6. CASE Crash
  BY <1>6 DEF Crash, Placed, Procs
<1>7. ASSUME NEW y \in Syncers,
             \/ SyncRequest(y) \/ SyncSnapshot(y) \/ SyncRead(y)
             \/ SyncSwap(y) \/ SyncFails(y)
      PROVE  Placed'
  BY <1>1, <1>7 DEF SyncRequest, SyncSnapshot, SyncRead, SyncSwap, SyncFails
<1>8. CASE Tick
  <2>1. \A f \in Feeds : \A o \in left'[f] \cup at'[f] : Feed(o) = f
    BY <1>8 DEF Tick, Pollable, Placed, Procs
  <2> QED
    BY <2>1, <1>8 DEF Tick, Placed
<1>9. ASSUME NEW f \in Feeds, Fetch(f) PROVE Placed'
  <2>1. CASE source[f] = {}
    BY <2>1, <1>9, FinishPlaced DEF Fetch, Procs
  <2>2. CASE source[f] # {}
    BY <2>2, <1>9 DEF Fetch, Placed, TypeOK, ProcsTypeOK, Procs
  <2> QED
    BY <2>1, <2>2
<1>10. ASSUME NEW f \in Feeds, FetchFails(f) PROVE Placed'
  BY <1>10, FinishPlaced DEF FetchFails, Procs
<1>11. ASSUME NEW f \in Feeds, Dedup(f) PROVE Placed'
  <2>1. PICK o \in left[f] :
          /\ left' = [left EXCEPT ![f] = @ \ {o}] /\ at' = [at EXCEPT ![f] = {o}]
          /\ mine' = [mine EXCEPT ![f] = Unpublished(f, o)]
    BY <1>11 DEF Dedup
  <2>2. source' = source /\ got' = got
    BY <1>11 DEF Dedup
  <2>3. \A c \in Checkers : at'[c] = at[c] /\ mine'[c] = mine[c]
    BY <2>1 DEF TypeOK, ProcsTypeOK, Procs
  <2>4. \A g \in Feeds : left'[g] \cup at'[g] \subseteq left[g] \cup at[g]
    BY <2>1 DEF TypeOK, ProcsTypeOK, Procs
  <2> QED
    BY <2>2, <2>3, <2>4 DEF Placed
<1>12. ASSUME NEW f \in Feeds, DedupFails(f) PROVE Placed'
  <2>1. source' = source
    BY <1>12 DEF DedupFails
  <2>2. CASE Finish(f)
    BY <2>1, <2>2, FinishPlaced DEF Procs
  <2>3. CASE ~Finish(f)
    <3>1. /\ \A g \in Feeds : left'[g] \subseteq left[g]
          /\ UNCHANGED <<at, got, mine>>
      BY <2>3, <1>12 DEF DedupFails, TypeOK, ProcsTypeOK, Procs
    <3> QED
      BY <2>1, <3>1 DEF Placed
  <2> QED
    BY <2>2, <2>3
<1>13. ASSUME NEW c \in Checkers, StartCheck(c) PROVE Placed'
  <2>1. PICK o \in loaded : /\ at' = [at EXCEPT ![c] = {o}]
                            /\ got' = [got EXCEPT ![c] = source[Feed(o)]]
    BY <1>13 DEF StartCheck
  <2>2. mine[c] = {} /\ Feed(o) \in Feeds
    BY <1>13 DEF StartCheck, Accounting, InHand, Holds, Procs, TypeOK, Objects, Feed
  <2>3. UNCHANGED <<source, left, mine>>
    BY <1>13 DEF StartCheck
  <2>4. /\ at'[c] = {o} /\ got'[c] = source[Feed(o)]
        /\ \A p \in Procs \ {c} : at'[p] = at[p] /\ got'[p] = got[p]
    BY <2>1 DEF TypeOK, ProcsTypeOK, Procs
  <2>5. got'[c] \cup mine'[c] \subseteq Carries[Feed(o)]
    BY <2>2, <2>3, <2>4 DEF Placed
  <2> QED
    BY <2>3, <2>4, <2>5 DEF Placed, Procs
<1>14. ASSUME NEW c \in Checkers, NEW i \in Items, Ask(c, i) PROVE Placed'
  <2>1. source' = source
    BY <1>14 DEF Ask
  <2>2. CASE Finish(c)
    BY <2>1, <2>2, FinishPlaced DEF Procs
  <2>3. CASE ~Finish(c)
    <3>1. PICK o \in at[c] :
             /\ got' = [got EXCEPT ![c] = @ \ {i}]
             /\ mine' = [mine EXCEPT ![c] = @ \cup NewTo(o, i)]
             /\ UNCHANGED <<left, at>>
      BY <2>3, <1>14 DEF Ask
    <3>2. i \in got[c] /\ NewTo(o, i) \subseteq {i}
      BY <1>14 DEF Ask, NewTo
    <3>3. /\ got'[c] \cup mine'[c] \subseteq got[c] \cup mine[c]
          /\ \A p \in Procs \ {c} : got'[p] = got[p] /\ mine'[p] = mine[p]
      BY <3>1, <3>2 DEF TypeOK, ProcsTypeOK, Procs
    <3>4. \A d \in Checkers : got'[d] \cup mine'[d] \subseteq got[d] \cup mine[d]
      BY <3>3 DEF Procs
    <3>5. \A f \in Feeds : got'[f] = got[f]
      BY <3>3 DEF Procs
    <3> QED
      BY <2>1, <3>1, <3>4, <3>5 DEF Placed
  <2> QED
    BY <2>2, <2>3
<1>15. ASSUME NEW c \in Checkers, CheckAborts(c) PROVE Placed'
  BY <1>15, FinishPlaced DEF CheckAborts, Procs
<1>16. ASSUME NEW p \in Procs, NEW i \in Items, Send(p, i) \/ SendFails(p, i)
       PROVE  Placed'
  BY <1>16, <1>1 DEF Send, SendFails, Dispatched
<1>17. ASSUME NEW p \in Procs, Mark(p) \/ MarkFails(p) PROVE Placed'
  BY <1>17, FinishPlaced DEF Mark, MarkFails
<1>18. ASSUME NEW s \in Spaces, Reset(s) PROVE Placed'
  BY <1>1, <1>18 DEF Reset
<1>19. CASE ResetAll \/ FactoryReset \/ Retention \/ Age \/ UNCHANGED vars
  BY <1>1, <1>19 DEF ResetAll, FactoryReset, Retention, Age, vars
<1> QED
  BY <1>2, <1>3, <1>4, <1>5, <1>6, <1>7, <1>8, <1>9, <1>10, <1>11, <1>12, <1>13,
     <1>14, <1>15, <1>16, <1>17, <1>18, <1>19
  DEF Next, Run, Check, Sync, Failure, Maintenance, Procs

\* In every run the entries in hand are of the feed being served.
LEMMA PlacedAlways == Spec => []Placed
<1>1. Init => Placed
  BY DEF Init, Placed, Procs
<1> QED
  BY <1>1, PlacedStep, TypeCorrect, AccountingInvariant, PTL DEF Spec

-----------------------------------------------------------------------------
\* Without checks by hand, lost records and shared entries, no lookup of a run
\* finds another coroutine with the same entries unrecorded: nothing is excused.
LEMMA QuietStep ==
  Quiet /\ TypeOK /\ Accounting /\ Placed /\ NothingExcused /\ [Next]_vars => NothingExcused'
<1> SUFFICES ASSUME Quiet, TypeOK, Accounting, Placed, NothingExcused, [Next]_vars
             PROVE  excused' = {}
  BY DEF NothingExcused
<1> USE FeedAssumption DEF Quiet, NothingExcused, Disrupt
<1>1. ASSUME NEW f \in Feeds, Dedup(f) PROVE excused' = {}
  <2>1. PICK o \in left[f] :
          excused' = {x \in {Space(o)} \X Unpublished(f, o) :
                        \E p \in Procs \ {f} : Claims(p, x[1], x[2])}
    BY <1>1 DEF Dedup
  <2>2. o[1] \in Monitors /\ FeedOf[o[1]] = f /\ SpaceOf[o[1]] = Space(o)
    BY DEF TypeOK, ProcsTypeOK, Procs, Objects, Placed, Feed, Space
  <2>3. ASSUME NEW i \in Unpublished(f, o), NEW p \in Procs \ {f}, Claims(p, Space(o), i)
        PROVE  FALSE
    <3>1. p \in Feeds /\ i \in mine[p] /\ mine[p] \subseteq got[p]
      BY <2>3 DEF Procs, Claims, Accounting, InHand
    <3>2. PICK r \in at[p] : Space(r) = Space(o)
      BY <2>3 DEF Claims
    <3>3. r[1] \in Monitors /\ FeedOf[r[1]] = p /\ SpaceOf[r[1]] = Space(o)
      BY <3>1, <3>2 DEF TypeOK, ProcsTypeOK, Procs, Objects, Placed, Feed, Space
    <3>4. i \in Carries[p]
      BY <3>1 DEF Placed
    <3>5. i \in Carries[f]
      BY DEF Unpublished, Placed
    <3> QED
      BY <2>2, <3>3, <3>4, <3>5
  <2> QED
    BY <2>1, <2>3
<1>2. ASSUME NEW f \in Feeds, Fetch(f) \/ FetchFails(f) \/ DedupFails(f) \/ Elapse(f)
      PROVE  excused' = excused
  BY <1>2 DEF Fetch, FetchFails, DedupFails, Elapse, ghosts
<1>3. ASSUME NEW p \in Procs, Mark(p) PROVE excused' = excused
  BY <1>3 DEF Mark
<1>4. ASSUME NEW p \in Procs, NEW i \in Items, Send(p, i) \/ SendFails(p, i)
      PROVE  excused' = excused
  BY <1>4 DEF Send, SendFails, Dispatched
<1>5. ASSUME NEW f \in Feeds, NEW i \in Items, Appear(f, i) \/ Withdraw(f, i)
      PROVE  excused' = excused
  BY <1>5 DEF Appear, Withdraw, ghosts
<1>6. ASSUME NEW y \in Syncers, Sync(y) \/ SyncFails(y) PROVE excused' = excused
  BY <1>6 DEF Sync, SyncRequest, SyncSnapshot, SyncRead, SyncSwap, SyncFails,
     CreateFeed, UpdateFeed, DeleteFeed, Edited, ghosts
<1>7. CASE Boot \/ Tick \/ Age \/ UNCHANGED vars
  BY <1>7 DEF Boot, Tick, Age, vars, ghosts
<1>8. /\ ~Crash /\ ~ResetAll /\ ~FactoryReset /\ ~Retention
      /\ \A s \in Spaces : ~Reset(s)
      /\ \A p \in Procs : ~MarkFails(p)
  BY DEF Crash, ResetAll, FactoryReset, Retention, Reset, MarkFails
<1> QED
  BY <1>1, <1>2, <1>3, <1>4, <1>5, <1>6, <1>7, <1>8
  DEF Next, Run, Check, Failure, Maintenance, Procs

\* Where nothing takes a record away, nobody checks by hand and the feeds of a guild
\* do not share entries, no guild hears of an entry twice, whatever is reloaded and
\* whichever fetch, lookup or delivery fails.
THEOREM NeverTwiceWhenQuiet == ASSUME Quiet PROVE Spec => []NoDuplicates
<1>1. Init => NothingExcused
  BY DEF Init, NothingExcused
<1>2. Accounting /\ NothingExcused => NoDuplicates
  BY DEF Quiet, Accounting, DuplicatesExplained, NothingExcused, NoDuplicates
<1>3. TypeOK /\ Accounting /\ Placed /\ NothingExcused /\ [Next]_vars => NothingExcused'
  BY QuietStep
<1> QED
  BY <1>1, <1>2, <1>3, TypeCorrect, AccountingInvariant, PlacedAlways, PTL DEF Spec

-----------------------------------------------------------------------------
\* A single request writes its rows, and reads them, with no other between: what
\* it swaps in is the present table.
LEMMA ListStep ==
  OneReload /\ TypeOK /\ LoadedMatchesRows /\ ReadIsFresh /\ [Next]_vars
    => (LoadedMatchesRows /\ ReadIsFresh)'
<1> SUFFICES ASSUME OneReload, TypeOK, LoadedMatchesRows, ReadIsFresh, [Next]_vars
             PROVE  LoadedMatchesRows' /\ ReadIsFresh'
  OBVIOUS
<1> USE DEF world, table, memory, procs, syncs, ghosts
<1>1. ASSUME UNCHANGED <<rows, enabled, loaded, awake, synced, sync, seenRows>>
      PROVE  LoadedMatchesRows' /\ ReadIsFresh'
  BY <1>1 DEF LoadedMatchesRows, ReadIsFresh
<1>2. ASSUME NEW A \in SUBSET Monitors, NEW n PROVE {o[1] : o \in A \X {n}} = A
  <2>1. \A m \in A : <<m, n>> \in A \X {n} /\ <<m, n>>[1] = m
    OBVIOUS
  <2> QED
    BY <2>1
<1>3. ASSUME NEW y \in Syncers, NEW m \in Monitors,
             CreateFeed(y, m) \/ UpdateFeed(y, m) \/ DeleteFeed(y, m)
      PROVE  LoadedMatchesRows' /\ ReadIsFresh'
  <2>1. synced' = FALSE /\ sync' = [sync EXCEPT ![y] = "asked"]
    BY <1>3 DEF CreateFeed, UpdateFeed, DeleteFeed, Edited
  <2>2. \A z \in Syncers : sync'[z] # "swap"
    BY <2>1 DEF OneReload, TypeOK, SyncsTypeOK
  <2> QED
    BY <2>1, <2>2 DEF LoadedMatchesRows, ReadIsFresh
<1>4. CASE Boot
  <2>1. /\ loaded' = rows' \X {epoch + 1} /\ awake' = enabled' \X {epoch + 1}
        /\ rows' \subseteq Monitors /\ enabled' \subseteq Monitors
        /\ UNCHANGED <<rows, enabled, sync, seenRows>>
    BY <1>4 DEF Boot, TypeOK
  <2> QED
    BY <2>1, <1>2 DEF LoadedMatchesRows, ReadIsFresh
<1>5. CASE Crash
  BY <1>5 DEF Crash, LoadedMatchesRows, ReadIsFresh
<1>6. ASSUME NEW y \in Syncers, SyncRequest(y) \/ SyncSnapshot(y) \/ SyncFails(y)
      PROVE  LoadedMatchesRows' /\ ReadIsFresh'
  <2>1. /\ UNCHANGED <<rows, enabled, loaded, awake, synced, seenRows>>
        /\ \A z \in Syncers : sync'[z] = "swap" => sync[z] = "swap"
    BY <1>6 DEF SyncRequest, SyncSnapshot, SyncFails, Disrupt, TypeOK, SyncsTypeOK
  <2> QED
    BY <2>1 DEF LoadedMatchesRows, ReadIsFresh
<1>7. ASSUME NEW y \in Syncers, SyncRead(y) PROVE LoadedMatchesRows' /\ ReadIsFresh'
  <2>1. UNCHANGED <<rows, enabled, loaded, awake, synced>>
    BY <1>7 DEF SyncRead
  <2>2. \A z \in Syncers : seenRows'[z] = <<rows, enabled>>
    BY <1>7 DEF SyncRead, OneReload, TypeOK, SyncsTypeOK
  <2> QED
    BY <2>1, <2>2 DEF LoadedMatchesRows, ReadIsFresh
<1>8. ASSUME NEW y \in Syncers, SyncSwap(y) PROVE LoadedMatchesRows' /\ ReadIsFresh'
  <2>1. seenRows[y] = <<rows, enabled>> /\ UNCHANGED <<rows, enabled>>
    BY <1>8 DEF SyncSwap, ReadIsFresh
  <2>2. loaded' = rows \X {epoch + 1} /\ awake' = enabled \X {epoch + 1}
    BY <2>1, <1>8 DEF SyncSwap, Rebuilt, EnabledRebuilt
  <2>3. \A z \in Syncers : sync'[z] # "swap"
    BY <1>8 DEF SyncSwap, OneReload, TypeOK, SyncsTypeOK
  <2> QED
    BY <1>2, <2>1, <2>2, <2>3 DEF LoadedMatchesRows, ReadIsFresh, TypeOK
<1>9. ASSUME NEW f \in Feeds, Run(f) \/ Elapse(f) \/ FetchFails(f) \/ DedupFails(f)
      PROVE  LoadedMatchesRows' /\ ReadIsFresh'
  BY <1>1, <1>9 DEF Run, Elapse, Fetch, FetchFails, Dedup, DedupFails, Mark, Send, Dispatched
<1>10. ASSUME NEW c \in Checkers, StartCheck(c) \/ Check(c) \/ CheckAborts(c)
       PROVE  LoadedMatchesRows' /\ ReadIsFresh'
  BY <1>1, <1>10 DEF StartCheck, Check, CheckAborts, Ask, Mark, Send, Dispatched
<1>11. ASSUME NEW p \in Procs, MarkFails(p) \/ \E i \in Items : SendFails(p, i)
       PROVE  LoadedMatchesRows' /\ ReadIsFresh'
  BY <1>1, <1>11 DEF MarkFails, SendFails, Dispatched
<1>12. ASSUME NEW f \in Feeds, NEW i \in Items, Appear(f, i) \/ Withdraw(f, i)
       PROVE  LoadedMatchesRows' /\ ReadIsFresh'
  BY <1>1, <1>12 DEF Appear, Withdraw
<1>13. CASE Tick \/ UNCHANGED vars
  BY <1>1, <1>13 DEF Tick, vars
<1>14. CASE Maintenance
  BY <1>1, <1>14 DEF Maintenance, ResetAll, FactoryReset, Age, Retention, Reset, Forget,
     OneReload, Disrupt
<1> QED
  BY <1>3, <1>4, <1>5, <1>6, <1>7, <1>8, <1>9, <1>10, <1>11, <1>12, <1>13, <1>14
  DEF Next, Sync, Failure

\* With one reload at a time and no factory reset the installed list is that of the
\* present rows as soon as one built from them was installed, through any number of
\* edits, failed reloads and restarts.
THEOREM LoadedAlwaysMatches == ASSUME OneReload PROVE Spec => []LoadedMatchesRows
<1>1. Init => LoadedMatchesRows /\ ReadIsFresh
  BY DEF Init, LoadedMatchesRows, ReadIsFresh
<1>2. TypeOK /\ LoadedMatchesRows /\ ReadIsFresh /\ [Next]_vars
        => (LoadedMatchesRows /\ ReadIsFresh)'
  BY ListStep
<1> QED
  BY <1>1, <1>2, TypeCorrect, PTL DEF Spec

-----------------------------------------------------------------------------
\* How a step may move a process without telling anybody anything: not at all, by
\* letting go of what it holds, or by a check's reading on.
\* What a silent step may do to a coroutine: let go of everything, or go on reading.
Dropped(p) == pc'[p] \notin {"ask", "send", "mark"}
ReadsOn(p) == p \in Checkers /\ mine'[p] \subseteq todo'[p] /\ pc'[p] # "mark"

\* A step that tells nobody, records nothing and rebuilds no list keeps the account.
LEMMA SilentStep ==
  ASSUME TypeOK, TellingInv, UNCHANGED <<firstRun, epoch, up, tally, reached>>,
         \/ UNCHANGED <<late, seeded>>
         \/ late' = {} /\ seeded' = {},
         loaded' \subseteq loaded, \A s \in Spaces : pub'[s] \subseteq pub[s],
         \A p \in Procs : Same(p) \/ Dropped(p) \/ ReadsOn(p),
         \A p \in Procs : left'[p] \cup at'[p] \subseteq
                            left[p] \cup at[p] \cup (IF up THEN loaded ELSE {})
  PROVE  TellingInv'
<1> USE FeedAssumption DEF TellingInv
<1>1. LateSound' /\ LateHeard'
  <2>1. \A x \in late' : x \in late /\ x[1] \in seeded'
    BY DEF LateSound
  <2>2. \A x \in late' : SpaceOf[x[1]] \in Spaces
    BY <2>1 DEF TypeOK, GhostsTypeOK
  <2> QED
    BY <2>1, <2>2 DEF LateSound, LateHeard, Heard
<1>2. DispatchedHeard'
  <2> SUFFICES ASSUME NEW p \in Procs, Holds(p)', NEW o \in at'[p], NEW i \in mine'[p] \ todo'[p]
               PROVE  Heard(o[1], i)'
    BY DEF DispatchedHeard
  <2>1. Same(p)
    BY DEF Dropped, ReadsOn, Holds
  <2> QED
    BY <2>1 DEF Same, DispatchedHeard, Holds, Heard
<1>3. FoundHeard'
  <2> SUFFICES ASSUME NEW f \in Feeds, Holds(f)', NEW o \in at'[f], NEW i \in got'[f] \ mine'[f],
                      <<o[1], i>> \in late'
               PROVE  Heard(o[1], i)'
    BY DEF FoundHeard
  <2>1. Same(f)
    BY DEF Dropped, ReadsOn, Holds, Procs
  <2> QED
    BY <2>1 DEF Same, FoundHeard, Holds, Heard
<1>4. MarkIsLast'
  BY DEF MarkIsLast, Same, Dropped, ReadsOn
<1>5. FlagsSound' /\ DownIsEmpty'
  BY DEF FlagsSound, DownIsEmpty
<1> QED
  BY <1>1, <1>2, <1>3, <1>4, <1>5

\* A lookup: what is new to the monitor and not in hand has been heard of before.
LEMMA DedupTells ==
  ASSUME TypeOK, Placed, TellingInv, NEW f \in Feeds, Dedup(f)
  PROVE  TellingInv'
<1> USE FeedAssumption DEF TellingInv, Procs
<1>1. PICK o \in left[f] :
        /\ left' = [left EXCEPT ![f] = @ \ {o}] /\ at' = [at EXCEPT ![f] = {o}]
        /\ mine' = [mine EXCEPT ![f] = Unpublished(f, o)]
        /\ todo' = [todo EXCEPT ![f] = Unpublished(f, o)]
        /\ pc' = [pc EXCEPT ![f] = IF Unpublished(f, o) = {} THEN "mark" ELSE "send"]
  BY DEF Dedup
<1>2. UNCHANGED <<firstRun, epoch, up, loaded, tally, reached, late, seeded, pub, got>>
  BY DEF Dedup, memory, table
<1>3. /\ left'[f] = left[f] \ {o} /\ at'[f] = {o}
      /\ mine'[f] = Unpublished(f, o) /\ todo'[f] = Unpublished(f, o)
      /\ pc'[f] = IF Unpublished(f, o) = {} THEN "mark" ELSE "send"
      /\ \A p \in Procs \ {f} : Same(p) /\ left'[p] = left[p]
  BY <1>1, <1>2 DEF TypeOK, ProcsTypeOK, Same
<1>4. LateSound' /\ LateHeard'
  BY <1>2 DEF LateSound, LateHeard, Heard
<1>5. DispatchedHeard'
  <2> SUFFICES ASSUME NEW p \in Procs \ {f}, Holds(p)', NEW r \in at'[p],
                      NEW i \in mine'[p] \ todo'[p]
               PROVE  Heard(r[1], i)'
    BY <1>3 DEF DispatchedHeard
  <2> QED
    BY <1>2, <1>3 DEF Same, DispatchedHeard, Holds, Heard
<1>6. FoundHeard'
  <2>1. ASSUME NEW g \in Feeds \ {f}, Holds(g)', NEW r \in at'[g], NEW i \in got'[g] \ mine'[g],
               <<r[1], i>> \in late'
        PROVE  Heard(r[1], i)'
    BY <2>1, <1>2, <1>3 DEF Same, FoundHeard, Holds, Heard
  <2>2. ASSUME NEW i \in got'[f] \ mine'[f], <<o[1], i>> \in late' PROVE Heard(o[1], i)'
    <3>1. <<o[1], i>> \in late /\ o[1] \in seeded
      BY <1>2, <2>2 DEF LateSound
    <3>2. i \in pub[SpaceOf[o[1]]]
      BY <1>2, <1>3, <2>2, <3>1 DEF FlagsSound, Unpublished, Space
    <3> QED
      BY <1>2, <3>1, <3>2 DEF LateHeard, Heard
  <2> QED
    BY <1>3, <2>1, <2>2 DEF FoundHeard
<1>7. MarkIsLast'
  BY <1>3 DEF MarkIsLast, Same
<1>8. FlagsSound' /\ DownIsEmpty'
  <2>1. \A p \in Procs : left'[p] \cup at'[p] \subseteq left[p] \cup at[p]
    BY <1>3 DEF Same
  <2> QED
    BY <1>2, <2>1 DEF FlagsSound, DownIsEmpty
<1> QED
  BY <1>4, <1>5, <1>6, <1>7, <1>8

\* A dispatch makes its entry heard and no other unheard.
LEMMA DispatchTells ==
  ASSUME TypeOK, Accounting, TellingInv, NEW p \in Procs, NEW i \in Items,
         Send(p, i) \/ SendFails(p, i)
  PROVE  TellingInv'
<1> USE FeedAssumption DEF TellingInv
<1>1. /\ i \in todo[p] /\ pc[p] = "send"
      /\ UNCHANGED <<left, at, got, mine, pub, firstRun, epoch, up, loaded, late, seeded>>
      /\ todo' = [todo EXCEPT ![p] = @ \ {i}]
      /\ pc' = [pc EXCEPT ![p] = IF todo[p] = {i} THEN "mark" ELSE "send"]
  BY DEF Send, SendFails, Dispatched, memory, table
<1>2. PICK o \in Objects : at[p] = {o}
  BY <1>1 DEF Accounting, InHand, Holds
<1>3. o[1] \in Monitors /\ Space(o) = SpaceOf[o[1]] /\ <<Space(o), i>> \in Pairs
  BY <1>2 DEF Objects, Space, Pairs
<1>4. /\ \A x \in Pairs : tally[x] # "none" => tally'[x] # "none"
      /\ reached \subseteq reached' /\ Heard(o[1], i)'
  <2>1. CASE Send(p, i)
    BY <2>1, <1>2, <1>3 DEF Send, TypeOK, GhostsTypeOK, Heard
  <2>2. CASE SendFails(p, i)
    BY <2>2, <1>2, <1>3 DEF SendFails, Disrupt, TypeOK, GhostsTypeOK, Heard
  <2> QED
    BY <2>1, <2>2
<1>5. \A m \in Monitors, j \in Items : Heard(m, j) => Heard(m, j)'
  BY <1>4 DEF Heard, Pairs
<1>6. LateSound' /\ LateHeard'
  <2>1. \A x \in late : x[1] \in Monitors /\ x[2] \in Items
    BY DEF TypeOK, GhostsTypeOK
  <2> QED
    BY <1>1, <1>5, <2>1 DEF LateSound, LateHeard
<1>7. /\ todo'[p] = todo[p] \ {i}
      /\ pc'[p] = IF todo[p] = {i} THEN "mark" ELSE "send"
      /\ \A q \in Procs \ {p} : todo'[q] = todo[q] /\ pc'[q] = pc[q]
      /\ \A q \in Procs : Holds(q)' <=> Holds(q)
  BY <1>1 DEF TypeOK, ProcsTypeOK, Holds
<1>8. DispatchedHeard'
  <2> SUFFICES ASSUME NEW q \in Procs, Holds(q), NEW r \in at[q], NEW j \in mine[q] \ todo'[q]
               PROVE  Heard(r[1], j)'
    BY <1>1, <1>7 DEF DispatchedHeard
  <2>1. r[1] \in Monitors /\ j \in Items
    BY DEF TypeOK, ProcsTypeOK, Objects
  <2>2. CASE q = p /\ j = i
    BY <2>2, <1>2, <1>4
  <2>3. CASE ~(q = p /\ j = i)
    BY <2>1, <2>3, <1>5, <1>7 DEF DispatchedHeard
  <2> QED
    BY <2>2, <2>3
<1>9. FoundHeard'
  <2> SUFFICES ASSUME NEW f \in Feeds, Holds(f), NEW r \in at[f], NEW j \in got[f] \ mine[f],
                      <<r[1], j>> \in late
               PROVE  Heard(r[1], j)'
    BY <1>1, <1>7 DEF FoundHeard, Procs
  <2>1. r[1] \in Monitors /\ j \in Items
    BY DEF TypeOK, GhostsTypeOK, Procs
  <2> QED
    BY <2>1, <1>5 DEF FoundHeard
<1>10. MarkIsLast'
  BY <1>7 DEF MarkIsLast
<1>11. FlagsSound' /\ DownIsEmpty'
  BY <1>1 DEF FlagsSound, DownIsEmpty
<1> QED
  BY <1>6, <1>8, <1>9, <1>10, <1>11

\* A record comes after the announcement of the new entries it is of.
LEMMA MarkTells ==
  ASSUME OwnEntries, TypeOK, Accounting, Placed, TellingInv, NEW p \in Procs, Mark(p)
  PROVE  TellingInv'
<1> USE FeedAssumption DEF TellingInv
<1>1. PICK o \in at[p] :
        /\ pub' = [pub EXCEPT ![Space(o)] = @ \cup Recorded(p)]
        /\ firstRun' = FlagCleared(p, o)
        /\ seeded' = IF p \in Feeds THEN seeded \cup {o[1]} ELSE seeded
  BY DEF Mark
<1>2. /\ at[p] = {o} /\ o \in Objects /\ Holds(p) /\ todo[p] = {} /\ o[2] = epoch
      /\ o[1] \in Monitors /\ Space(o) = SpaceOf[o[1]] /\ Feed(o) = FeedOf[o[1]]
  BY <1>1 DEF Mark, Accounting, InHand, Holds, MarkIsLast, FlagsSound, Objects, Space, Feed
<1>3. UNCHANGED <<epoch, up, loaded, tally, reached, late>>
  BY DEF Mark
<1>4. /\ pc'[p] \in {"idle", "dedup"}
      /\ \A q \in Procs \ {p} : Same(q)
      /\ \A q \in Procs : left'[q] \cup at'[q] \subseteq left[q] \cup at[q]
  BY DEF Mark, Finish, NextMonitor, TypeOK, ProcsTypeOK, Same
<1>5. ASSUME NEW i \in Recorded(p) PROVE i \in Carries[Feed(o)]
  BY <1>2 DEF Recorded, Placed, Procs
<1>6. LateHeard'
  <2> SUFFICES ASSUME NEW x \in late, x[2] \in pub'[SpaceOf[x[1]]]
               PROVE  Heard(x[1], x[2])
    BY <1>3 DEF LateHeard, Heard
  <2>1. /\ x[1] \in Monitors /\ x[2] \in Items /\ x = <<x[1], x[2]>>
        /\ x[2] \in Carries[FeedOf[x[1]]]
    BY DEF TypeOK, GhostsTypeOK, LateSound
  <2>2. CASE x[2] \in pub[SpaceOf[x[1]]]
    BY <2>2 DEF LateHeard
  <2>3. CASE x[2] \notin pub[SpaceOf[x[1]]]
    <3>1. SpaceOf[x[1]] = Space(o) /\ x[2] \in Recorded(p)
      BY <2>1, <2>3, <1>1, <1>2 DEF TypeOK
    <3>2. x[1] = o[1]
      BY <2>1, <3>1, <1>2, <1>5 DEF OwnEntries
    <3>3. CASE x[2] \in mine[p]
      BY <3>2, <3>3, <1>2 DEF DispatchedHeard
    <3>4. CASE x[2] \notin mine[p]
      <4>1. p \in Feeds /\ x[2] \in got[p] \ mine[p]
        BY <3>1, <3>4 DEF Recorded
      <4>2. <<o[1], x[2]>> \in late
        BY <2>1, <3>2
      <4> QED
        BY <4>1, <4>2, <3>2, <1>2 DEF FoundHeard
    <3> QED
      BY <3>3, <3>4
  <2> QED
    BY <2>2, <2>3
<1>7. LateSound'
  BY <1>1, <1>3 DEF LateSound
<1>8. DispatchedHeard' /\ FoundHeard'
  <2>1. \A q \in Procs : Holds(q)' => Same(q) /\ Holds(q)
    BY <1>4 DEF Holds, Same
  <2> QED
    BY <1>3, <2>1 DEF DispatchedHeard, FoundHeard, Same, Heard, Procs
<1>9. MarkIsLast'
  BY <1>4 DEF MarkIsLast, Same
<1>10. FlagsSound'
  <2>1. \A r \in firstRun' : r \in firstRun /\ r[1] \notin seeded'
    <3>1. CASE p \in Feeds
      <4>1. ASSUME NEW r \in firstRun', r[1] = o[1] PROVE FALSE
        <5>1. r \in firstRun \ {o} /\ r[2] = epoch /\ r \in Objects
          BY <3>1, <4>1, <1>1 DEF FlagCleared, FlagsSound, TypeOK
        <5> QED
          BY <5>1, <4>1, <1>2 DEF Objects
      <4> QED
        BY <3>1, <4>1, <1>1 DEF FlagCleared, FlagsSound
    <3>2. CASE p \notin Feeds
      BY <3>2, <1>1 DEF FlagCleared, FlagsSound
    <3> QED
      BY <3>1, <3>2
  <2> QED
    BY <2>1, <1>3, <1>4 DEF FlagsSound
<1>11. DownIsEmpty'
  BY <1>1, <1>2, <1>3 DEF DownIsEmpty
<1> QED
  BY <1>6, <1>7, <1>8, <1>9, <1>10, <1>11

\* Every step keeps the account of the new entries.
LEMMA TellingStep ==
  OwnEntries /\ TypeOK /\ Accounting /\ Placed /\ TellingInv /\ [Next]_vars => TellingInv'
<1> SUFFICES ASSUME OwnEntries, TypeOK, Accounting, Placed, TellingInv, [Next]_vars
             PROVE  TellingInv'
  OBVIOUS
<1> USE FeedAssumption DEF world, table, memory, procs, syncs, ghosts
<1>1. ASSUME UNCHANGED <<pc, left, at, got, mine, todo, firstRun, epoch, up, loaded,
                         tally, reached, late, seeded, pub>>
      PROVE  TellingInv'
  <2>1. \A p \in Procs : Same(p) /\ left'[p] \cup at'[p] \subseteq left[p] \cup at[p]
    BY <1>1 DEF Same
  <2> QED
    BY <1>1, <2>1, SilentStep
<1>2. ASSUME NEW f \in Feeds, NEW i \in Items, Appear(f, i) PROVE TellingInv'
  <2>1. UNCHANGED <<pc, left, at, got, mine, todo, firstRun, epoch, up, loaded,
                    tally, reached, seeded, pub>>
    BY <1>2 DEF Appear
  <2>2. ASSUME NEW x \in late', x \notin late
        PROVE  /\ x[1] \in seeded /\ FeedOf[x[1]] = f /\ x[2] \in Carries[f]
               /\ x[2] \notin pub[SpaceOf[x[1]]] \cup got[f]
    BY <1>2, <2>2 DEF Appear
  <2>3. LateSound' /\ LateHeard'
    BY <2>1, <2>2 DEF TellingInv, LateSound, LateHeard, Heard
  <2>4. DispatchedHeard' /\ MarkIsLast' /\ FlagsSound' /\ DownIsEmpty'
    BY <2>1 DEF TellingInv, DispatchedHeard, Heard, Holds, MarkIsLast, FlagsSound, DownIsEmpty
  <2>5. FoundHeard'
    <3> SUFFICES ASSUME NEW g \in Feeds, Holds(g), NEW o \in at[g], NEW j \in got[g] \ mine[g],
                        <<o[1], j>> \in late'
                 PROVE  Heard(o[1], j)
      BY <2>1 DEF FoundHeard, Heard, Holds
    <3>1. CASE <<o[1], j>> \in late
      BY <3>1 DEF TellingInv, FoundHeard
    <3>2. CASE <<o[1], j>> \notin late
      <4>1. FeedOf[o[1]] = f /\ j \notin got[f]
        BY <2>2, <3>2
      <4>2. FeedOf[o[1]] = g
        BY DEF Placed, Feed
      <4> QED
        BY <4>1, <4>2
    <3> QED
      BY <3>1, <3>2
  <2> QED
    BY <2>3, <2>4, <2>5 DEF TellingInv
<1>3. ASSUME NEW f \in Feeds, NEW i \in Items, Withdraw(f, i) PROVE TellingInv'
  BY <1>1, <1>3 DEF Withdraw
<1>4. ASSUME NEW f \in Feeds, Elapse(f) PROVE TellingInv'
  BY <1>1, <1>4 DEF Elapse
<1>5. CASE Boot
  <2>1. /\ UNCHANGED <<pc, left, at, got, mine, todo, tally, reached, seeded, late, pub>>
        /\ epoch' = epoch + 1 /\ up' = TRUE /\ seeded = {}
        /\ loaded' = rows \X {epoch + 1} /\ firstRun' = rows \X {epoch + 1}
        /\ \A p \in Procs : left[p] = {} /\ at[p] = {}
    BY <1>5 DEF Boot, TellingInv, DownIsEmpty
  <2>2. LateSound' /\ LateHeard' /\ DispatchedHeard' /\ FoundHeard' /\ MarkIsLast'
    BY <2>1 DEF TellingInv, LateSound, LateHeard, DispatchedHeard, FoundHeard, MarkIsLast,
       Heard, Holds
  <2>3. FlagsSound' /\ DownIsEmpty'
    BY <2>1 DEF FlagsSound, DownIsEmpty
  <2> QED
    BY <2>2, <2>3 DEF TellingInv
<1>6. CASE Crash
  BY <1>6 DEF Crash, TellingInv, LateSound, LateHeard, DispatchedHeard, FoundHeard,
     MarkIsLast, FlagsSound, DownIsEmpty, Holds, Procs
<1>7. CASE Tick
  <2>1. /\ UNCHANGED <<at, got, mine, todo, firstRun, epoch, up, loaded,
                       tally, reached, late, seeded, pub>>
        /\ \A p \in Procs : Same(p) \/ Dropped(p)
    BY <1>7 DEF Tick, Same, Dropped
  <2>2. \A p \in Procs : left'[p] \subseteq left[p] \cup loaded
    BY <1>7 DEF Tick, Pollable, TypeOK
  <2>3. up = TRUE
    BY <1>7 DEF Tick, TypeOK
  <2> QED
    BY <2>1, <2>2, <2>3, SilentStep
<1>8. ASSUME NEW p \in Procs,
             \/ Finish(p) \/ NextMonitor(p)
             \/ p \in Feeds /\ (Fetch(p) \/ DedupFails(p))
      PROVE  /\ \A q \in Procs : Same(q) \/ Dropped(q)
             /\ \A q \in Procs : left'[q] \cup at'[q] \subseteq left[q] \cup at[q]
  BY <1>8 DEF Finish, NextMonitor, Fetch, DedupFails, Same, Dropped, TypeOK, ProcsTypeOK
<1>9. ASSUME NEW f \in Feeds, Fetch(f) \/ FetchFails(f) \/ DedupFails(f) PROVE TellingInv'
  <2>1. UNCHANGED <<firstRun, epoch, up, loaded, tally, reached, late, seeded, pub>>
    BY <1>9 DEF Fetch, FetchFails, DedupFails
  <2>2. Finish(f) \/ Fetch(f) \/ DedupFails(f)
    BY <1>9 DEF FetchFails
  <2> QED
    BY <2>1, <2>2, <1>8, SilentStep DEF Procs
<1>10. ASSUME NEW f \in Feeds, Dedup(f) PROVE TellingInv'
  BY <1>10, DedupTells
<1>11. ASSUME NEW c \in Checkers, StartCheck(c) PROVE TellingInv'
  <2>1. PICK o \in loaded : at' = [at EXCEPT ![c] = {o}]
    BY <1>11 DEF StartCheck
  <2>2. /\ UNCHANGED <<left, mine, todo, firstRun, epoch, up, loaded, tally, reached, late,
                       seeded, pub>>
        /\ up = TRUE /\ mine[c] = {}
    BY <1>11 DEF StartCheck, TypeOK, Accounting, InHand, Holds, Procs
  <2>3. ReadsOn(c) /\ \A q \in Procs \ {c} : Same(q)
    BY <2>2, <1>11 DEF StartCheck, ReadsOn, Same, TypeOK, ProcsTypeOK, Procs
  <2>4. \A q \in Procs : at'[q] \subseteq at[q] \cup loaded
    BY <2>1 DEF TypeOK, ProcsTypeOK, Procs
  <2> QED
    BY <2>2, <2>3, <2>4, SilentStep
<1>12. ASSUME NEW c \in Checkers, NEW i \in Items, Ask(c, i) PROVE TellingInv'
  <2>1. UNCHANGED <<firstRun, epoch, up, loaded, tally, reached, late, seeded, pub>>
    BY <1>12 DEF Ask
  <2>2. CASE Finish(c)
    BY <2>1, <2>2, <1>8, SilentStep DEF Procs
  <2>3. CASE ~Finish(c)
    <3>1. PICK o \in at[c] :
            /\ got' = [got EXCEPT ![c] = @ \ {i}]
            /\ mine' = [mine EXCEPT ![c] = @ \cup NewTo(o, i)]
            /\ todo' = [todo EXCEPT ![c] = @ \cup NewTo(o, i)]
            /\ pc' = [pc EXCEPT ![c] = IF got[c] = {i} THEN "send" ELSE "ask"]
            /\ UNCHANGED <<left, at>>
      BY <2>3, <1>12 DEF Ask
    <3>2. todo[c] = mine[c]
      BY <1>12 DEF Ask, Accounting, InHand, Procs
    <3>3. ReadsOn(c) /\ \A q \in Procs \ {c} : Same(q)
      BY <3>1, <3>2 DEF ReadsOn, Same, TypeOK, ProcsTypeOK, Procs
    <3> QED
      BY <2>1, <3>1, <3>3, SilentStep
  <2> QED
    BY <2>2, <2>3
<1>13. ASSUME NEW c \in Checkers, CheckAborts(c) PROVE TellingInv'
  <2>1. UNCHANGED <<firstRun, epoch, up, loaded, tally, reached, late, seeded, pub>> /\ Finish(c)
    BY <1>13 DEF CheckAborts
  <2> QED
    BY <2>1, <1>8, SilentStep DEF Procs
<1>14. ASSUME NEW p \in Procs, NEW i \in Items, Send(p, i) \/ SendFails(p, i)
       PROVE  TellingInv'
  BY <1>14, DispatchTells
<1>15. ASSUME NEW p \in Procs, Mark(p) PROVE TellingInv'
  BY <1>15, MarkTells
<1>16. ASSUME NEW p \in Procs, MarkFails(p) PROVE TellingInv'
  <2>1. /\ UNCHANGED <<firstRun, epoch, up, loaded, tally, reached, late, seeded, pub>>
        /\ Finish(p) \/ NextMonitor(p)
    BY <1>16 DEF MarkFails
  <2> QED
    BY <2>1, <1>8, SilentStep
<1>17. ASSUME NEW gone, Forget(gone), loaded' \subseteq loaded,
              UNCHANGED <<pc, left, at, got, mine, todo, firstRun, epoch, up, tally, reached>>,
              UNCHANGED <<late, seeded>> \/ (late' = {} /\ seeded' = {})
       PROVE  TellingInv'
  <2>1. \A s \in Spaces : pub'[s] \subseteq pub[s]
    BY <1>17 DEF Forget
  <2>2. \A p \in Procs : Same(p) /\ left'[p] \cup at'[p] \subseteq left[p] \cup at[p]
    BY <1>17 DEF Same
  <2> QED
    BY <1>17, <2>1, <2>2, SilentStep
<1>18. ASSUME NEW s \in Spaces, Reset(s) PROVE TellingInv'
  BY <1>17, <1>18 DEF Reset
<1>19. CASE ResetAll \/ FactoryReset \/ Retention
  BY <1>17, <1>19 DEF ResetAll, FactoryReset, Retention
<1>20. CASE Age \/ UNCHANGED vars
  BY <1>1, <1>20 DEF Age, vars
<1> QED
  BY <1>2, <1>3, <1>4, <1>5, <1>6, <1>7, <1>9, <1>10, <1>11, <1>12, <1>13, <1>14, <1>15,
     <1>16, <1>18, <1>19, <1>20
  DEF Next, Run, Check, Failure, Maintenance, Procs, OwnEntries

\* In every run without reloads the account of the new entries holds.
LEMMA TellingAlways == ASSUME OwnEntries PROVE Spec => []TellingInv
<1>1. Init => TellingInv
  BY DEF Init, TellingInv, LateSound, LateHeard, DispatchedHeard, FoundHeard, MarkIsLast,
     FlagsSound, DownIsEmpty, Holds, Procs
<1>2. TypeOK /\ Accounting /\ Placed /\ TellingInv /\ [Next]_vars => TellingInv'
  BY TellingStep
<1> QED
  BY <1>1, <1>2, TypeCorrect, AccountingInvariant, PlacedAlways, PTL DEF Spec

\* Where two monitors of a guild watch different entries and the list is not
\* reloaded, no silent seed, restart, reset, check or failure hides a new entry: it is
\* dispatched before it is recorded.
THEOREM NewAlwaysAnnounced == ASSUME OwnEntries PROVE Spec => []NewItemsAnnounced
<1>1. TellingInv => NewItemsAnnounced
  BY DEF TellingInv, LateHeard, Heard, NewItemsAnnounced
<1> QED
  BY <1>1, TellingAlways, PTL

\* If deliveries succeed, too, every monitor gets each new entry before it is recorded.
THEOREM EveryoneReached ==
  ASSUME OwnEntries, "deliver" \notin Disruptions
  PROVE  Spec => []AllSubscribersReached
<1>1. TypeOK /\ TellingInv => AllSubscribersReached
  <2> SUFFICES ASSUME TypeOK, TellingInv, NEW x \in late, x[2] \in pub[SpaceOf[x[1]]]
               PROVE  x \in reached
    BY DEF AllSubscribersReached
  <2>1. x = <<x[1], x[2]>>
    BY DEF TypeOK, GhostsTypeOK
  <2> QED
    BY <2>1 DEF TellingInv, LateHeard, Heard
<1> QED
  BY <1>1, TellingAlways, TypeCorrect, PTL

-----------------------------------------------------------------------------
(* The promise to a subscriber.                                            *)

\* What a coroutine has still to send was neither dispatched nor recorded before,
InHandUntold ==
  \A p \in Procs : Holds(p) =>
    \A o \in at[p] : \A i \in todo[p] :
      tally[<<Space(o), i>>] = "none" /\ i \notin pub[Space(o)]

\* and what was dispatched, delivered or not, is recorded or about to be.
DispatchedAnswered ==
  \A x \in Pairs : tally[x] # "none" =>
    x[2] \in pub[x[1]] \/ \E p \in Procs : Exposed(p, x[1], x[2])

\* What is kept about the promise.
PromiseInv == InHandUntold /\ DispatchedAnswered

\* Two runs that serve monitors of one guild have no entry in common.
LEMMA RunsApart ==
  ASSUME Quiet, TypeOK, Placed, NEW f \in Feeds, NEW g \in Feeds, f # g,
         NEW o \in left[f] \cup at[f], NEW r \in left[g] \cup at[g], Space(o) = Space(r),
         NEW i, i \in got[f], i \in got[g]
  PROVE  FALSE
<1>1. /\ o[1] \in Monitors /\ FeedOf[o[1]] = f /\ SpaceOf[o[1]] = Space(o)
      /\ r[1] \in Monitors /\ FeedOf[r[1]] = g /\ SpaceOf[r[1]] = Space(r)
  BY DEF TypeOK, ProcsTypeOK, Procs, Objects, Placed, Feed, Space
<1>2. i \in Carries[f] /\ i \in Carries[g]
  BY DEF Placed
<1> QED
  BY <1>1, <1>2 DEF Quiet

\* A step that dispatches and records nothing, and lets go only of processes that
\* hold nothing, keeps the account.
LEMMA PromiseSilent ==
  ASSUME PromiseInv, UNCHANGED <<pub, tally>>,
         \A p \in Procs : Same(p) \/ (~Holds(p) /\ Dropped(p))
  PROVE  PromiseInv'
<1>1. \A p \in Procs : Holds(p) \/ Holds(p)' => Same(p)
  BY DEF Dropped, Holds, Same
<1>2. InHandUntold'
  BY <1>1 DEF PromiseInv, InHandUntold, Same, Holds
<1>3. DispatchedAnswered'
  BY <1>1 DEF PromiseInv, DispatchedAnswered, Exposed, Same, Holds
<1> QED
  BY <1>2, <1>3 DEF PromiseInv

\* What a lookup claims is unrecorded, so it was dispatched by no run before.
LEMMA PromiseDedup ==
  ASSUME Quiet, TypeOK, Accounting, Placed, PromiseInv, NEW f \in Feeds, Dedup(f)
  PROVE  PromiseInv'
<1> USE FeedAssumption DEF Procs
<1>1. PICK o \in left[f] :
        /\ at' = [at EXCEPT ![f] = {o}]
        /\ mine' = [mine EXCEPT ![f] = Unpublished(f, o)]
        /\ todo' = [todo EXCEPT ![f] = Unpublished(f, o)]
        /\ pc' = [pc EXCEPT ![f] = IF Unpublished(f, o) = {} THEN "mark" ELSE "send"]
  BY DEF Dedup
<1>2. UNCHANGED <<pub, tally, got>> /\ ~Holds(f)
  BY DEF Dedup, table, Holds
<1>3. /\ at'[f] = {o} /\ mine'[f] = Unpublished(f, o) /\ todo'[f] = Unpublished(f, o)
      /\ \A p \in Procs \ {f} : Same(p)
  BY <1>1, <1>2 DEF TypeOK, ProcsTypeOK, Same
<1>4. DispatchedAnswered'
  BY <1>2, <1>3 DEF PromiseInv, DispatchedAnswered, Exposed, Same, Holds
<1>5. InHandUntold'
  <2>1. ASSUME NEW i \in Unpublished(f, o)
        PROVE  tally[<<Space(o), i>>] = "none" /\ i \notin pub[Space(o)]
    <3>1. i \in got[f] /\ i \notin pub[Space(o)]
      BY <2>1 DEF Unpublished
    <3>2. <<Space(o), i>> \in Pairs
      BY <3>1 DEF TypeOK, ProcsTypeOK, Objects, Space, Pairs
    <3>3. ASSUME NEW p \in Procs, Exposed(p, Space(o), i) PROVE FALSE
      <4>1. PICK r \in at[p] : Space(r) = Space(o)
        BY <3>3 DEF Exposed
      <4>2. p \in Feeds /\ p # f /\ i \in got[p]
        BY <3>3, <1>2 DEF Exposed, Accounting, InHand, Quiet
      <4> QED
        BY <4>1, <4>2, <3>1, RunsApart
    <3> QED
      BY <3>1, <3>2, <3>3 DEF PromiseInv, DispatchedAnswered
  <2> QED
    BY <1>2, <1>3, <2>1 DEF PromiseInv, InHandUntold, Same, Holds
<1> QED
  BY <1>4, <1>5 DEF PromiseInv

\* No two processes have the same entry of a guild in hand.
LEMMA OneInHand ==
  ASSUME Quiet, TypeOK, Accounting, Placed, NEW p \in Procs, NEW q \in Procs, p # q,
         Holds(p), Holds(q), NEW o \in at[p], NEW r \in at[q], Space(o) = Space(r),
         NEW i, i \in got[p], i \in mine[q]
  PROVE  FALSE
<1>1. p \in Feeds /\ q \in Feeds /\ i \in got[q]
  BY DEF Quiet, Procs, Accounting, InHand
<1> QED
  BY <1>1, RunsApart

\* A dispatched entry is answered for by its run until the run records it.
LEMMA PromiseDispatch ==
  ASSUME Quiet, TypeOK, Accounting, Placed, PromiseInv, NEW p \in Procs, NEW i \in Items,
         Send(p, i) \/ SendFails(p, i)
  PROVE  PromiseInv'
<1> USE FeedAssumption
<1>1. PICK o \in Objects : at[p] = {o}
  BY DEF Send, SendFails, Accounting, InHand, Holds
<1> DEFINE x == <<Space(o), i>>
<1>2. /\ pc[p] = "send" /\ i \in todo[p] /\ i \in mine[p] /\ i \in got[p] /\ x \in Pairs
      /\ UNCHANGED <<at, mine, got, pub>>
  BY <1>1 DEF Send, SendFails, Dispatched, table, Accounting, InHand, Quiet, Procs, Holds,
     Pairs, Objects, Space
<1>3. /\ todo'[p] = todo[p] \ {i} /\ pc'[p] \in {"mark", "send"}
      /\ \A q \in Procs \ {p} : Same(q)
  BY <1>2 DEF Send, SendFails, Dispatched, TypeOK, ProcsTypeOK, Same
<1>4. \A y \in Pairs : y # x => tally'[y] = tally[y]
  BY <1>1, <1>2 DEF Send, SendFails, TypeOK, GhostsTypeOK
<1>5. DispatchedAnswered'
  <2> SUFFICES ASSUME NEW y \in Pairs, tally'[y] # "none"
               PROVE  y[2] \in pub'[y[1]] \/ \E q \in Procs : Exposed(q, y[1], y[2])'
    BY DEF DispatchedAnswered
  <2>1. CASE y = x
    BY <2>1, <1>1, <1>2, <1>3 DEF Exposed, Holds
  <2>2. CASE y # x
    <3>1. y[2] \in pub[y[1]] \/ \E q \in Procs : Exposed(q, y[1], y[2])
      BY <2>2, <1>4 DEF PromiseInv, DispatchedAnswered
    <3>2. \A q \in Procs : Exposed(q, y[1], y[2]) => Exposed(q, y[1], y[2])'
      BY <1>2, <1>3 DEF Exposed, Holds, Same
    <3> QED
      BY <3>1, <3>2, <1>2
  <2> QED
    BY <2>1, <2>2
<1>6. InHandUntold'
  <2> SUFFICES ASSUME NEW q \in Procs, Holds(q)', NEW r \in at[q], NEW j \in todo'[q]
               PROVE  tally'[<<Space(r), j>>] = "none" /\ j \notin pub[Space(r)]
    BY <1>2 DEF InHandUntold
  <2>1. Holds(q) /\ j \in todo[q] /\ j \in mine[q] /\ <<Space(r), j>> \in Pairs
    BY <1>2, <1>3
    DEF Same, Holds, TypeOK, ProcsTypeOK, Accounting, InHand, Pairs, Objects, Space
  <2>2. tally[<<Space(r), j>>] = "none" /\ j \notin pub[Space(r)]
    BY <2>1 DEF PromiseInv, InHandUntold
  <2>3. ASSUME <<Space(r), j>> = x PROVE FALSE
    <3>1. q # p
      BY <2>3, <1>3
    <3>2. Holds(p) /\ o \in at[p]
      BY <1>1, <1>2 DEF Holds
    <3> QED
      BY <2>1, <2>3, <3>1, <3>2, <1>2, OneInHand
  <2> QED
    BY <2>1, <2>2, <2>3, <1>4
<1> QED
  BY <1>5, <1>6 DEF PromiseInv

\* A run records all it had in hand, and nothing that another run has still to send.
LEMMA PromiseMark ==
  ASSUME Quiet, TypeOK, Accounting, Placed, PromiseInv, NEW p \in Procs, Mark(p)
  PROVE  PromiseInv'
<1> USE FeedAssumption
<1>1. PICK o \in at[p] : pub' = [pub EXCEPT ![Space(o)] = @ \cup got[p]]
  BY DEF Mark, Recorded, Quiet, Procs
<1>2. /\ at[p] = {o} /\ Holds(p) /\ Space(o) \in Spaces /\ mine[p] \subseteq got[p]
      /\ p \in Feeds /\ tally' = tally
  BY <1>1 DEF Mark, Accounting, InHand, Holds, TypeOK, ProcsTypeOK, Objects, Space, Quiet, Procs
<1>3. /\ pub'[Space(o)] = pub[Space(o)] \cup got[p]
      /\ \A s \in Spaces : pub[s] \subseteq pub'[s] /\ (s # Space(o) => pub'[s] = pub[s])
  BY <1>1, <1>2 DEF TypeOK
<1>4. ~Holds(p)' /\ \A q \in Procs \ {p} : Same(q)
  BY DEF Mark, Finish, NextMonitor, TypeOK, ProcsTypeOK, Same, Holds
<1>5. DispatchedAnswered'
  <2> SUFFICES ASSUME NEW y \in Pairs, tally[y] # "none"
               PROVE  y[2] \in pub'[y[1]] \/ \E q \in Procs : Exposed(q, y[1], y[2])'
    BY <1>2 DEF DispatchedAnswered
  <2>1. CASE y[2] \in pub[y[1]] \/ Exposed(p, y[1], y[2])
    BY <2>1, <1>2, <1>3 DEF Exposed, Pairs
  <2>2. ASSUME NEW q \in Procs \ {p}, Exposed(q, y[1], y[2]) PROVE Exposed(q, y[1], y[2])'
    BY <2>2, <1>4 DEF Exposed, Holds, Same
  <2> QED
    BY <2>1, <2>2 DEF PromiseInv, DispatchedAnswered
<1>6. InHandUntold'
  <2> SUFFICES ASSUME NEW q \in Procs, Holds(q)', NEW r \in at'[q], NEW j \in todo'[q]
               PROVE  tally[<<Space(r), j>>] = "none" /\ j \notin pub'[Space(r)]
    BY <1>2 DEF InHandUntold
  <2>1. q # p /\ Holds(q) /\ r \in at[q] /\ j \in todo[q] /\ j \in mine[q] /\ Space(r) \in Spaces
    BY <1>4 DEF Same, Holds, TypeOK, ProcsTypeOK, Accounting, InHand, Objects, Space
  <2>2. tally[<<Space(r), j>>] = "none" /\ j \notin pub[Space(r)]
    BY <2>1 DEF PromiseInv, InHandUntold
  <2>3. ~(Space(r) = Space(o) /\ j \in got[p])
    BY <2>1, <1>2, OneInHand
  <2> QED
    BY <2>1, <2>2, <2>3, <1>3
<1> QED
  BY <1>5, <1>6 DEF PromiseInv

\* Every other step of a quiet pipeline dispatches and records nothing.
LEMMA QuietSteps ==
  ASSUME Quiet, TypeOK, Accounting, [Next]_vars
  PROVE  \/ \E p \in Procs : Mark(p) \/ \E i \in Items : Send(p, i) \/ SendFails(p, i)
         \/ \E f \in Feeds : Dedup(f)
         \/ UNCHANGED <<pub, tally>> /\ \A p \in Procs : Same(p) \/ (~Holds(p) /\ Dropped(p))
<1> DEFINE Silent == /\ UNCHANGED <<pub, tally>>
                     /\ \A p \in Procs : Same(p) \/ (~Holds(p) /\ Dropped(p))
<1> USE DEF world, table, memory, procs, syncs, ghosts
<1>1. ASSUME UNCHANGED <<pub, tally, pc, at, got, mine, todo>> PROVE Silent
  BY <1>1 DEF Same
<1>2. ASSUME NEW f \in Feeds, NEW i \in Items, Appear(f, i) \/ Withdraw(f, i) PROVE Silent
  BY <1>1, <1>2 DEF Appear, Withdraw
<1>3. ASSUME NEW y \in Syncers, Sync(y) \/ SyncFails(y) PROVE Silent
  BY <1>1, <1>3 DEF Sync, SyncRequest, SyncSnapshot, SyncRead, SyncSwap, SyncFails,
     CreateFeed, UpdateFeed, DeleteFeed, Edited
<1>4. ASSUME Boot \/ Age \/ (\E f \in Feeds : Elapse(f)) \/ UNCHANGED vars PROVE Silent
  BY <1>1, <1>4 DEF Boot, Age, Elapse, vars
<1>5. ASSUME Tick PROVE Silent
  BY <1>5 DEF Tick, Same, Dropped, Holds, BatchDone, TypeOK
<1>6. ASSUME NEW f \in Feeds, Fetch(f) \/ FetchFails(f) \/ DedupFails(f) PROVE Silent
  <2>1. ~Holds(f) /\ UNCHANGED <<pub, tally>> /\ f \in Procs
    BY <1>6 DEF Fetch, FetchFails, DedupFails, Holds, Procs
  <2>2. \A p \in Procs : Same(p) \/ (p = f /\ Dropped(p))
    BY <1>6 DEF Fetch, FetchFails, DedupFails, Finish, Same, Dropped, TypeOK, ProcsTypeOK, Procs
  <2> QED
    BY <2>1, <2>2
<1>7. /\ Checkers = {} /\ ~Crash /\ ~ResetAll /\ ~FactoryReset /\ ~Retention
      /\ \A s \in Spaces : ~Reset(s)
      /\ \A p \in Procs : ~MarkFails(p)
  BY DEF Quiet, Crash, ResetAll, FactoryReset, Retention, Reset, MarkFails, Disrupt
<1> HIDE DEF Silent
<1>8. \/ Silent
      \/ \E f \in Feeds : Mark(f) \/ Dedup(f) \/ \E i \in Items : Send(f, i)
      \/ \E p \in Procs : \E i \in Items : SendFails(p, i)
  BY <1>2, <1>3, <1>4, <1>5, <1>6, <1>7 DEF Next, Run, Failure, Maintenance
<1> QED
  BY <1>8 DEF Silent, Procs

\* Every step keeps the account of the promise,
LEMMA PromiseStep ==
  Quiet /\ TypeOK /\ Accounting /\ Placed /\ PromiseInv /\ [Next]_vars => PromiseInv'
  BY QuietSteps, PromiseSilent, PromiseDedup, PromiseDispatch, PromiseMark

\* What KeepsPromise maps the records to: what the subscriber was told.
Told ==
  [x \in Pairs |->
     CASE tally[x] = "again" -> "twice"
       [] tally[x] \in {"sent", "failed"} -> "announced"
       [] tally[x] = "none" /\ x[2] \in pub[x[1]] -> "silent"
       [] OTHER -> "unknown"]

\* and is a step the promise allows, or none: a dispatch announces an entry nobody
\* knew of, and a commit passes over what it records and nobody announced.
LEMMA StepKeepsPromise ==
  ASSUME Quiet, TypeOK, Accounting, PromiseInv, [Next]_vars
  PROVE  [Promise!Next]_Told
<1> USE DEF Told
<1>1. CASE UNCHANGED <<pub, tally>>
  BY <1>1
<1>2. ASSUME NEW p \in Procs, NEW i \in Items, Send(p, i) \/ SendFails(p, i)
      PROVE  Promise!Next
  <2>1. PICK o \in Objects : at[p] = {o}
    BY <1>2 DEF Send, SendFails, Accounting, InHand, Holds
  <2> DEFINE x == <<Space(o), i>>
  <2>2. x \in Pairs /\ pub' = pub /\ tally[x] = "none" /\ i \notin pub[Space(o)]
    BY <1>2, <2>1, FeedAssumption DEF Send, SendFails, Dispatched, table, PromiseInv,
       InHandUntold, Holds, Pairs, Objects, Space
  <2>3. tally' = [tally EXCEPT ![x] = "sent"] \/ tally' = [tally EXCEPT ![x] = "failed"]
    BY <1>2, <2>1, <2>2 DEF Send, SendFails, TypeOK, GhostsTypeOK
  <2>4. Told[x] = "unknown" /\ Told'[x] = "announced"
    BY <2>2, <2>3 DEF TypeOK, GhostsTypeOK
  <2>5. \A y \in Pairs : y # x => Told'[y] = Told[y]
    BY <2>2, <2>3 DEF TypeOK, GhostsTypeOK
  <2>6. Told' = [Told EXCEPT ![x] = "announced"]
    BY <2>4, <2>5
  <2> QED
    BY <2>2, <2>4, <2>6 DEF Promise!Next, Promise!Announce
<1>3. ASSUME NEW p \in Procs, Mark(p) PROVE Promise!Next
  <2>1. /\ tally' = tally
        /\ \A s \in Spaces : pub[s] \subseteq pub'[s]
    BY <1>3 DEF Mark, TypeOK
  <2>2. ASSUME NEW y \in Pairs
        PROVE  Told'[y] = Told[y] \/ (Told[y] = "unknown" /\ Told'[y] = "silent")
    <3>1. y[1] \in Spaces
      BY DEF Pairs
    <3> QED
      BY <2>1, <3>1 DEF TypeOK, GhostsTypeOK
  <2> QED
    BY <2>2 DEF Promise!Next, Promise!Silence
<1>4. ASSUME NEW f \in Feeds, Dedup(f) PROVE UNCHANGED <<pub, tally>>
  BY <1>4 DEF Dedup, table
<1> QED
  BY <1>1, <1>2, <1>3, <1>4, QuietSteps

\* Where nothing takes a record away and nobody checks by hand the pipeline implements
\* the promise to its subscribers: an entry is unknown until it is announced, once, or
\* passed over in silence for good, whatever is reloaded and whatever else fails.
THEOREM PipelineKeepsPromise == ASSUME Quiet PROVE Spec => KeepsPromise
<1>1. Init => Promise!Init /\ PromiseInv
  <2> SUFFICES ASSUME Init PROVE Promise!Init /\ PromiseInv
    OBVIOUS
  <2>1. Promise!Init
    BY DEF Init, Promise!Init, Pairs
  <2>2. PromiseInv
    BY DEF Init, PromiseInv, InHandUntold, DispatchedAnswered, Holds, Pairs
  <2> QED
    BY <2>1, <2>2
<1>2. TypeOK /\ Accounting /\ Placed /\ PromiseInv /\ [Next]_vars => PromiseInv'
  BY PromiseStep
<1>3. TypeOK /\ Accounting /\ PromiseInv /\ [Next]_vars => [Promise!Next]_Told
  BY StepKeepsPromise
<1> QED
  BY <1>1, <1>2, <1>3, TypeCorrect, AccountingInvariant, PlacedAlways, PTL
  DEF Spec, KeepsPromise, Promise!Spec, Told
===============================================================================
