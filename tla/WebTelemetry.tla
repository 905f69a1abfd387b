---------------------------- MODULE WebTelemetry ----------------------------
(***************************************************************************)
(* What the console reports about itself: services/errorReporter (the      *)
(* global listeners, the breadcrumbs and the three adapters) and           *)
(* services/webVitals.ts, whose measurements main.tsx turns into           *)
(* breadcrumbs.                                                            *)
(*                                                                         *)
(* An event is one turn of the event loop in which the browser calls a     *)
(* listener.  What was thrown is abstracted to the kinds captureException  *)
(* tells apart; "circular" stands for everything JSON.stringify throws on. *)
(* Reports that leave through fetch are answered, or fail, later.          *)
(***************************************************************************)
EXTENDS Integers, Sequences, SequencesExt

CONSTANTS
  maxBreadcrumbs,    \* 50 in the code
  Durations,         \* bound: milliseconds a measurement may take
  Shifts,            \* bound: layout shifts, in 1/10000
  MaxRaised, MaxMeasured   \* bounds: failures, measurements

ASSUME TelemetryAssumption ==
  /\ maxBreadcrumbs \in Nat \ {0} /\ Durations \subseteq Nat /\ Shifts \subseteq Nat
  /\ MaxRaised \in Nat /\ MaxMeasured \in Nat

VARIABLES
  adapter,           \* "console", "http" or "sentry"
  thrown,            \* the failures whose listener is still to run, in order
  sending,           \* reports whose fetch is under way
  crumbs,            \* ErrorReporter.breadcrumbs
  vitals,            \* [cls, inp, observed], the locals of initWebVitals
  seen               \* history: [raised, captured, measured]

telemetryVars == <<adapter, thrown, sending, crumbs, vitals, seen>>

Names == {"LCP", "FID", "CLS", "INP", "FCP", "TTFB"}
Ratings == {"good", "needs-improvement", "poor"}
Reasons == {"Error", "string", "object", "nothing", "circular"}
Measurements == [name : Names, value : Nat, rating : Ratings]

TelemetryTypeOK ==
  /\ adapter \in {"console", "http", "sentry"}
  /\ thrown \in Seq(Reasons) /\ sending \in Nat
  /\ \A i \in DOMAIN crumbs : crumbs[i] \in Measurements
  /\ vitals.cls \in Nat /\ vitals.inp \in Nat /\ vitals.observed \subseteq Names

TelemetryInit ==
  /\ adapter \in {"console", "http", "sentry"}
  /\ thrown = <<>> /\ sending = 0 /\ crumbs = <<>>
  /\ vitals = [cls |-> 0, inp |-> 0, observed |-> {}]
  /\ seen = [raised |-> 0, captured |-> 0, measured |-> <<>>]

-----------------------------------------------------------------------------
(* webVitals.ts.                                                            *)

\* The limits of good and of needs-improvement; CLS in 1/1000.
Limits(name) ==
  CASE name = "LCP" -> <<2500, 4000>> [] name = "FID" -> <<100, 300>>
    [] name = "CLS" -> <<100, 250>>   [] name = "INP" -> <<200, 500>>
    [] name = "FCP" -> <<1800, 3000>> [] name = "TTFB" -> <<800, 1800>>

getRating(name, value) ==
  IF value <= Limits(name)[1] THEN "good"
  ELSE IF value <= Limits(name)[2] THEN "needs-improvement" ELSE "poor"

\* Math.round, of a sum of shifts to thousandths.
Rounded(name, value) == IF name = "CLS" THEN (value + 5) \div 10 ELSE value

Measured(name, value) ==
  [name |-> name, value |-> Rounded(name, value),
   rating |-> getRating(name, Rounded(name, value))]

\* Mutant: a full list takes no more.
addUntilFull(crumb) ==
  crumbs' = IF Len(crumbs) >= maxBreadcrumbs THEN crumbs ELSE Append(crumbs, crumb)

\* addBreadcrumb drops the oldest past the limit.
addBreadcrumb(crumb) ==
  LET pushed == Append(crumbs, crumb)
  IN crumbs' = IF Len(pushed) > maxBreadcrumbs THEN Tail(pushed) ELSE pushed

Reports(name, value) ==
  /\ Len(seen.measured) < MaxMeasured
  /\ addBreadcrumb(Measured(name, value))
  /\ seen' = [seen EXCEPT !.measured = Append(@, Measured(name, value))]
  /\ UNCHANGED <<adapter, thrown, sending>>

\* TTFB, FCP and the legacy FID are reported once, LCP for every candidate.
ReportOnce(name, value) ==
  /\ name \in {"TTFB", "FCP", "FID"} \ vitals.observed
  /\ vitals' = [vitals EXCEPT !.observed = @ \cup {name}]
  /\ Reports(name, value)
ReportLCP(value) == Reports("LCP", value) /\ UNCHANGED vitals

\* Shifts are summed, unless the user had just touched the page.
ReportCLS(shift) ==
  /\ vitals' = [vitals EXCEPT !.cls = @ + shift]
  /\ Reports("CLS", vitals.cls + shift)

\* Mutant: every interaction is reported.
ReportEveryINP(duration) ==
  /\ vitals' = [vitals EXCEPT !.inp = duration]
  /\ Reports("INP", duration)

ReportINP(duration) ==
  /\ duration > vitals.inp
  /\ vitals' = [vitals EXCEPT !.inp = duration]
  /\ Reports("INP", duration)

-----------------------------------------------------------------------------
(* errorReporter.                                                           *)

\* adapter.sendReport: the console's is done at once, as a beacon is; a fetch
\* takes its time.
sendReport ==
  \/ adapter # "sentry" /\ UNCHANGED sending
  \/ adapter # "console" /\ sending' = sending + 1

\* Something is thrown or rejected that nobody catches.
Raise(reason) ==
  /\ seen.raised < MaxRaised
  /\ thrown' = Append(thrown, reason)
  /\ seen' = [seen EXCEPT !.raised = @ + 1]
  /\ UNCHANGED <<adapter, sending, crumbs, vitals>>

\* Mutant: what cannot be written as JSON is passed over.
SkipUnwritable ==
  /\ thrown # <<>> /\ thrown' = Tail(thrown)
  /\ IF Head(thrown) = "circular" THEN UNCHANGED <<sending, seen>>
     ELSE sendReport /\ seen' = [seen EXCEPT !.captured = @ + 1]
  /\ UNCHANGED <<adapter, crumbs, vitals>>

\* Mutant: the listener throws the reason itself again.
ThrowAgain ==
  /\ thrown # <<>>
  /\ IF Head(thrown) = "circular"
     THEN thrown' = Append(Tail(thrown), "circular") /\ UNCHANGED <<sending, seen>>
     ELSE /\ thrown' = Tail(thrown) /\ sendReport
          /\ seen' = [seen EXCEPT !.captured = @ + 1]
  /\ UNCHANGED <<adapter, crumbs, vitals>>

\* A listener runs captureException.  A reason without a JSON form makes it throw
\* before the report: the browser hands that TypeError to the error listener.
RunListener ==
  /\ thrown # <<>>
  /\ IF Head(thrown) = "circular"
     THEN thrown' = Append(Tail(thrown), "Error") /\ UNCHANGED <<sending, seen>>
     ELSE /\ thrown' = Tail(thrown) /\ sendReport
          /\ seen' = [seen EXCEPT !.captured = @ + 1]
  /\ UNCHANGED <<adapter, crumbs, vitals>>

\* A boundary or the client reports an error it caught; it is an Error.
captureException ==
  /\ seen.raised < MaxRaised /\ sendReport
  /\ seen' = [seen EXCEPT !.raised = @ + 1, !.captured = @ + 1]
  /\ UNCHANGED <<adapter, thrown, crumbs, vitals>>

\* The fetch of a report is answered, or fails, which the adapter swallows.
ReportSettled ==
  /\ sending > 0 /\ sending' = sending - 1
  /\ UNCHANGED <<adapter, thrown, crumbs, vitals, seen>>

TelemetryNext ==
  \/ \E name \in {"TTFB", "FCP", "FID"}, d \in Durations : ReportOnce(name, d)
  \/ \E d \in Durations : ReportLCP(d) \/ ReportINP(d)
  \/ \E s \in Shifts : ReportCLS(s)
  \/ \E r \in Reasons : Raise(r)
  \/ RunListener \/ captureException \/ ReportSettled

\* Fairness: the browser runs the listeners of what was thrown.
TelemetryFairness == WF_telemetryVars(RunListener)

TelemetrySpec == TelemetryInit /\ [][TelemetryNext]_telemetryVars /\ TelemetryFairness

-----------------------------------------------------------------------------
(* Properties.                                                              *)

\* Every failure makes one report and no more: one whose reason cannot be written
\* as JSON is not lost, and a report that fails to leave raises no other.
OneReportPerFailure == seen.captured + Len(thrown) = seen.raised

\* The breadcrumbs are the latest measurements, as many as are kept, in order.
LatestBreadcrumbs ==
  LET n == Len(seen.measured)
  IN crumbs = SubSeq(seen.measured, IF n > maxBreadcrumbs THEN n - maxBreadcrumbs + 1 ELSE 1, n)

\* Within one page the layout shift and the slowest interaction only get worse:
\* the breadcrumbs never show a better value or rating after a worse one.
VitalsOnlyWorsen ==
  LET rank == [good |-> 0, poor |-> 2, other |-> 1]
      Rank(r) == IF r \in DOMAIN rank THEN rank[r] ELSE rank["other"]
  IN \A i, j \in DOMAIN crumbs :
       i < j /\ crumbs[i].name = crumbs[j].name /\ crumbs[i].name \in {"CLS", "INP"} =>
         crumbs[i].value <= crumbs[j].value /\ Rank(crumbs[i].rating) <= Rank(crumbs[j].rating)

\* A report tells what happened: each failure once, with the latest measurements, and
\* these in the order in which they got worse.
ReportsTruthful == OneReportPerFailure /\ LatestBreadcrumbs /\ VitalsOnlyWorsen

\* All that was thrown is reported in the end.
AllReported == []<>(thrown = <<>>)
=============================================================================
