------------------------ MODULE MonitorAlertsProofs ------------------------
(***************************************************************************)
(* Proofs about MonitorAlerts, for any number of alerts, retries, requests *)
(* and quiet windows, with every fault.                                    *)
(***************************************************************************)
EXTENDS MonitorAlerts, FiniteSetTheorems, TLAPS

-----------------------------------------------------------------------------
(* Lemmas on the rows and on what the actors keep                          *)

LEMMA NoAlertTyped == NoAlert \in Alert /\ [NoAlert EXCEPT !.status = "new"] \in Alert
<1>1. 0 \in 0..recovery_condition /\ 0 \in 0..(MaxRetry + MaxRequests)
  BY ConstantsAssumption
<1> QED
  BY <1>1 DEF NoAlert, Alert

\* What TypeOK says of the variables scan, manual, view and comp.
ScanState ==
    [pc : {"idle", "detect", "count", "recover", "create", "push", "mark", "end", "lost"},
     notice : BOOLEAN, again : BOOLEAN, seen : SUBSET Id, event : Window("alert") \cup Window("no_data"), n : Notice]
ManualState ==
    [pc : {"idle", "save", "push", "mark"}, closes : BOOLEAN, id : Id \cup {0}, copy : Alert, n : Notice]
ViewState == [pc : {"idle", "commit"}, enable : BOOLEAN, ids : SUBSET Id]
CompState == [pc : {"idle", "push", "mark", "lost"}, ids : SUBSET Id, ok : SUBSET Id]

LEMMA IdleTyped ==
    /\ NoNotice \in Notice
    /\ ScanIdle \in ScanState
    /\ ManualIdle \in ManualState
    /\ ViewIdle \in ViewState
    /\ CompIdle \in CompState
<1>1. NoNotice \in Notice
  BY DEF NoNotice, Notify, Notice, Action
<1>2. "quiet" \in Window("alert")
  BY DEF Window
<1> QED
  BY <1>1, <1>2, NoAlertTyped DEF ScanState, ManualState, ViewState, CompState, ScanIdle, ManualIdle, ViewIdle, CompIdle

\* A new call of the notifier about some alerts.
LEMMA NotifyTyped ==
    ASSUME NEW ids \in SUBSET Id, NEW a \in Action
    PROVE  Notify(ids, a) \in Notice
BY DEF Notify, Notice

\* The alert center takes some of the alerts it is meant to be told of.
LEMMA PushedTyped ==
    ASSUME NEW ids \in SUBSET Id, NEW a \in Action, NEW b \in BOOLEAN,
           NEW hit \in _should_notify_channel(ids, a, b), NEW ok \in Accepted(hit)
    PROVE  hit \in SUBSET ids /\ ok \in SUBSET hit
BY DEF _should_notify_channel, Accepted

\* The writes of the notifier, of recovery and of the count keep the rows.
LEMMA WritesTyped ==
    ASSUME alerts \in [Id -> Alert]
    PROVE  /\ \A ids, hit, ok \in SUBSET Id : Mark(ids, hit, ok) \in [Id -> Alert]
           /\ \A ids \in SUBSET Id, status \in Ended : EndAs(status, ids) \in [Id -> Alert]
           /\ \A i \in Id, e \in Window("alert") \cup Window("no_data") : Counted(i, e) \in Alert
<1>1. 0 \in 0..recovery_condition /\ 0 \in 0..(MaxRetry + MaxRequests)
  BY ConstantsAssumption
<1>2. ASSUME NEW ids \in SUBSET Id, NEW hit \in SUBSET Id, NEW ok \in SUBSET Id
      PROVE  Mark(ids, hit, ok) \in [Id -> Alert]
  <2>1. \A i \in Id : /\ [alerts[i] EXCEPT !.notified = TRUE, !.retry = 0] \in Alert
                      /\ [alerts[i] EXCEPT !.notified = TRUE] \in Alert
    BY <1>1 DEF Alert
  <2> QED
    BY <2>1 DEF Mark
<1>3. ASSUME NEW ids \in SUBSET Id, NEW status \in Ended
      PROVE  EndAs(status, ids) \in [Id -> Alert]
  <2>1. \A i \in Id : [alerts[i] EXCEPT !.status = status, !.notified = FALSE] \in Alert
    BY DEF Alert
  <2> QED
    BY <2>1 DEF EndAs
<1>4. ASSUME NEW i \in Id, NEW e \in Window("alert") \cup Window("no_data")
      PROVE  Counted(i, e) \in Alert
  <2>1. alerts[i].info \in 0..recovery_condition
    BY DEF Alert
  <2>2. alerts[i].info < recovery_condition => alerts[i].info + 1 \in 0..recovery_condition
    BY <2>1, ConstantsAssumption
  <2>3. CASE e = "quiet" /\ alerts[i].info < recovery_condition
    BY <2>2, <2>3 DEF Counted, Alert
  <2>4. CASE e \in {"over", "higher"}
    BY <1>1, <2>4 DEF Counted, Alert
  <2>5. CASE e \notin {"over", "higher"} /\ ~(e = "quiet" /\ alerts[i].info < recovery_condition)
    BY <2>5 DEF Counted
  <2> QED
    BY <2>3, <2>4, <2>5
<1> QED
  BY <1>2, <1>3, <1>4

\* What _mark_alert_center_notified leaves of a row.
LEMMA MarkRow ==
    ASSUME alerts \in [Id -> Alert],
           NEW ids \in SUBSET Id, NEW hit \in SUBSET Id, NEW ok \in SUBSET Id, NEW i \in Id
    PROVE  /\ Mark(ids, hit, ok)[i].status = alerts[i].status
           /\ Mark(ids, hit, ok)[i].info = alerts[i].info
           /\ Mark(ids, hit, ok)[i].retry = alerts[i].retry \/ Mark(ids, hit, ok)[i].retry = 0
           /\ Mark(ids, hit, ok)[i].notified => alerts[i].notified \/ (i \in ids /\ (i \in ok \/ i \notin hit))
<1>1. CASE i \in ids /\ i \in ok
  <2>1. Mark(ids, hit, ok)[i] = [alerts[i] EXCEPT !.notified = TRUE, !.retry = 0]
    BY <1>1 DEF Mark
  <2> QED
    BY <1>1, <2>1 DEF Alert
<1>2. CASE i \in ids \ (hit \cup ok)
  <2>1. Mark(ids, hit, ok)[i] = [alerts[i] EXCEPT !.notified = TRUE]
    BY <1>2 DEF Mark
  <2> QED
    BY <1>2, <2>1 DEF Alert
<1>3. CASE ~(i \in ids /\ i \in ok) /\ i \notin ids \ (hit \cup ok)
  <2>1. Mark(ids, hit, ok)[i] = alerts[i]
    BY <1>3 DEF Mark
  <2> QED
    BY <2>1
<1> QED
  BY <1>1, <1>2, <1>3

-----------------------------------------------------------------------------
(* Type correctness.  The bound on alert_center_retry_count is the hard    *)
(* part: the compensation task adds to a count it has read as small, and   *)
(* a request to close may have saved an older, larger one in between.  Each *)
(* request does so at most once, so the count exceeds the limit by at most *)
(* the number of requests.                                                 *)

Reach == MaxRetry + (MaxRequests - left)

CountsOK ==
    /\ \A i \in Id : alerts[i].retry <= Reach
    /\ \A i \in comp.ids : alerts[i].retry + 1 <= Reach
    /\ manual.pc = "save" => manual.copy.retry + 1 <= Reach
    /\ manual.pc # "idle" => manual.id \in Id

TypeInv == TypeOK /\ CountsOK

LEMMA ReachTyped ==
    ASSUME left \in 0..MaxRequests
    PROVE  Reach \in Nat /\ MaxRetry <= Reach /\ Reach <= MaxRetry + MaxRequests
BY ConstantsAssumption DEF Reach

LEMMA RetryIsNumber ==
    ASSUME NEW a \in Alert
    PROVE  a.retry \in Nat /\ a.status \in {"none", "new", "closed", "recovered"}
<1>1. a.retry \in 0..(MaxRetry + MaxRequests) /\ a.status \in {"none", "new"} \cup Ended
  BY DEF Alert
<1> QED
  BY <1>1, ConstantsAssumption DEF Ended

LEMMA InitTyped == Init => TypeInv
<1> SUFFICES ASSUME Init PROVE TypeInv
  OBVIOUS
<1>1. TypeOK
  <2>1. type \in {"alert", "no_data"}
    BY ConstantsAssumption DEF Init
  <2>2. left \in 0..MaxRequests /\ quiet \in 0..recovery_condition /\ failed \in 0..recovery_condition
    BY ConstantsAssumption DEF Init
  <2>3. alerts \in [Id -> Alert]
    BY NoAlertTyped DEF Init
  <2>4. policy \in [enable : BOOLEAN, notice : BOOLEAN] /\ muted \in BOOLEAN /\ recount \in BOOLEAN
    BY DEF Init
  <2>5. heard \in SUBSET Id /\ late \in SUBSET Id /\ stale \in SUBSET Id
    BY DEF Init
  <2>6. scan = ScanIdle /\ manual = ManualIdle /\ view = ViewIdle /\ comp = CompIdle
    BY DEF Init
  <2> QED
    BY <2>1, <2>2, <2>3, <2>4, <2>5, <2>6, IdleTyped DEF TypeOK, ScanState, ManualState, ViewState, CompState
<1>2. CountsOK
  <2>1. \A i \in Id : alerts[i].retry = 0
    BY DEF Init, NoAlert
  <2>2. comp.ids = {} /\ manual.pc = "idle"
    BY DEF Init, CompIdle, ManualIdle
  <2>3. Reach \in Nat
    BY <1>1, ReachTyped DEF TypeOK
  <2> QED
    BY <2>1, <2>2, <2>3 DEF CountsOK
<1> QED
  BY <1>1, <1>2 DEF TypeInv

\* A step that raises no count, forgets copies or keeps them, and takes no new
\* request, keeps the bound.
LEMMA RetryKept ==
    ASSUME TypeInv, alerts' \in [Id -> Alert], left' = left,
           \A i \in Id : alerts'[i].retry = alerts[i].retry \/ alerts'[i].retry = 0,
           comp'.ids \in SUBSET comp.ids,
           manual'.pc = "save" => manual.pc = "save" /\ manual'.copy = manual.copy,
           manual'.pc # "idle" => manual'.id \in Id
    PROVE  CountsOK'
<1>1. Reach' = Reach /\ Reach \in Nat /\ Reach >= 1
  BY ReachTyped, ConstantsAssumption DEF TypeInv, TypeOK, Reach
<1>2. /\ \A i \in Id : alerts[i].retry \in Nat
      /\ comp.ids \in SUBSET Id
  BY RetryIsNumber DEF TypeInv, TypeOK
<1>3. \A i \in Id : alerts'[i].retry <= Reach
  BY <1>1, <1>2 DEF TypeInv, CountsOK
<1>4. \A i \in comp'.ids : alerts'[i].retry + 1 <= Reach
  BY <1>1, <1>2 DEF TypeInv, CountsOK
<1>5. manual'.pc = "save" => manual'.copy.retry + 1 <= Reach
  BY DEF TypeInv, CountsOK
<1> QED
  BY <1>1, <1>3, <1>4, <1>5 DEF CountsOK

\* The steps of a scan (scan_policy_task).
LEMMA ScanTyped ==
    ASSUME TypeInv, ScanStart \/ ScanStep \/ ScanFails \/ ScanKilled
    PROVE  TypeInv'
<1>0. /\ TypeOK
      /\ alerts \in [Id -> Alert]
      /\ scan \in ScanState
      /\ policy.notice \in BOOLEAN
  BY DEF TypeInv, TypeOK, ScanState
<1>1. Active \in SUBSET Id /\ scan.n.ids \in SUBSET Id /\ scan.n.action \in Action
  BY <1>0 DEF Active, ScanState, Notice
<1>2. UNCHANGED <<manual, comp, left>>
  BY DEF ScanStart, ScanStep, ScanFails, ScanKilled, ScanDetect, ScanCount, ScanRecover, ScanCreate,
         ScanPush, ScanMark, ScanEnds
<1>3. ASSUME alerts' \in [Id -> Alert],
             \A i \in Id : alerts'[i].retry = alerts[i].retry \/ alerts'[i].retry = 0
      PROVE  CountsOK'
  <2>1. /\ comp'.ids \in SUBSET comp.ids
        /\ left' = left
        /\ manual'.pc = "save" => manual.pc = "save" /\ manual'.copy = manual.copy
        /\ manual'.pc # "idle" => manual'.id \in Id
    BY <1>2 DEF TypeInv, CountsOK
  <2> QED
    BY <1>3, <2>1, RetryKept
<1>4. ASSUME UNCHANGED alerts PROVE CountsOK'
  BY <1>0, <1>3, <1>4
<1>a. ASSUME UNCHANGED <<type, policy, alerts, manual, view, left, comp, heard, quiet, muted, late, stale>>,
             scan' \in ScanState, recount' \in BOOLEAN, failed' \in 0..recovery_condition
      PROVE  TypeInv'
  BY <1>0, <1>4, <1>a DEF TypeInv, TypeOK, ScanState
<1>b. recount \in BOOLEAN /\ failed \in 0..recovery_condition
  BY <1>0 DEF TypeOK
<1>5. CASE ScanStart
  <2>1. PICK again \in {FALSE, recount} :
          scan' = [ScanIdle EXCEPT !.pc = "detect", !.notice = policy.notice, !.again = again]
    BY <1>5 DEF ScanStart
  <2>2. again \in BOOLEAN
    BY <1>b, <2>1, Zenon
  <2>3. scan' \in ScanState
    BY <1>0, <2>1, <2>2, IdleTyped DEF ScanState
  <2> QED
    BY <1>5, <1>a, <1>b, <2>3 DEF ScanStart
<1>6. CASE ScanDetect
  <2>1. type \in {"alert", "no_data"}
    BY <1>0 DEF TypeOK
  <2>2. PICK event \in Window(type) :
          scan' = [scan EXCEPT !.pc = IF type = "alert" THEN "count" ELSE "recover",
                               !.seen = Active, !.event = event]
    BY <1>6 DEF ScanDetect
  <2>3. event \in Window("alert") \cup Window("no_data")
    BY <2>1
  <2>4. scan' \in ScanState
    BY <1>0, <1>1, <2>2, <2>3 DEF ScanState
  <2> QED
    BY <1>6, <1>a, <1>b, <2>4 DEF ScanDetect
<1>7. CASE ScanCount
  <2>1. alerts' \in [Id -> Alert] /\ \A i \in Id : alerts'[i].retry = alerts[i].retry
    <3>1. \A i \in Id : Counted(i, scan.event) \in Alert /\ Counted(i, scan.event).retry = alerts[i].retry
      BY <1>0, WritesTyped DEF Counted, Alert, ScanState
    <3> QED
      BY <1>0, <1>7, <3>1 DEF ScanCount
  <2>2. quiet' \in 0..recovery_condition /\ failed' \in 0..recovery_condition
    <3>1. quiet \in Nat /\ failed \in Nat /\ recovery_condition \in Nat /\ quiet <= recovery_condition
      BY <1>0, ConstantsAssumption DEF TypeOK
    <3>2. \/ quiet' = 0
          \/ quiet' = quiet
          \/ quiet + failed < recovery_condition /\ quiet' = quiet + 1
      BY <1>7 DEF ScanCount
    <3>3. failed' = 0 \/ failed' = failed
      BY <1>7 DEF ScanCount
    <3> QED
      BY <1>b, <3>1, <3>2, <3>3
  <2>3. scan' \in ScanState /\ recount' \in BOOLEAN
    BY <1>0, <1>7 DEF ScanCount, ScanState
  <2>4. UNCHANGED <<type, policy, manual, view, left, comp, heard, muted, late, stale>>
    BY <1>7 DEF ScanCount
  <2>5. TypeOK'
    BY <1>0, <2>1, <2>2, <2>3, <2>4 DEF TypeOK, ScanState
  <2> QED
    BY <1>3, <2>1, <2>5 DEF TypeInv
<1>8. CASE ScanRecover
  <2>1. Recovering \in SUBSET Id /\ "recovered" \in Ended /\ "recovered" \in Action
    BY <1>0 DEF Recovering, Ended, Action, ScanState
  <2>2. alerts' \in [Id -> Alert]
    BY <1>0, <1>8, <2>1, WritesTyped DEF ScanRecover
  <2>3. \A i \in Id : alerts'[i].retry = alerts[i].retry
    BY <1>0, <1>8 DEF ScanRecover, EndAs, Alert
  <2>4. Notify(Recovering, "recovered") \in Notice
    BY <2>1, NotifyTyped
  <2>5. scan' \in ScanState
    BY <1>0, <1>8, <2>4 DEF ScanRecover, ScanState
  <2> QED
    BY <1>0, <1>3, <1>8, <2>2, <2>3, <2>5 DEF ScanRecover, TypeInv, TypeOK, ScanState
<1>9. CASE ScanCreate
  <2>1. alerts' \in [Id -> Alert] /\ \A i \in Id : alerts'[i].retry = alerts[i].retry \/ alerts'[i].retry = 0
    <3>1. CASE UNCHANGED alerts
      BY <1>0, <3>1
    <3>2. ASSUME NEW new \in Free, alerts' = [alerts EXCEPT ![new] = [NoAlert EXCEPT !.status = "new"]]
          PROVE  alerts' \in [Id -> Alert] /\ \A i \in Id : alerts'[i].retry = alerts[i].retry \/ alerts'[i].retry = 0
      BY <1>0, <3>2, NoAlertTyped DEF Free, NoAlert
    <3> QED
      BY <1>9, <3>1, <3>2 DEF ScanCreate, _update_existing_alerts_from_events
  <2>2. scan' \in ScanState
    <3> DEFINE done == [scan EXCEPT !.pc = "end", !.seen = {}, !.event = "quiet"]
    <3>1. "quiet" \in Window("alert") \cup Window("no_data")
      BY DEF Window
    <3>2. done \in ScanState
      BY <1>0, <3>1 DEF ScanState
    <3>3. \E ids \in SUBSET Id, a \in Action :
             scan' = done \/ scan' = [done EXCEPT !.pc = "push", !.n = Notify(ids, a)]
      <4>1. Matching \in SUBSET Id /\ {} \in SUBSET Id /\ "upgraded" \in Action /\ "created" \in Action
        BY <1>0 DEF Matching, Action, ScanState
      <4>2. \A new \in Free : {new} \in SUBSET Id
        BY DEF Free
      <4> HIDE DEF done
      <4>3. CASE scan' = done
        BY <4>1, <4>3
      <4>4. CASE scan' # done
        BY <1>9, <4>1, <4>2, <4>4 DEF ScanCreate, done
      <4> QED
        BY <4>3, <4>4
    <3> HIDE DEF done
    <3>4. PICK ids \in SUBSET Id, a \in Action :
             scan' = done \/ scan' = [done EXCEPT !.pc = "push", !.n = Notify(ids, a)]
      BY <3>3
    <3>5. Notify(ids, a) \in Notice
      BY NotifyTyped
    <3> QED
      BY <3>2, <3>4, <3>5 DEF ScanState
  <2>3. UNCHANGED <<type, policy, recount, manual, view, left, comp, heard, quiet, failed, muted, late, stale>>
    BY <1>9 DEF ScanCreate
  <2>4. CountsOK'
    BY <1>3, <2>1
  <2>5. TypeOK'
    BY <1>0, <2>1, <2>2, <2>3 DEF TypeOK, ScanState
  <2> QED
    BY <2>4, <2>5 DEF TypeInv
<1>10. CASE ScanPush
  <2>1. PICK hit \in _should_notify_channel(scan.n.ids, scan.n.action, scan.notice) :
          \E ok \in Accepted(hit) :
            /\ Push(scan.n.action, ok)
            /\ scan' = [scan EXCEPT !.pc = "mark", !.n.hit = hit, !.n.ok = ok]
    BY <1>10 DEF ScanPush
  <2>2. PICK ok \in Accepted(hit) :
            /\ Push(scan.n.action, ok)
            /\ scan' = [scan EXCEPT !.pc = "mark", !.n.hit = hit, !.n.ok = ok]
    BY <2>1
  <2>3. hit \in SUBSET Id /\ ok \in SUBSET Id
    <3>1. scan.notice \in BOOLEAN
      BY <1>0 DEF ScanState
    <3>2. hit \in SUBSET scan.n.ids /\ ok \in SUBSET hit
      BY <1>1, <3>1, PushedTyped
    <3> QED
      BY <1>1, <3>2
  <2>4. heard' \in SUBSET Id
    BY <1>0, <2>2, <2>3 DEF Push, TypeOK
  <2>5. scan' \in ScanState
    <3>1. [scan.n EXCEPT !.hit = hit, !.ok = ok] \in Notice
      BY <1>0, <2>3 DEF ScanState, Notice
    <3>2. scan' = [scan EXCEPT !.pc = "mark", !.n = [scan.n EXCEPT !.hit = hit, !.ok = ok]]
      BY <1>0, <2>2 DEF ScanState, Notice
    <3> QED
      BY <1>0, <3>1, <3>2 DEF ScanState
  <2> QED
    BY <1>0, <1>4, <1>10, <2>4, <2>5 DEF ScanPush, TypeInv, TypeOK, ScanState
<1>11. CASE ScanMark
  <2>1. scan.n.hit \in SUBSET Id /\ scan.n.ok \in SUBSET Id
    BY <1>0 DEF ScanState, Notice
  <2>2. alerts' \in [Id -> Alert]
    BY <1>0, <1>1, <1>11, <2>1, WritesTyped DEF ScanMark
  <2>3. \A i \in Id : alerts'[i].retry = alerts[i].retry \/ alerts'[i].retry = 0
    BY <1>0, <1>1, <1>11, <2>1, MarkRow DEF ScanMark
  <2>4. late' \in SUBSET Id
    BY <1>0, <1>11, <2>1 DEF ScanMark, TypeOK
  <2>5. scan' \in ScanState
    BY <1>0, <1>11, IdleTyped DEF ScanMark, ScanState
  <2> QED
    BY <1>0, <1>3, <1>11, <2>2, <2>3, <2>4, <2>5 DEF ScanMark, TypeInv, TypeOK, ScanState
<1>12. CASE ScanEnds
  <2>1. [ScanIdle EXCEPT !.pc = "detect", !.notice = scan.notice] \in ScanState
    BY <1>0, IdleTyped DEF ScanState
  <2> QED
    BY <1>12, <1>a, <1>b, <2>1, IdleTyped DEF ScanEnds
<1>13. CASE ScanFails
  <2>1. failed' \in 0..recovery_condition
    <3>1. quiet \in Nat /\ failed \in Nat /\ recovery_condition \in Nat
      BY <1>0, ConstantsAssumption DEF TypeOK
    <3>2. failed' = failed \/ (failed' = failed + 1 /\ ~(quiet + failed >= recovery_condition))
      BY <1>13 DEF ScanFails
    <3> QED
      BY <1>b, <3>1, <3>2
  <2> QED
    BY <1>13, <1>a, <1>b, <2>1, IdleTyped DEF ScanFails
<1>14. CASE ScanKilled
  <2>1. [ScanIdle EXCEPT !.pc = "lost"] \in ScanState
    BY IdleTyped DEF ScanState
  <2> QED
    BY <1>14, <1>a, <1>b, <2>1 DEF ScanKilled
<1> QED
  BY <1>5, <1>6, <1>7, <1>8, <1>9, <1>10, <1>11, <1>12, <1>13, <1>14 DEF ScanStep

\* A step that takes a new request may keep a copy of a row.
LEMMA RetryMore ==
    ASSUME TypeInv, UNCHANGED <<alerts, comp>>, left > 0, left' = left - 1,
           manual'.pc = "save" =>
               (manual.pc = "save" /\ manual'.copy = manual.copy) \/ \E i \in Id : manual'.copy = alerts[i],
           manual'.pc # "idle" => manual'.id \in Id
    PROVE  CountsOK' /\ left' \in 0..MaxRequests
<1>1. left \in 0..MaxRequests /\ left' \in 0..MaxRequests
  BY ConstantsAssumption DEF TypeInv, TypeOK
<1>2. Reach' = Reach + 1 /\ Reach \in Nat
  BY <1>1, ReachTyped, ConstantsAssumption DEF Reach
<1>3. /\ \A i \in Id : alerts[i].retry \in Nat
      /\ manual.copy.retry \in Nat
      /\ comp.ids \in SUBSET Id
  BY RetryIsNumber DEF TypeInv, TypeOK
<1>4. \A i \in Id : alerts[i].retry <= Reach /\ alerts[i].retry <= Reach + 1
  BY <1>2, <1>3 DEF TypeInv, CountsOK
<1>5. \A i \in comp.ids : alerts[i].retry + 1 <= Reach + 1
  BY <1>2, <1>3, <1>4
<1>6. manual'.pc = "save" => manual'.copy.retry + 1 <= Reach + 1
  <2>1. CASE manual.pc = "save" /\ manual'.copy = manual.copy
    BY <1>2, <1>3, <2>1 DEF TypeInv, CountsOK
  <2>2. CASE \E i \in Id : manual'.copy = alerts[i]
    BY <1>2, <1>3, <1>4, <2>2
  <2> QED
    BY <2>1, <2>2
<1> QED
  BY <1>1, <1>2, <1>4, <1>5, <1>6 DEF CountsOK

\* What the serializer makes of a copy is a row with the copy's count.
LEMMA EditedRow ==
    ASSUME manual \in ManualState
    PROVE  /\ Edited(manual.copy) \in Alert
           /\ Edited(manual.copy).retry = manual.copy.retry
           /\ manual.closes => Edited(manual.copy).status = "closed"
           /\ manual.closes /\ Edited(manual.copy).notified => manual.copy.notified /\ manual.copy.status # "new"
           /\ ~manual.closes => Edited(manual.copy) = manual.copy
<1>1. manual.copy \in Alert /\ manual.closes \in BOOLEAN
  BY DEF ManualState
<1>2. CASE manual.closes
  <2>1. Edited(manual.copy) =
          [manual.copy EXCEPT !.status = "closed", !.notified = @ /\ manual.copy.status # "new"]
    BY <1>2 DEF Edited
  <2> QED
    BY <1>1, <1>2, <2>1 DEF Alert, Ended
<1>3. CASE ~manual.closes
  <2>1. Edited(manual.copy) = manual.copy
    BY <1>3 DEF Edited
  <2> QED
    BY <1>1, <1>3, <2>1
<1> QED
  BY <1>2, <1>3

\* The steps of a request of an operator (MonitorAlertViewSet.update).
LEMMA ManualTyped ==
    ASSUME TypeInv, ManualRead \/ ManualStep \/ ManualKilled
    PROVE  TypeInv'
<1>0. /\ TypeOK
      /\ alerts \in [Id -> Alert]
      /\ manual \in ManualState
      /\ policy.notice \in BOOLEAN
  BY DEF TypeInv, TypeOK, ManualState
<1>1. manual.id \in Id \cup {0} /\ manual.copy \in Alert /\ manual.n.ids \in SUBSET Id
      /\ manual.n.hit \in SUBSET Id /\ manual.n.ok \in SUBSET Id
  BY <1>0 DEF ManualState, Notice
<1>2. UNCHANGED <<type, policy, scan, recount, view, comp, quiet, failed, muted, late>>
  BY DEF ManualRead, ManualStep, ManualKilled, ManualSave, ManualPush, ManualMark
<1>3. ASSUME alerts' \in [Id -> Alert], manual' \in ManualState, heard' \in SUBSET Id,
             left' \in 0..MaxRequests, CountsOK', stale' \in SUBSET Id
      PROVE  TypeInv'
  BY <1>0, <1>2, <1>3 DEF TypeInv, TypeOK, ManualState
<1>a. stale' = stale \/ (ManualSave /\ stale' = stale \cup {manual.id})
  BY DEF ManualRead, ManualStep, ManualKilled, ManualSave, ManualPush, ManualMark
<1>b. stale' \in SUBSET Id
  <2>1. ManualSave => manual.id \in Id
    BY DEF ManualSave, TypeInv, CountsOK
  <2> QED
    BY <1>0, <1>a, <2>1 DEF TypeOK
<1>4. CASE ManualRead
  <2>1. PICK i \in Id \ Free, closes \in BOOLEAN :
          manual' = [ManualIdle EXCEPT !.pc = "save", !.closes = closes, !.id = i, !.copy = alerts[i]]
    BY <1>4 DEF ManualRead
  <2>2. manual' \in ManualState /\ manual'.copy = alerts[i] /\ manual'.id \in Id
    BY <1>0, <2>1, IdleTyped DEF ManualState
  <2>3. CountsOK' /\ left' \in 0..MaxRequests
    BY <1>2, <1>4, <2>2, RetryMore DEF ManualRead
  <2> QED
    BY <1>0, <1>3, <1>b, <1>4, <2>2, <2>3 DEF ManualRead, TypeOK
<1>5. CASE ManualSave
  <2> DEFINE saved == Edited(manual.copy)
  <2>1. saved \in Alert /\ saved.retry = manual.copy.retry
    BY <1>0, EditedRow
  <2>2. manual' \in ManualState /\ manual'.pc # "save" /\ (manual'.pc # "idle" => manual'.id = manual.id)
    <3>1. [ManualIdle EXCEPT !.pc = "push", !.id = manual.id] \in ManualState
      BY <1>1, IdleTyped DEF ManualState
    <3> QED
      BY <1>5, <3>1, IdleTyped DEF ManualSave, ManualState, ManualIdle
  <2>3. alerts' = [alerts EXCEPT ![manual.id] = saved]
    BY <1>5 DEF ManualSave
  <2> HIDE DEF saved
  <2>4. alerts' \in [Id -> Alert]
    BY <1>0, <2>1, <2>3
  <2>5. manual.copy.retry \in Nat /\ Reach \in Nat /\ comp.ids \in SUBSET Id
    BY <1>0, <1>1, RetryIsNumber, ReachTyped DEF TypeOK
  <2>6. manual.copy.retry + 1 <= Reach
    BY <1>5 DEF ManualSave, TypeInv, CountsOK
  <2>7. \A i \in Id : alerts'[i] = alerts[i] \/ alerts'[i].retry = manual.copy.retry
    BY <1>0, <2>1, <2>3
  <2>8. UNCHANGED <<left, comp>> /\ Reach' = Reach /\ manual.id \in Id
    BY <1>5 DEF ManualSave, Reach, TypeInv, CountsOK
  <2>9. CountsOK'
    BY <2>2, <2>5, <2>6, <2>7, <2>8 DEF TypeInv, CountsOK
  <2>10. heard' = heard /\ left' = left
    BY <1>5 DEF ManualSave
  <2> QED
    BY <1>0, <1>3, <1>b, <2>2, <2>4, <2>9, <2>10 DEF TypeOK
<1>6. CASE ManualPush
  <2>1. UNCHANGED <<alerts, left, comp>>
    BY <1>6 DEF ManualPush
  <2>2. heard' \in SUBSET Id /\ manual' \in ManualState /\ manual'.pc # "save"
        /\ (manual'.pc # "idle" => manual'.id \in Id)
    <3>1. CASE alerts[manual.id].status # "closed"
      <4>1. manual' = ManualIdle /\ heard' = heard
        BY <1>6, <3>1 DEF ManualPush
      <4>2. ManualIdle.pc = "idle"
        BY DEF ManualIdle
      <4> QED
        BY <1>0, <4>1, <4>2, IdleTyped DEF TypeOK
    <3>2. CASE alerts[manual.id].status = "closed"
      <4>1. PICK hit \in _should_notify_channel({manual.id}, "closed", policy.notice) :
              \E ok \in Accepted(hit) :
                /\ Push("closed", ok)
                /\ manual' = [manual EXCEPT !.pc = "mark",
                                            !.n = [Notify({manual.id}, "closed") EXCEPT !.hit = hit, !.ok = ok]]
        BY <1>6, <3>2 DEF ManualPush
      <4>2. PICK ok \in Accepted(hit) :
                /\ Push("closed", ok)
                /\ manual' = [manual EXCEPT !.pc = "mark",
                                            !.n = [Notify({manual.id}, "closed") EXCEPT !.hit = hit, !.ok = ok]]
        BY <4>1
      <4>3. manual.id \in Id
        BY <1>6 DEF ManualPush, TypeInv, CountsOK
      <4>4. {manual.id} \in SUBSET Id /\ "closed" \in Action
        BY <4>3 DEF Action
      <4>5. hit \in SUBSET Id /\ ok \in SUBSET Id
        <5>1. hit \in SUBSET {manual.id} /\ ok \in SUBSET hit
          BY <1>0, <4>4, PushedTyped
        <5> QED
          BY <4>4, <5>1
      <4>6. [Notify({manual.id}, "closed") EXCEPT !.hit = hit, !.ok = ok] \in Notice
        BY <4>4, <4>5 DEF Notify, Notice
      <4> QED
        BY <1>0, <4>2, <4>3, <4>5, <4>6 DEF ManualState, Push, TypeOK
    <3> QED
      BY <3>1, <3>2
  <2>3. CountsOK'
    BY <1>0, <2>1, <2>2, RetryKept
  <2> QED
    BY <1>0, <1>3, <1>b, <2>1, <2>2, <2>3 DEF TypeOK
<1>7. CASE ManualMark
  <2>1. /\ alerts' = Mark(manual.n.ids, manual.n.hit, manual.n.ok)
        /\ manual' = ManualIdle
        /\ UNCHANGED <<left, comp, heard>>
    BY <1>7 DEF ManualMark
  <2>2. alerts' \in [Id -> Alert] /\ \A i \in Id : alerts'[i].retry = alerts[i].retry \/ alerts'[i].retry = 0
    <3>1. alerts' \in [Id -> Alert]
      BY <1>0, <1>1, <2>1, WritesTyped
    <3>2. \A i \in Id : alerts'[i].retry = alerts[i].retry \/ alerts'[i].retry = 0
      BY <1>0, <1>1, <2>1, MarkRow
    <3> QED
      BY <3>1, <3>2
  <2>3. manual' \in ManualState /\ manual'.pc = "idle"
    BY <2>1, IdleTyped DEF ManualIdle
  <2>4. CountsOK'
    BY <2>1, <2>2, <2>3, RetryKept
  <2> QED
    BY <1>0, <1>3, <1>b, <2>1, <2>2, <2>3, <2>4 DEF TypeOK
<1>8. CASE ManualKilled
  <2>1. manual' = ManualIdle /\ UNCHANGED <<alerts, left, comp, heard>>
    BY <1>8 DEF ManualKilled
  <2>2. manual' \in ManualState /\ manual'.pc = "idle"
    BY <2>1, IdleTyped DEF ManualIdle
  <2>3. CountsOK'
    BY <1>0, <2>1, <2>2, RetryKept
  <2> QED
    BY <1>0, <1>3, <1>b, <2>1, <2>2, <2>3 DEF TypeOK
<1> QED
  BY <1>4, <1>5, <1>6, <1>7, <1>8 DEF ManualStep

\* The end of the transaction that closes alerts: committed, or rolled back.
Closing(hit, ok) ==
    \/ /\ policy' = [policy EXCEPT !.enable = view.enable]
       /\ alerts' = [i \in Id |->
                       IF i \in view.ids
                       THEN [alerts[i] EXCEPT !.status = "closed",
                                              !.notified = i \in ok \/ i \notin hit,
                                              !.retry = IF i \in ok THEN 0 ELSE @]
                       ELSE alerts[i]]
    \/ /\ "crash" \in Faults
       /\ UNCHANGED <<policy, alerts>>

LEMMA ClosingRows ==
    ASSUME alerts \in [Id -> Alert], view \in ViewState,
           policy \in [enable : BOOLEAN, notice : BOOLEAN],
           NEW hit, NEW ok, Closing(hit, ok)
    PROVE  /\ policy' \in [enable : BOOLEAN, notice : BOOLEAN]
           /\ policy'.notice = policy.notice
           /\ alerts' \in [Id -> Alert]
           /\ \A i \in Id :
                 \/ alerts'[i] = alerts[i]
                 \/ /\ i \in view.ids
                    /\ alerts'[i].status = "closed"
                    /\ alerts'[i].info = alerts[i].info
                    /\ alerts'[i].notified = (i \in ok \/ i \notin hit)
                    /\ alerts'[i].retry = alerts[i].retry \/ alerts'[i].retry = 0
<1>1. CASE UNCHANGED <<policy, alerts>>
  BY <1>1
<1>2. CASE /\ policy' = [policy EXCEPT !.enable = view.enable]
           /\ alerts' = [i \in Id |->
                           IF i \in view.ids
                           THEN [alerts[i] EXCEPT !.status = "closed",
                                                  !.notified = i \in ok \/ i \notin hit,
                                                  !.retry = IF i \in ok THEN 0 ELSE @]
                           ELSE alerts[i]]
  <2>1. policy' \in [enable : BOOLEAN, notice : BOOLEAN] /\ policy'.notice = policy.notice
    BY <1>2 DEF ViewState
  <2> DEFINE row(i) == [alerts[i] EXCEPT !.status = "closed",
                                         !.notified = i \in ok \/ i \notin hit,
                                         !.retry = IF i \in ok THEN 0 ELSE @]
  <2>2. ASSUME NEW i \in Id
        PROVE  /\ row(i) \in Alert
               /\ row(i).status = "closed"
               /\ row(i).info = alerts[i].info
               /\ row(i).notified = (i \in ok \/ i \notin hit)
               /\ row(i).retry = alerts[i].retry \/ row(i).retry = 0
    <3>1. 0 \in 0..(MaxRetry + MaxRequests) /\ "closed" \in Ended
      BY ConstantsAssumption DEF Ended
    <3>2. (i \in ok \/ i \notin hit) \in BOOLEAN
      OBVIOUS
    <3> QED
      BY <3>1, <3>2 DEF Alert
  <2>3. \A i \in Id : alerts'[i] = IF i \in view.ids THEN row(i) ELSE alerts[i]
    BY <1>2
  <2>4. alerts' = [i \in Id |-> alerts'[i]]
    BY <1>2
  <2> HIDE DEF row
  <2>5. alerts' \in [Id -> Alert]
    BY <2>2, <2>3, <2>4
  <2> QED
    BY <2>1, <2>2, <2>3, <2>5
<1> QED
  BY <1>1, <1>2 DEF Closing

\* The edits of the policy (MonitorPolicyViewSet.update and partial_update).
LEMMA ViewTyped ==
    ASSUME TypeInv, EditPolicy \/ ViewReads \/ ViewCommits
    PROVE  TypeInv'
<1>0. /\ TypeOK
      /\ alerts \in [Id -> Alert]
      /\ view \in ViewState
      /\ policy \in [enable : BOOLEAN, notice : BOOLEAN]
  BY DEF TypeInv, TypeOK, ViewState
<1>1. UNCHANGED <<type, scan, recount, manual, comp, quiet, failed, late, stale>>
  BY DEF EditPolicy, ViewReads, ViewCommits
<1>2. ASSUME alerts' \in [Id -> Alert], policy' \in [enable : BOOLEAN, notice : BOOLEAN],
             view' \in ViewState, heard' \in SUBSET Id, muted' \in BOOLEAN,
             left' \in 0..MaxRequests, CountsOK'
      PROVE  TypeInv'
  BY <1>0, <1>1, <1>2 DEF TypeInv, TypeOK, ViewState
<1>3. manual'.pc # "idle" => manual'.id \in Id
  BY <1>1 DEF TypeInv, CountsOK
<1>4. CASE EditPolicy
  <2>1. UNCHANGED <<alerts, comp, manual, view, heard>> /\ left > 0 /\ left' = left - 1
    BY <1>4 DEF EditPolicy
  <2>2. CountsOK' /\ left' \in 0..MaxRequests
    BY <1>3, <2>1, RetryMore
  <2>3. policy' \in [enable : BOOLEAN, notice : BOOLEAN]
    <3>1. policy.enable \in BOOLEAN
      BY <1>0
    <3>2. PICK enable \in {policy.enable, TRUE}, notice \in BOOLEAN :
            policy' = [enable |-> enable, notice |-> notice]
      BY <1>4 DEF EditPolicy
    <3>3. enable \in BOOLEAN
      BY <3>1, <3>2, Zenon
    <3> QED
      BY <3>2, <3>3
  <2>4. muted' \in BOOLEAN
    BY <1>4 DEF EditPolicy
  <2> QED
    BY <1>0, <1>2, <2>1, <2>2, <2>3, <2>4 DEF TypeOK
<1>5. CASE ViewReads
  <2>1. UNCHANGED <<alerts, comp, manual, heard, policy, muted>> /\ left > 0 /\ left' = left - 1
    BY <1>5 DEF ViewReads
  <2>2. CountsOK' /\ left' \in 0..MaxRequests
    BY <1>3, <2>1, RetryMore
  <2>3. view' \in ViewState
    <3>1. policy.enable \in BOOLEAN /\ Active \in SUBSET Id
      BY <1>0 DEF Active
    <3>2. PICK enable \in {policy.enable, FALSE} :
            view' = [pc |-> "commit", enable |-> enable, ids |-> Active]
      BY <1>5 DEF ViewReads
    <3>3. enable \in BOOLEAN
      BY <3>1, <3>2, Zenon
    <3> QED
      BY <3>1, <3>2, <3>3 DEF ViewState
  <2> QED
    BY <1>0, <1>2, <2>1, <2>2, <2>3 DEF TypeOK
<1>6. CASE ViewCommits
  <2>1. view' = ViewIdle /\ UNCHANGED <<left, comp, manual, muted>>
    BY <1>6 DEF ViewCommits
  <2>2. PICK hit \in _should_notify_channel(view.ids, "closed", policy.notice) :
          \E ok \in Accepted(hit) : Push("closed", ok) /\ Closing(hit, ok)
    BY <1>6 DEF ViewCommits, Closing
  <2>3. PICK ok \in Accepted(hit) : Push("closed", ok) /\ Closing(hit, ok)
    BY <2>2
  <2>4. hit \in SUBSET view.ids /\ ok \in SUBSET hit
    <3>1. view.ids \in SUBSET Id /\ "closed" \in Action /\ policy.notice \in BOOLEAN
      BY <1>0 DEF ViewState, Action
    <3> QED
      BY <3>1, PushedTyped
  <2>5. heard' \in SUBSET Id
    BY <1>0, <2>3, <2>4 DEF Push, ViewState, TypeOK
  <2>6. /\ policy' \in [enable : BOOLEAN, notice : BOOLEAN]
        /\ alerts' \in [Id -> Alert]
        /\ \A i \in Id : alerts'[i].retry = alerts[i].retry \/ alerts'[i].retry = 0
    BY <1>0, <2>3, ClosingRows DEF ViewState
  <2>7. CountsOK'
    BY <1>3, <2>1, <2>6, RetryKept
  <2> QED
    BY <1>0, <1>2, <2>1, <2>5, <2>6, <2>7, IdleTyped DEF TypeOK
<1> QED
  BY <1>4, <1>5, <1>6

\* The steps of the compensation task.
LEMMA CompTyped ==
    ASSUME TypeInv, CompStep \/ CompKilled
    PROVE  TypeInv'
<1>0. /\ TypeOK
      /\ alerts \in [Id -> Alert]
      /\ comp \in CompState
      /\ comp.ids \in SUBSET Id
      /\ heard \in SUBSET Id
  BY DEF TypeInv, TypeOK, CompState
<1>1. UNCHANGED <<type, policy, scan, recount, manual, view, left, quiet, failed, muted, late, stale>>
  BY DEF CompStep, CompReads, CompPush, CompMark, CompKilled
<1>2. ASSUME alerts' \in [Id -> Alert], comp' \in CompState, heard' \in SUBSET Id, CountsOK'
      PROVE  TypeInv'
  BY <1>0, <1>1, <1>2 DEF TypeInv, TypeOK, CompState
<1>3. /\ manual'.pc = "save" => manual.pc = "save" /\ manual'.copy = manual.copy
      /\ manual'.pc # "idle" => manual'.id \in Id
  BY <1>1 DEF TypeInv, CountsOK
<1>4. CASE CompReads
  <2>1. comp' = [pc |-> "push", ids |-> ToRetry, ok |-> {}] /\ UNCHANGED <<alerts, heard>>
    BY <1>4 DEF CompReads
  <2>2. ToRetry \in SUBSET Id
    BY DEF ToRetry
  <2>3. comp' \in CompState /\ comp'.ids = ToRetry
    BY <2>1, <2>2 DEF CompState
  <2>4. Reach' = Reach /\ Reach \in Nat /\ MaxRetry <= Reach
    BY <1>0, <1>1, ReachTyped DEF Reach, TypeOK
  <2>5. \A i \in ToRetry : alerts[i].retry + 1 <= Reach
    BY <1>0, <2>4, RetryIsNumber, ConstantsAssumption DEF ToRetry
  <2>6. CountsOK'
    BY <1>1, <2>1, <2>3, <2>4, <2>5 DEF TypeInv, CountsOK
  <2> QED
    BY <1>0, <1>2, <2>1, <2>3, <2>6
<1>5. CASE CompPush
  <2>1. UNCHANGED alerts
    BY <1>5 DEF CompPush
  <2>2. PICK ok \in Accepted(comp.ids) : comp' = [comp EXCEPT !.pc = "mark", !.ok = ok] /\ Push("closed", ok)
    BY <1>5 DEF CompPush
  <2>3. ok \in SUBSET Id
    BY <1>0 DEF Accepted
  <2>4. comp' \in CompState /\ comp'.ids = comp.ids
    BY <1>0, <2>2, <2>3 DEF CompState
  <2>5. heard' \in SUBSET Id
    BY <1>0, <2>2, <2>3 DEF Push
  <2>6. CountsOK'
    BY <1>0, <1>1, <1>3, <2>1, <2>4, RetryKept
  <2> QED
    BY <1>0, <1>2, <2>1, <2>4, <2>5, <2>6
<1>6. CASE CompMark
  <2>1. comp' = CompIdle /\ comp'.ids = {} /\ UNCHANGED heard
    BY <1>6 DEF CompMark, CompIdle
  <2>2. Reach' = Reach /\ Reach \in Nat /\ Reach <= MaxRetry + MaxRequests
    BY <1>0, <1>1, ReachTyped DEF Reach, TypeOK
  <2>3. ASSUME NEW i \in Id
        PROVE  alerts'[i] \in Alert /\ alerts'[i].retry <= Reach
    <3>1. alerts[i] \in Alert /\ alerts[i].retry \in Nat /\ alerts[i].retry <= Reach
      BY <1>0, RetryIsNumber DEF TypeInv, CountsOK
    <3>2. CASE i \in comp.ok
      <4>1. alerts'[i] = [alerts[i] EXCEPT !.notified = TRUE, !.retry = 0]
        BY <1>6, <3>2 DEF CompMark
      <4>2. 0 \in 0..(MaxRetry + MaxRequests)
        BY ConstantsAssumption
      <4>3. alerts'[i] \in Alert
        BY <3>1, <4>1, <4>2 DEF Alert
      <4>4. alerts'[i].retry = 0
        BY <3>1, <4>1 DEF Alert
      <4> QED
        BY <2>2, <4>3, <4>4
    <3>3. CASE i \in comp.ids \ comp.ok
      <4>1. alerts'[i] = [alerts[i] EXCEPT !.retry = alerts[i].retry + 1]
        BY <1>6, <3>3 DEF CompMark
      <4>2. alerts[i].retry + 1 <= Reach
        BY <3>3 DEF TypeInv, CountsOK
      <4>3. alerts[i].retry + 1 \in 0..(MaxRetry + MaxRequests)
        BY <2>2, <3>1, <4>2, ConstantsAssumption
      <4> QED
        BY <3>1, <4>1, <4>2, <4>3 DEF Alert
    <3>4. CASE i \notin comp.ok /\ i \notin comp.ids
      <4>1. alerts'[i] = alerts[i]
        BY <1>6, <3>4 DEF CompMark
      <4> QED
        BY <3>1, <4>1
    <3> QED
      BY <3>2, <3>3, <3>4
  <2>4. alerts' \in [Id -> Alert]
    <3>1. alerts' = [i \in Id |-> alerts'[i]]
      BY <1>6 DEF CompMark
    <3> QED
      BY <2>3, <3>1
  <2>5. CountsOK'
    BY <1>1, <1>3, <2>1, <2>2, <2>3 DEF TypeInv, CountsOK
  <2> QED
    BY <1>0, <1>2, <2>1, <2>4, <2>5, IdleTyped
<1>7. CASE CompKilled
  <2>1. comp' = [CompIdle EXCEPT !.pc = "lost"] /\ UNCHANGED <<alerts, heard>>
    BY <1>7 DEF CompKilled
  <2>2. comp' \in CompState /\ comp'.ids = {}
    BY <2>1, IdleTyped DEF CompState, CompIdle
  <2>3. CountsOK'
    BY <1>0, <1>1, <1>3, <2>1, <2>2, RetryKept
  <2> QED
    BY <1>0, <1>2, <2>1, <2>2, <2>3
<1> QED
  BY <1>4, <1>5, <1>6, <1>7 DEF CompStep

LEMMA NextTyped == TypeInv /\ [Next]_vars => TypeInv'
<1> SUFFICES ASSUME TypeInv, [Next]_vars PROVE TypeInv'
  OBVIOUS
<1>1. CASE UNCHANGED vars
  BY <1>1 DEF vars, TypeInv, TypeOK, CountsOK, Reach
<1> QED
  BY <1>1, ScanTyped, ManualTyped, ViewTyped, CompTyped DEF Next

\* Every variable keeps its type whatever the actors do; in particular
\* alert_center_retry_count exceeds the limit the compensation task checks by at
\* most one for each request that may have saved a stale copy of it.
THEOREM TypeCorrect == Spec => []TypeOK
<1>1. TypeInv => TypeOK
  BY DEF TypeInv
<1> QED
  BY InitTyped, NextTyped, <1>1, PTL DEF Spec

-----------------------------------------------------------------------------
(* What a step may do to the status and to the count of a row              *)

LEMMA RowStep ==
    ASSUME TypeInv, [Next]_vars, NEW i \in Id
    PROVE  \/ alerts'[i].status = alerts[i].status /\ alerts'[i].info = alerts[i].info
           \/ ScanCreate /\ i \in Free /\ alerts'[i].status = "new" /\ alerts'[i].info = 0
           \/ alerts'[i].status = "closed"
           \/ ScanRecover /\ i \in Recovering /\ alerts'[i].status = "recovered"
           \/ ScanCount /\ alerts'[i].status = alerts[i].status
           \/ /\ ManualSave /\ ~manual.closes /\ manual.id = i
              /\ alerts'[i] = manual.copy
              /\ i \in stale'
<1>0. /\ alerts \in [Id -> Alert]
      /\ alerts[i] \in Alert
      /\ scan \in ScanState
      /\ manual \in ManualState
      /\ view \in ViewState
      /\ policy \in [enable : BOOLEAN, notice : BOOLEAN]
  BY DEF TypeInv, TypeOK, ScanState, ManualState, ViewState
<1>1. CASE UNCHANGED alerts
  BY <1>1
<1>2. CASE ScanCount
  <2>1. alerts'[i] = alerts[i] \/ alerts'[i] = Counted(i, scan.event)
    BY <1>2 DEF ScanCount
  <2>2. Counted(i, scan.event).status = alerts[i].status
    BY <1>0 DEF Counted, Alert
  <2> QED
    BY <1>2, <2>1, <2>2
<1>3. CASE ScanRecover
  <2>1. CASE i \in Recovering
    <3>1. alerts'[i] = [alerts[i] EXCEPT !.status = "recovered", !.notified = FALSE]
      BY <1>3, <2>1 DEF ScanRecover, EndAs
    <3>2. alerts'[i].status = "recovered"
      BY <1>0, <3>1 DEF Alert
    <3> QED
      BY <1>3, <2>1, <3>2
  <2>2. CASE i \notin Recovering
    <3>1. alerts'[i] = alerts[i]
      BY <1>3, <2>2 DEF ScanRecover, EndAs
    <3> QED
      BY <3>1
  <2> QED
    BY <2>1, <2>2
<1>4. CASE ScanCreate
  <2>1. CASE UNCHANGED alerts
    BY <2>1
  <2>2. ASSUME NEW new \in Free, alerts' = [alerts EXCEPT ![new] = [NoAlert EXCEPT !.status = "new"]]
        PROVE  \/ alerts'[i] = alerts[i]
               \/ i \in Free /\ alerts'[i].status = "new" /\ alerts'[i].info = 0
    BY <1>0, <2>2 DEF Free, NoAlert
  <2>3. \/ UNCHANGED alerts
        \/ \E new \in Free : alerts' = [alerts EXCEPT ![new] = [NoAlert EXCEPT !.status = "new"]]
    BY <1>4 DEF ScanCreate, _update_existing_alerts_from_events
  <2> QED
    BY <1>4, <2>1, <2>2, <2>3
<1>5. CASE ScanMark
  <2>1. alerts' = Mark(scan.n.ids, scan.n.hit, scan.n.ok)
    BY <1>5 DEF ScanMark
  <2>2. scan.n.ids \in SUBSET Id /\ scan.n.hit \in SUBSET Id /\ scan.n.ok \in SUBSET Id
    BY <1>0 DEF ScanState, Notice
  <2> QED
    BY <1>0, <2>1, <2>2, MarkRow
<1>6. CASE ManualSave
  <2> DEFINE saved == Edited(manual.copy)
  <2>1. alerts' = [alerts EXCEPT ![manual.id] = saved]
    BY <1>6 DEF ManualSave
  <2>2. /\ manual.closes => saved.status = "closed"
        /\ ~manual.closes => saved = manual.copy
    BY <1>0, EditedRow
  <2> HIDE DEF saved
  <2>3. alerts'[i] = IF i = manual.id THEN saved ELSE alerts[i]
    BY <1>0, <2>1
  <2>4. CASE i # manual.id
    BY <2>3, <2>4
  <2>5. CASE i = manual.id /\ manual.closes
    BY <2>2, <2>3, <2>5
  <2>6. CASE i = manual.id /\ ~manual.closes
    <3>1. alerts'[i] = manual.copy
      BY <2>2, <2>3, <2>6
    <3>2. i \in stale' \/ (manual.copy.status = alerts[i].status /\ manual.copy.info = alerts[i].info)
      BY <1>6, <2>6 DEF ManualSave
    <3> QED
      BY <1>6, <2>6, <3>1, <3>2
  <2> QED
    BY <2>4, <2>5, <2>6
<1>7. CASE ManualMark
  <2>1. alerts' = Mark(manual.n.ids, manual.n.hit, manual.n.ok)
    BY <1>7 DEF ManualMark
  <2>2. manual.n.ids \in SUBSET Id /\ manual.n.hit \in SUBSET Id /\ manual.n.ok \in SUBSET Id
    BY <1>0 DEF ManualState, Notice
  <2> QED
    BY <1>0, <2>1, <2>2, MarkRow
<1>8. CASE ViewCommits
  <2>1. \E hit, ok : Closing(hit, ok)
    <3>1. \E hit \in _should_notify_channel(view.ids, "closed", policy.notice) :
            \E ok \in Accepted(hit) : Push("closed", ok) /\ Closing(hit, ok)
      BY <1>8 DEF ViewCommits, Closing
    <3> QED
      BY <3>1
  <2> QED
    BY <1>0, <2>1, ClosingRows
<1>9. CASE CompMark
  <2>1. \/ alerts'[i] = [alerts[i] EXCEPT !.notified = TRUE, !.retry = 0]
        \/ alerts'[i] = [alerts[i] EXCEPT !.retry = alerts[i].retry + 1]
        \/ alerts'[i] = alerts[i]
    BY <1>9 DEF CompMark
  <2> QED
    BY <1>0, <2>1 DEF Alert
<1>10. \/ UNCHANGED alerts \/ ScanCount \/ ScanRecover \/ ScanCreate \/ ScanMark
       \/ ManualSave \/ ManualMark \/ ViewCommits \/ CompMark
  BY DEF Next, vars, ScanStart, ScanStep, ScanDetect, ScanPush, ScanEnds, ScanFails, ScanKilled, ManualRead,
         ManualStep, ManualPush, ManualKilled, EditPolicy, ViewReads, CompStep, CompReads, CompPush, CompKilled
<1> QED
  BY <1>1, <1>2, <1>3, <1>4, <1>5, <1>6, <1>7, <1>8, <1>9, <1>10

-----------------------------------------------------------------------------
(* One active alert, and its recovery.  Between the reads of a scan and its *)
(* create, the copy it works from holds every active alert no outdated copy *)
(* was saved over: others may end alerts meanwhile, but only the scan      *)
(* creates one.                                                            *)

Working ==
    \/ scan.pc \in {"count", "recover", "create"}
    \/ scan.pc \in {"push", "mark"} /\ scan.n.action = "recovered"

\* The alerts no outdated copy was saved over.
Sound == Active \ stale

OneInv ==
    /\ Working => Sound \subseteq scan.seen
    /\ \A i, j \in Sound : i = j

\* The window the next scan, or the one that has not counted yet, may see again:
\* the scan that counted it first has failed, and failed holds it.
Replay == IF recount /\ scan.pc \in {"idle", "detect", "count"} THEN 1 ELSE 0

\* The count of an active alert never exceeds the quiet windows in a row and the
\* failed scans among them; while a window may be replayed, not even its
\* predecessor.
QuietInv ==
    /\ scan.again => recount
    /\ type = "alert" =>
         \A i \in Sound : \/ quiet + failed >= recovery_condition
                          \/ alerts[i].info + Replay <= quiet + failed

\* A request that read an ended alert still finds it ended.
CopyInv ==
    manual.pc = "save" /\ manual.copy.status \in Ended =>
        manual.id \in stale \/ alerts[manual.id].status \in Ended

AlertInv == TypeInv /\ OneInv /\ QuietInv /\ CopyInv

LEMMA InitOne == Init => AlertInv
<1> SUFFICES ASSUME Init PROVE AlertInv
  OBVIOUS
<1>1. Sound = {}
  BY DEF Init, Sound, Active, NoAlert
<1>2. scan.pc = "idle" /\ scan.again = FALSE /\ manual.pc = "idle"
  BY DEF Init, ScanIdle, ManualIdle
<1> QED
  BY <1>1, <1>2, InitTyped DEF AlertInv, OneInv, QuietInv, CopyInv, Working

LEMMA StaleGrows ==
    ASSUME [Next]_vars
    PROVE  stale \subseteq stale'
BY DEF Next, vars, ScanStart, ScanStep, ScanDetect, ScanCount, ScanRecover, ScanCreate, ScanPush, ScanMark,
         ScanEnds, ScanFails, ScanKilled, ManualRead, ManualStep, ManualSave, ManualPush, ManualMark, ManualKilled,
         EditPolicy, ViewReads, ViewCommits, CompStep, CompReads, CompPush, CompMark, CompKilled

\* Only ScanCreate makes an alert active, and the save of an outdated copy.
LEMMA ActiveShrinks ==
    ASSUME TypeInv, [Next]_vars, ~ScanCreate
    PROVE  Sound' \subseteq Sound
<1>1. ASSUME NEW i \in Id, alerts'[i].status = "new", i \notin stale' PROVE alerts[i].status = "new"
  BY <1>1, RowStep
<1> QED
  BY <1>1, StaleGrows DEF Sound, Active

LEMMA NextOne == AlertInv /\ [Next]_vars => OneInv'
<1> SUFFICES ASSUME AlertInv, [Next]_vars PROVE OneInv'
  OBVIOUS
<1>0. TypeInv /\ OneInv /\ scan \in ScanState
  BY DEF AlertInv, TypeInv, TypeOK, ScanState
<1>1. CASE ~ScanCreate
  <2>1. Sound' \subseteq Sound
    BY <1>0, <1>1, ActiveShrinks
  <2>2. \A i, j \in Sound' : i = j
    BY <1>0, <2>1 DEF OneInv
  <2>3. (Working' => Sound' \subseteq scan'.seen)
    <3>1. CASE UNCHANGED scan
      BY <1>0, <2>1, <3>1 DEF OneInv, Working
    <3>2. CASE ScanStart \/ ScanEnds \/ ScanFails \/ ScanKilled
      <4>1. scan'.pc \in {"idle", "detect", "lost"}
        <5>1. ScanIdle.pc = "idle"
          BY DEF ScanIdle
        <5>2. ScanIdle \in ScanState
          BY IdleTyped
        <5> QED
          BY <3>2, <5>1, <5>2 DEF ScanStart, ScanEnds, ScanFails, ScanKilled, ScanState
      <4> QED
        BY <4>1 DEF Working
    <3>3. CASE ScanDetect
      BY <1>0, <2>1, <3>3 DEF ScanDetect, ScanState, Sound
    <3>4. CASE ScanCount
      BY <1>0, <2>1, <3>4 DEF ScanCount, ScanState, OneInv, Working
    <3>5. CASE ScanRecover
      <4>1. scan'.seen = scan.seen
        BY <1>0, <3>5 DEF ScanRecover, ScanState
      <4> QED
        BY <1>0, <2>1, <3>5, <4>1 DEF ScanRecover, OneInv, Working
    <3>6. CASE ScanPush
      <4>1. PICK hit, ok : scan' = [scan EXCEPT !.pc = "mark", !.n.hit = hit, !.n.ok = ok]
        BY <3>6 DEF ScanPush
      <4>2. scan'.seen = scan.seen /\ scan'.n.action = scan.n.action /\ scan'.pc = "mark"
        BY <1>0, <4>1 DEF ScanState, Notice
      <4> QED
        BY <1>0, <2>1, <3>6, <4>2 DEF ScanPush, OneInv, Working
    <3>7. CASE ScanMark
      <4>1. /\ scan'.seen = scan.seen
            /\ scan'.pc = IF scan.n.action = "recovered" THEN "create" ELSE "end"
        BY <1>0, <3>7 DEF ScanMark, ScanState
      <4> QED
        BY <1>0, <2>1, <3>7, <4>1 DEF ScanMark, OneInv, Working
    <3>8. \/ UNCHANGED scan \/ ScanStart \/ ScanEnds \/ ScanFails \/ ScanKilled \/ ScanDetect \/ ScanCount
          \/ ScanRecover \/ ScanPush \/ ScanMark
      BY <1>1 DEF Next, vars, ScanStep, ManualRead, ManualStep, ManualSave, ManualPush, ManualMark,
            ManualKilled, EditPolicy, ViewReads, ViewCommits, CompStep, CompReads, CompPush, CompMark, CompKilled
    <3> QED
      BY <3>1, <3>2, <3>3, <3>4, <3>5, <3>6, <3>7, <3>8
  <2> QED
    BY <2>2, <2>3 DEF OneInv
<1>2. CASE ScanCreate
  <2>1. ~Working'
    <3> DEFINE done == [scan EXCEPT !.pc = "end", !.seen = {}, !.event = "quiet"]
    <3>1. done \in [pc : {"end"}, notice : BOOLEAN, again : BOOLEAN, seen : SUBSET Id,
                   event : {"quiet"}, n : Notice]
      BY <1>0 DEF ScanState
    <3>2. \/ scan' = done
          \/ \E ids, a : /\ a \in {"upgraded", "created"}
                         /\ scan' = [done EXCEPT !.pc = "push", !.n = Notify(ids, a)]
      BY <1>2 DEF ScanCreate
    <3> HIDE DEF done
    <3>3. scan'.pc = "end" \/ (scan'.pc = "push" /\ scan'.n.action \in {"upgraded", "created"})
      <4>1. CASE scan' = done
        BY <3>1, <4>1
      <4>2. ASSUME NEW ids, NEW a \in {"upgraded", "created"},
                   scan' = [done EXCEPT !.pc = "push", !.n = Notify(ids, a)]
            PROVE  scan'.pc = "push" /\ scan'.n.action = a
        <5>1. scan'.pc = "push" /\ scan'.n = Notify(ids, a)
          BY <3>1, <4>2
        <5> QED
          BY <5>1 DEF Notify
      <4> QED
        BY <3>2, <4>1, <4>2
    <3> QED
      BY <3>3 DEF Working
  <2>2. CASE UNCHANGED alerts
    <3>1. Sound' = Sound
      BY <1>2, <2>2 DEF Sound, Active, ScanCreate
    <3> QED
      BY <1>0, <2>1, <3>1 DEF OneInv
  <2>3. CASE /\ Matching = {}
             /\ \E new \in Free : alerts' = [alerts EXCEPT ![new] = [NoAlert EXCEPT !.status = "new"]]
    <3>1. PICK new \in Free : alerts' = [alerts EXCEPT ![new] = [NoAlert EXCEPT !.status = "new"]]
      BY <2>3
    <3>2. Sound = {}
      BY <1>0, <1>2, <2>3 DEF OneInv, Working, Matching, ScanCreate
    <3>3. \A i \in Id : i # new => alerts'[i] = alerts[i]
      BY <1>0, <3>1 DEF TypeInv, TypeOK
    <3>4. Sound' \subseteq {new}
      BY <1>2, <3>2, <3>3 DEF Sound, Active, ScanCreate
    <3> QED
      BY <2>1, <3>4 DEF OneInv
  <2>4. \/ UNCHANGED alerts
        \/ /\ Matching = {}
           /\ \E new \in Free : alerts' = [alerts EXCEPT ![new] = [NoAlert EXCEPT !.status = "new"]]
    BY <1>2 DEF ScanCreate, _update_existing_alerts_from_events
  <2> QED
    BY <2>2, <2>3, <2>4
<1> QED
  BY <1>1, <1>2

LEMMA NextAgain == AlertInv /\ [Next]_vars => (scan'.again => recount')
<1> SUFFICES ASSUME AlertInv, [Next]_vars PROVE scan'.again => recount'
  OBVIOUS
<1>0. scan \in ScanState /\ (scan.again => recount)
  BY DEF AlertInv, QuietInv, TypeInv, TypeOK, ScanState
<1>1. ScanIdle \in ScanState /\ ScanIdle.again = FALSE
  BY IdleTyped DEF ScanIdle
<1>2. CASE ScanStart
  <2>1. PICK again \in {FALSE, recount} :
          scan' = [ScanIdle EXCEPT !.pc = "detect", !.notice = policy.notice, !.again = again]
    BY <1>2 DEF ScanStart
  <2>2. scan'.again = again /\ recount' = recount
    BY <1>1, <1>2, <2>1 DEF ScanState, ScanStart
  <2>3. CASE again = FALSE
    BY <2>2, <2>3
  <2>4. CASE again = recount
    BY <2>2, <2>4
  <2> QED
    BY <2>1, <2>3, <2>4
<1>3. CASE ScanEnds \/ ScanFails \/ ScanKilled
  <2>1. scan'.again = FALSE
    BY <1>1, <1>3 DEF ScanEnds, ScanFails, ScanKilled, ScanState
  <2> QED
    BY <2>1
<1>4. CASE ScanCount
  BY <1>4 DEF ScanCount
<1>5. CASE ScanCreate
  <2> DEFINE done == [scan EXCEPT !.pc = "end", !.seen = {}, !.event = "quiet"]
  <2>1. done \in [pc : {"end"}, notice : BOOLEAN, again : {scan.again}, seen : SUBSET Id,
                  event : {"quiet"}, n : Notice]
    BY <1>0 DEF ScanState
  <2>2. scan' = done \/ \E ids, a : scan' = [done EXCEPT !.pc = "push", !.n = Notify(ids, a)]
    BY <1>5 DEF ScanCreate
  <2> HIDE DEF done
  <2>3. scan'.again = scan.again
    BY <2>1, <2>2
  <2> QED
    BY <1>0, <1>5, <2>3 DEF ScanCreate
<1>6. CASE ScanDetect \/ ScanRecover \/ ScanPush \/ ScanMark
  <2>1. scan'.again = scan.again
    BY <1>0, <1>6 DEF ScanDetect, ScanRecover, ScanPush, ScanMark, ScanState
  <2>2. recount' = recount
    BY <1>6 DEF ScanDetect, ScanRecover, ScanPush, ScanMark
  <2> QED
    BY <1>0, <2>1, <2>2
<1>7. CASE UNCHANGED <<scan, recount>>
  BY <1>0, <1>7
<1>8. \/ UNCHANGED <<scan, recount>> \/ ScanStart \/ ScanDetect \/ ScanCount \/ ScanRecover \/ ScanEnds
      \/ ScanFails \/ ScanKilled \/ ScanCreate \/ ScanPush \/ ScanMark
  BY DEF Next, vars, ScanStep, ManualRead, ManualStep, ManualSave, ManualPush, ManualMark, ManualKilled,
         EditPolicy, ViewReads, ViewCommits, CompStep, CompReads, CompPush, CompMark, CompKilled
<1> QED
  BY <1>2, <1>3, <1>4, <1>5, <1>6, <1>7, <1>8

\* Who counts, and how far.  Beside ScanCount and ScanFails nothing changes the
\* observers, and nothing but a failure makes a window one to be replayed.
LEMMA ReplayStep ==
    ASSUME TypeInv, [Next]_vars, ~ScanCount, type = "alert"
    PROVE  /\ quiet' = quiet
           /\ \/ failed' = failed /\ Replay' <= Replay
              \/ failed' = failed + 1
              \/ failed' = failed /\ quiet + failed >= recovery_condition
           /\ Replay \in {0, 1} /\ Replay' \in {0, 1}
<1>0. scan \in ScanState
  BY DEF TypeInv, TypeOK, ScanState
<1>1. quiet' = quiet
  BY DEF Next, vars, ScanStart, ScanStep, ScanDetect, ScanCount, ScanRecover, ScanCreate, ScanPush, ScanMark,
         ScanEnds, ScanFails, ScanKilled, ManualRead, ManualStep, ManualSave, ManualPush, ManualMark, ManualKilled,
         EditPolicy, ViewReads, ViewCommits, CompStep, CompReads, CompPush, CompMark, CompKilled
<1>2. Replay \in {0, 1} /\ Replay' \in {0, 1}
  BY DEF Replay
<1>a. ASSUME failed' = failed, recount' => recount, recount' /\ scan'.pc \in {"idle", "detect", "count"}
                                                    => scan.pc \in {"idle", "detect", "count"}
      PROVE  failed' = failed /\ Replay' <= Replay
  BY <1>a DEF Replay
<1>b. ScanIdle \in ScanState /\ ScanIdle.pc = "idle"
  BY IdleTyped DEF ScanIdle
<1>3. CASE ScanFails
  <2>1. CASE scan.pc \in {"detect", "count"}
    <3>1. failed' = failed /\ recount' = recount
      BY <1>3, <2>1 DEF ScanFails
    <3> QED
      BY <1>1, <1>2, <1>a, <2>1, <3>1
  <2>2. CASE scan.pc \notin {"detect", "count"}
    <3>1. failed' = IF quiet + failed >= recovery_condition THEN failed ELSE failed + 1
      BY <1>3, <2>2 DEF ScanFails
    <3> QED
      BY <1>1, <1>2, <3>1
  <2> QED
    BY <2>1, <2>2
<1>4. CASE ScanEnds
  <2>1. failed' = failed /\ recount' = FALSE
    BY <1>4 DEF ScanEnds
  <2> QED
    BY <1>1, <1>2, <1>a, <2>1
<1>5. CASE ScanStart \/ ScanDetect
  <2>1. failed' = failed /\ recount' = recount /\ scan.pc \in {"idle", "detect", "count"}
    BY <1>5 DEF ScanStart, ScanDetect
  <2> QED
    BY <1>1, <1>2, <1>a, <2>1
<1>6. CASE ScanRecover \/ ScanPush \/ ScanMark \/ ScanKilled
  <2>1. failed' = failed /\ recount' = recount
    BY <1>6 DEF ScanRecover, ScanPush, ScanMark, ScanKilled
  <2>2. scan'.pc \notin {"idle", "detect", "count"}
    BY <1>0, <1>6, <1>b DEF ScanRecover, ScanPush, ScanMark, ScanKilled, ScanState
  <2> QED
    BY <1>1, <1>2, <1>a, <2>1, <2>2
<1>7. CASE ScanCreate
  <2>1. failed' = failed /\ recount' = recount
    BY <1>7 DEF ScanCreate
  <2> DEFINE done == [scan EXCEPT !.pc = "end", !.seen = {}, !.event = "quiet"]
  <2>2. done \in [pc : {"end"}, notice : BOOLEAN, again : BOOLEAN, seen : SUBSET Id,
                  event : {"quiet"}, n : Notice]
    BY <1>0 DEF ScanState
  <2>3. scan' = done \/ \E ids, a : scan' = [done EXCEPT !.pc = "push", !.n = Notify(ids, a)]
    BY <1>7 DEF ScanCreate
  <2> HIDE DEF done
  <2>4. scan'.pc \notin {"idle", "detect", "count"}
    BY <2>2, <2>3
  <2> QED
    BY <1>1, <1>2, <1>a, <2>1, <2>4
<1>8. CASE UNCHANGED <<scan, recount, failed>>
  BY <1>1, <1>2, <1>8 DEF Replay
<1>9. \/ UNCHANGED <<scan, recount, failed>> \/ ScanStart \/ ScanDetect \/ ScanCount \/ ScanRecover \/ ScanEnds
      \/ ScanFails \/ ScanKilled \/ ScanCreate \/ ScanPush \/ ScanMark
  BY DEF Next, vars, ScanStep, ManualRead, ManualStep, ManualSave, ManualPush, ManualMark, ManualKilled,
         EditPolicy, ViewReads, ViewCommits, CompStep, CompReads, CompPush, CompMark, CompKilled
<1> QED
  BY <1>3, <1>4, <1>5, <1>6, <1>7, <1>8, <1>9

LEMMA NextQuiet == AlertInv /\ [Next]_vars => QuietInv'
<1> SUFFICES ASSUME AlertInv, [Next]_vars, type' = "alert", NEW i \in Sound'
             PROVE  \/ quiet' + failed' >= recovery_condition
                    \/ alerts'[i].info + Replay' <= quiet' + failed'
  BY NextAgain DEF QuietInv
<1>0. /\ TypeInv /\ OneInv /\ QuietInv /\ scan \in ScanState
      /\ i \in Id /\ alerts'[i].status = "new" /\ i \notin stale' /\ i \notin stale
      /\ alerts[i] \in Alert /\ alerts[i].info \in 0..recovery_condition
  BY StaleGrows DEF AlertInv, TypeInv, TypeOK, ScanState, Sound, Active, Alert
<1>1. type = "alert"
  BY DEF Next, vars, ScanStart, ScanStep, ScanDetect, ScanCount, ScanRecover, ScanCreate, ScanPush, ScanMark,
         ScanEnds, ScanFails, ScanKilled, ManualRead, ManualStep, ManualSave, ManualPush, ManualMark, ManualKilled,
         EditPolicy, ViewReads, ViewCommits, CompStep, CompReads, CompPush, CompMark, CompKilled
<1>2. quiet \in Nat /\ failed \in Nat /\ recovery_condition \in Nat /\ alerts[i].info \in Nat
  BY <1>0, ConstantsAssumption DEF TypeInv, TypeOK
<1>3. alerts[i].status = "new" =>
        \/ quiet + failed >= recovery_condition
        \/ alerts[i].info + Replay <= quiet + failed
  BY <1>0, <1>1 DEF QuietInv, Sound, Active
<1>4. CASE ScanCount
  <2>1. i \in Sound /\ alerts[i].status = "new"
    BY <1>0, <1>4, RowStep DEF Sound, Active, ScanCount, ScanCreate, ScanRecover, ManualSave
  <2>2. i \in scan.seen
    BY <1>0, <1>4, <2>1 DEF OneInv, Working, ScanCount
  <2>3. alerts'[i] = Counted(i, scan.event)
    BY <1>0, <1>4, <2>2 DEF ScanCount
  <2>4. Replay' = 0 /\ Replay = IF recount THEN 1 ELSE 0
    BY <1>0, <1>4 DEF ScanCount, ScanState, Replay
  <2>5. CASE scan.event \in {"over", "higher"}
    <3>1. quiet' = 0 /\ failed' = 0
      BY <1>4, <2>5 DEF ScanCount, Starts
    <3>2. alerts'[i] = [alerts[i] EXCEPT !.info = 0]
      BY <2>3, <2>5 DEF Counted
    <3>3. alerts'[i].info = 0
      BY <1>0, <3>2 DEF Alert
    <3> QED
      BY <2>4, <3>1, <3>3
  <2>6. CASE scan.event = "quiet"
    <3>1. failed' = failed /\ ~Starts
      BY <1>4, <2>2, <2>6 DEF ScanCount, Starts
    <3>2. alerts'[i].info = IF alerts[i].info < recovery_condition THEN alerts[i].info + 1 ELSE alerts[i].info
      BY <1>0, <2>3, <2>6 DEF Counted, Alert
    <3>3. CASE quiet + failed >= recovery_condition
      <4>1. quiet' = quiet
        BY <1>2, <1>4, <3>1, <3>3 DEF ScanCount
      <4> QED
        BY <3>1, <3>3, <4>1
    <3>4. CASE ~(quiet + failed >= recovery_condition) /\ scan.again
      <4>1. quiet' = quiet
        BY <1>4, <3>1, <3>4 DEF ScanCount
      <4>2. Replay = 1
        BY <1>0, <2>4, <3>4 DEF QuietInv
      <4> QED
        BY <1>2, <1>3, <2>1, <2>4, <3>1, <3>2, <3>4, <4>1, <4>2
    <3>5. CASE ~(quiet + failed >= recovery_condition) /\ ~scan.again
      <4>1. quiet' = quiet + 1
        BY <1>2, <1>4, <2>6, <3>1, <3>5 DEF ScanCount
      <4> QED
        BY <1>2, <1>3, <2>1, <2>4, <3>1, <3>2, <3>5, <4>1
    <3> QED
      BY <3>3, <3>4, <3>5
  <2>7. CASE scan.event \notin {"over", "higher", "quiet"}
    <3>1. quiet' = quiet /\ failed' = failed
      BY <1>4, <2>2, <2>7 DEF ScanCount, Starts
    <3>2. alerts'[i] = alerts[i]
      BY <2>3, <2>7 DEF Counted
    <3> QED
      BY <1>2, <1>3, <2>1, <2>4, <3>1, <3>2
  <2> QED
    BY <2>5, <2>6, <2>7
<1>5. CASE ~ScanCount
  <2>1. /\ quiet' = quiet
        /\ \/ failed' = failed /\ Replay' <= Replay
           \/ failed' = failed + 1
           \/ failed' = failed /\ quiet + failed >= recovery_condition
        /\ Replay \in {0, 1} /\ Replay' \in {0, 1}
    BY <1>0, <1>1, <1>5, ReplayStep
  <2>2. \/ alerts[i].status = "new" /\ alerts'[i].info = alerts[i].info
        \/ ScanCreate /\ alerts'[i].info = 0
    BY <1>0, <1>5, RowStep
  <2>3. CASE alerts[i].status = "new" /\ alerts'[i].info = alerts[i].info
    BY <1>2, <1>3, <2>1, <2>3
  <2>4. CASE ScanCreate /\ alerts'[i].info = 0
    <3>1. Replay' = 0
      <4> DEFINE done == [scan EXCEPT !.pc = "end", !.seen = {}, !.event = "quiet"]
      <4>1. done \in [pc : {"end"}, notice : BOOLEAN, again : BOOLEAN, seen : SUBSET Id,
                      event : {"quiet"}, n : Notice]
        BY <1>0 DEF ScanState
      <4>2. scan' = done \/ \E ids, a : scan' = [done EXCEPT !.pc = "push", !.n = Notify(ids, a)]
        BY <2>4 DEF ScanCreate
      <4> HIDE DEF done
      <4>3. scan'.pc \notin {"idle", "detect", "count"}
        BY <4>1, <4>2
      <4> QED
        BY <4>3 DEF Replay
    <3> QED
      BY <1>2, <2>1, <2>4, <3>1
  <2> QED
    BY <2>2, <2>3, <2>4
<1> QED
  BY <1>4, <1>5

LEMMA NextCopy == AlertInv /\ [Next]_vars => CopyInv'
<1> SUFFICES ASSUME AlertInv, [Next]_vars, manual'.pc = "save", manual'.copy.status \in Ended
             PROVE  manual'.id \in stale' \/ alerts'[manual'.id].status \in Ended
  BY DEF CopyInv
<1>0. TypeInv /\ CopyInv /\ manual \in ManualState
  BY DEF AlertInv, TypeInv, TypeOK, ManualState
<1>1. ManualIdle \in ManualState /\ ManualIdle.pc = "idle"
  BY IdleTyped DEF ManualIdle
<1>2. CASE ManualRead
  <2>1. PICK i \in Id \ Free, closes \in BOOLEAN :
          manual' = [ManualIdle EXCEPT !.pc = "save", !.closes = closes, !.id = i, !.copy = alerts[i]]
    BY <1>2 DEF ManualRead
  <2>2. manual'.id = i /\ manual'.copy = alerts[i] /\ alerts' = alerts
    BY <1>1, <1>2, <2>1 DEF ManualState, ManualRead
  <2> QED
    BY <2>2
<1>3. CASE ManualSave \/ ManualPush \/ ManualMark \/ ManualKilled
  <2>1. manual'.pc # "save"
    BY <1>0, <1>1, <1>3 DEF ManualSave, ManualPush, ManualMark, ManualKilled, ManualState
  <2> QED
    BY <2>1
<1>4. CASE UNCHANGED manual /\ ~ManualSave
  <2>1. manual.id \in Id
    BY <1>0, <1>4 DEF TypeInv, CountsOK
  <2>2. CASE manual.id \in stale
    BY <1>4, <2>2, StaleGrows
  <2>3. CASE alerts[manual.id].status \in Ended
    <3>1. alerts'[manual.id].status \in Ended
      BY <1>0, <1>4, <2>1, <2>3, RowStep DEF Ended, Free
    <3> QED
      BY <1>4, <3>1
  <2> QED
    BY <1>0, <1>4, <2>2, <2>3 DEF CopyInv
<1>5. \/ UNCHANGED manual \/ ManualRead \/ ManualSave \/ ManualPush \/ ManualMark \/ ManualKilled
  BY DEF Next, vars, ScanStart, ScanStep, ScanDetect, ScanCount, ScanRecover, ScanCreate, ScanPush, ScanMark,
         ScanEnds, ScanFails, ScanKilled, ManualStep, EditPolicy, ViewReads, ViewCommits, CompStep, CompReads,
         CompPush, CompMark, CompKilled
<1> QED
  BY <1>2, <1>3, <1>4, <1>5

LEMMA AlertInvIsInvariant == Spec => []AlertInv
<1>1. AlertInv /\ [Next]_vars => AlertInv'
  BY NextTyped, NextOne, NextQuiet, NextCopy DEF AlertInv
<1> QED
  BY InitOne, <1>1, PTL DEF Spec

\* A metric instance has one active alert of a type, although the scan works
\* from an old copy of the active alerts and nothing is locked meanwhile.
THEOREM AlwaysOneActive == Spec => []OneActiveAlert
<1>1. AlertInv => OneActiveAlert
  <2> SUFFICES ASSUME AlertInv PROVE OneActiveAlert
    OBVIOUS
  <2>1. CASE Sound = {}
    <3>1. Cardinality(Sound) = 0
      BY <2>1, FS_EmptySet
    <3> QED
      BY <3>1 DEF OneActiveAlert, Sound
  <2>2. ASSUME NEW x \in Sound PROVE OneActiveAlert
    <3>1. Sound = {x}
      BY DEF AlertInv, OneInv
    <3>2. Cardinality(Sound) = 1
      BY <3>1, FS_Singleton
    <3> QED
      BY <3>2 DEF OneActiveAlert, Sound
  <2> QED
    BY <2>1, <2>2
<1> QED
  BY AlertInvIsInvariant, <1>1, PTL

\* A threshold alert recovers only after recovery_condition different quiet windows
\* in a row, less one for each scan among them that raised after it had counted:
\* a replayed window never counts for more than that.
THEOREM RecoveryIsEarned == Spec => RecoversAfterQuiet
<1>1. ASSUME AlertInv, [Next]_vars, NEW i \in Id \ stale, type = "alert",
             alerts[i].status = "new", alerts'[i].status = "recovered"
      PROVE  quiet + failed >= recovery_condition
  <2>1. \/ i \in Recovering
        \/ ManualSave /\ manual.id = i /\ alerts'[i] = manual.copy
    BY <1>1, RowStep DEF AlertInv
  <2>2. CASE i \in Recovering
    <3>1. alerts[i].info >= recovery_condition
      BY <1>1, <2>2 DEF Recovering
    <3>2. quiet + failed >= recovery_condition \/ alerts[i].info + Replay <= quiet + failed
      BY <1>1 DEF AlertInv, QuietInv, Sound, Active
    <3>3. alerts[i].info \in 0..recovery_condition /\ quiet \in 0..recovery_condition
          /\ failed \in 0..recovery_condition /\ Replay \in {0, 1}
      BY <1>1 DEF AlertInv, TypeInv, TypeOK, Alert, Replay
    <3>4. alerts[i].info \in Nat /\ quiet \in Nat /\ failed \in Nat /\ recovery_condition \in Nat
      BY <3>3, ConstantsAssumption
    <3> QED
      BY <3>1, <3>2, <3>3, <3>4
  <2>3. CASE ManualSave /\ manual.id = i /\ alerts'[i] = manual.copy
    BY <1>1, <2>3 DEF AlertInv, CopyInv, ManualSave, Ended
  <2> QED
    BY <2>1, <2>2, <2>3
<1>2. AlertInv /\ [Next]_vars =>
        [\A i \in Id \ stale :
            type = "alert" /\ alerts[i].status = "new" /\ alerts'[i].status = "recovered"
                => quiet + failed >= recovery_condition]_vars
  BY <1>1
<1> QED
  BY AlertInvIsInvariant, <1>2, PTL DEF Spec, RecoversAfterQuiet

-----------------------------------------------------------------------------
(* The flag alert_center_notified.  Whoever is about to set it knows that   *)
(* the alert center has been told, or that it was not to be told; a request *)
(* that is about to save its copy knows it of the copy.                     *)

NoticeOn == ~muted => policy.notice /\ scan.notice

ScanMarks ==
    scan.pc = "mark" =>
        /\ scan.n.action = "recovered" => scan.n.ok \subseteq heard
        /\ Center /\ ~muted => scan.n.ids \subseteq scan.n.hit

ManualMarks ==
    manual.pc = "mark" =>
        /\ manual.n.ok \subseteq heard
        /\ Center /\ ~muted => manual.n.ids \subseteq manual.n.hit

ManualCopies ==
    manual.pc = "save" =>
        /\ manual.copy.status # "none"
        /\ manual.copy.status \in Ended /\ manual.copy.notified /\ Center /\ ~muted /\ manual.id \notin late
               => manual.id \in heard

CompMarks == comp.pc = "mark" => comp.ok \subseteq heard

HonestInv ==
    TypeInv /\ FlagIsHonest /\ NoticeOn /\ ScanMarks /\ ManualMarks /\ ManualCopies /\ CompMarks

LEMMA InitHonest == Init => HonestInv
<1> SUFFICES ASSUME Init PROVE HonestInv
  OBVIOUS
<1>1. \A i \in Id : alerts[i].status = "none"
  BY DEF Init, NoAlert
<1>2. policy.notice /\ scan.notice
  BY DEF Init, ScanIdle
<1>3. scan.pc = "idle" /\ manual.pc = "idle" /\ comp.pc = "idle"
  BY DEF Init, ScanIdle, ManualIdle, CompIdle
<1>4. FlagIsHonest
  BY <1>1 DEF FlagIsHonest, Ended
<1> QED
  BY <1>2, <1>3, <1>4, InitTyped
     DEF HonestInv, NoticeOn, ScanMarks, ManualMarks, ManualCopies, CompMarks

\* What the alert center has heard it does not forget; nor do the observers.
LEMMA Grows ==
    ASSUME TypeInv, [Next]_vars
    PROVE  heard \subseteq heard' /\ late \subseteq late' /\ (~muted' => ~muted)
<1>1. heard \subseteq heard'
  BY DEF Next, vars, ScanStart, ScanStep, ScanDetect, ScanCount, ScanRecover, ScanCreate, ScanPush, ScanMark,
         ScanEnds, ScanFails, ScanKilled, ManualRead, ManualStep, ManualSave, ManualPush, ManualMark, ManualKilled,
         EditPolicy, ViewReads, ViewCommits, CompStep, CompReads, CompPush, CompMark, CompKilled, Push
<1>2. late \subseteq late'
  BY DEF Next, vars, ScanStart, ScanStep, ScanDetect, ScanCount, ScanRecover, ScanCreate, ScanPush, ScanMark,
         ScanEnds, ScanFails, ScanKilled, ManualRead, ManualStep, ManualSave, ManualPush, ManualMark, ManualKilled,
         EditPolicy, ViewReads, ViewCommits, CompStep, CompReads, CompPush, CompMark, CompKilled
<1>3. ~muted' => ~muted
  BY DEF Next, vars, ScanStart, ScanStep, ScanDetect, ScanCount, ScanRecover, ScanCreate, ScanPush, ScanMark,
         ScanEnds, ScanFails, ScanKilled, ManualRead, ManualStep, ManualSave, ManualPush, ManualMark, ManualKilled,
         EditPolicy, ViewReads, ViewCommits, CompStep, CompReads, CompPush, CompMark, CompKilled
<1> QED
  BY <1>1, <1>2, <1>3

\* The channel of the alert center is meant for every alert while the switch is on.
LEMMA AllAreHit ==
    ASSUME Center, NEW ids, NEW a, NEW b, b = TRUE, NEW hit \in _should_notify_channel(ids, a, b)
    PROVE  hit = ids
BY DEF _should_notify_channel

LEMMA FlagStep == HonestInv /\ [Next]_vars => FlagIsHonest'
<1> SUFFICES ASSUME HonestInv, [Next]_vars, NEW i \in Id \ late',
                    alerts'[i].status \in Ended, alerts'[i].notified, Center, ~muted'
             PROVE  i \in heard'
  BY DEF FlagIsHonest
<1>0. /\ TypeInv
      /\ alerts \in [Id -> Alert]
      /\ alerts[i] \in Alert
      /\ scan \in ScanState
      /\ manual \in ManualState
      /\ view \in ViewState
      /\ policy \in [enable : BOOLEAN, notice : BOOLEAN]
  BY DEF HonestInv, TypeInv, TypeOK, ScanState, ManualState, ViewState
<1>1. i \in Id /\ i \notin late /\ ~muted /\ heard \subseteq heard'
  BY <1>0, Grows
<1>2. alerts[i].status \in Ended /\ alerts[i].notified => i \in heard'
  BY <1>1 DEF HonestInv, FlagIsHonest
<1>3. CASE UNCHANGED alerts
  BY <1>2, <1>3
<1>4. CASE ScanCount
  <2>1. alerts'[i] = alerts[i] \/ alerts'[i] = Counted(i, scan.event)
    BY <1>1, <1>4 DEF ScanCount
  <2>2. Counted(i, scan.event).status = alerts[i].status /\ Counted(i, scan.event).notified = alerts[i].notified
    BY <1>0 DEF Counted, Alert
  <2> QED
    BY <1>2, <2>1, <2>2
<1>5. CASE ScanRecover
  <2>1. \/ alerts'[i] = alerts[i]
        \/ alerts'[i] = [alerts[i] EXCEPT !.status = "recovered", !.notified = FALSE]
    BY <1>1, <1>5 DEF ScanRecover, EndAs
  <2>2. [alerts[i] EXCEPT !.status = "recovered", !.notified = FALSE].notified = FALSE
    BY <1>0 DEF Alert
  <2> QED
    BY <1>2, <2>1, <2>2
<1>6. CASE ScanCreate
  <2>1. \/ alerts'[i].status = alerts[i].status /\ alerts'[i].notified = alerts[i].notified
        \/ alerts'[i].status = "new"
    <3>1. \/ UNCHANGED alerts
          \/ \E new \in Free : alerts' = [alerts EXCEPT ![new] = [NoAlert EXCEPT !.status = "new"]]
      BY <1>6 DEF ScanCreate, _update_existing_alerts_from_events
    <3>2. [NoAlert EXCEPT !.status = "new"].status = "new"
      BY DEF NoAlert
    <3> QED
      BY <1>0, <1>1, <3>1, <3>2
  <2> QED
    BY <1>2, <2>1 DEF Ended
<1>7. CASE ScanMark
  <2>1. alerts' = Mark(scan.n.ids, scan.n.hit, scan.n.ok) /\ scan.pc = "mark"
    BY <1>7 DEF ScanMark
  <2>2. scan.n.ids \in SUBSET Id /\ scan.n.hit \in SUBSET Id /\ scan.n.ok \in SUBSET Id
    BY <1>0 DEF ScanState, Notice
  <2>3. /\ alerts'[i].status = alerts[i].status
        /\ alerts[i].notified \/ (i \in scan.n.ids /\ (i \in scan.n.ok \/ i \notin scan.n.hit))
    BY <1>0, <1>1, <2>1, <2>2, MarkRow
  <2>4. CASE alerts[i].notified
    BY <1>2, <2>3, <2>4
  <2>5. CASE i \in scan.n.ids /\ i \notin scan.n.hit
    BY <1>1, <2>1, <2>5 DEF HonestInv, ScanMarks
  <2>6. CASE i \in scan.n.ok /\ scan.n.action = "recovered"
    BY <1>1, <2>1, <2>6 DEF HonestInv, ScanMarks
  <2>7. CASE i \in scan.n.ok /\ scan.n.action # "recovered"
    <3>1. i \in late'
      BY <1>7, <2>3, <2>7 DEF ScanMark
    <3> QED
      BY <3>1
  <2> QED
    BY <2>3, <2>4, <2>5, <2>6, <2>7
<1>8. CASE ManualSave
  <2>1. alerts' = [alerts EXCEPT ![manual.id] = Edited(manual.copy)] /\ manual.pc = "save"
    BY <1>8 DEF ManualSave
  <2>2. manual.copy \in Alert
    BY <1>0 DEF ManualState
  <2>3. CASE i # manual.id
    <3>1. alerts'[i] = alerts[i]
      BY <1>0, <1>1, <2>1, <2>3
    <3> QED
      BY <1>2, <3>1
  <2>4. CASE i = manual.id
    <3>1. alerts'[i] = Edited(manual.copy)
      BY <1>0, <1>1, <2>1, <2>4
    <3>2. manual.copy.notified /\ manual.copy.status # "new"
      BY <1>0, <3>1, EditedRow DEF Ended
    <3>3. manual.copy.status \in {"none", "new"} \cup Ended
      BY <2>2 DEF Alert
    <3>4. manual.copy.status \in Ended
      BY <2>1, <3>2, <3>3 DEF HonestInv, ManualCopies
    <3> QED
      BY <1>1, <2>1, <2>4, <3>2, <3>4 DEF HonestInv, ManualCopies
  <2> QED
    BY <2>3, <2>4
<1>9. CASE ManualMark
  <2>1. alerts' = Mark(manual.n.ids, manual.n.hit, manual.n.ok) /\ manual.pc = "mark"
    BY <1>9 DEF ManualMark
  <2>2. manual.n.ids \in SUBSET Id /\ manual.n.hit \in SUBSET Id /\ manual.n.ok \in SUBSET Id
    BY <1>0 DEF ManualState, Notice
  <2>3. /\ alerts'[i].status = alerts[i].status
        /\ alerts[i].notified \/ (i \in manual.n.ids /\ (i \in manual.n.ok \/ i \notin manual.n.hit))
    BY <1>0, <1>1, <2>1, <2>2, MarkRow
  <2> QED
    BY <1>1, <1>2, <2>1, <2>3 DEF HonestInv, ManualMarks
<1>10. CASE ViewCommits
  <2>1. PICK hit \in _should_notify_channel(view.ids, "closed", policy.notice) :
          \E ok \in Accepted(hit) : Push("closed", ok) /\ Closing(hit, ok)
    BY <1>10 DEF ViewCommits, Closing
  <2>2. PICK ok \in Accepted(hit) : Push("closed", ok) /\ Closing(hit, ok)
    BY <2>1
  <2>3. hit = view.ids
    <3>1. policy.notice = TRUE
      BY <1>0, <1>1 DEF HonestInv, NoticeOn
    <3> QED
      BY <3>1, AllAreHit
  <2>4. ok \subseteq heard'
    BY <2>2 DEF Push
  <2>5. \/ alerts'[i] = alerts[i]
        \/ i \in view.ids /\ alerts'[i].notified = (i \in ok \/ i \notin hit)
    BY <1>0, <1>1, <2>2, ClosingRows
  <2> QED
    BY <1>2, <2>3, <2>4, <2>5
<1>11. CASE CompMark
  <2>1. CASE i \in comp.ok
    BY <1>1, <1>11, <2>1 DEF CompMark, HonestInv, CompMarks
  <2>2. CASE i \notin comp.ok
    <3>1. alerts'[i] = alerts[i] \/ alerts'[i] = [alerts[i] EXCEPT !.retry = alerts[i].retry + 1]
      BY <1>1, <1>11, <2>2 DEF CompMark
    <3>2. alerts'[i].status = alerts[i].status /\ alerts'[i].notified = alerts[i].notified
      BY <1>0, <3>1 DEF Alert
    <3> QED
      BY <1>2, <3>2
  <2> QED
    BY <2>1, <2>2
<1>12. \/ UNCHANGED alerts \/ ScanCount \/ ScanRecover \/ ScanCreate \/ ScanMark
       \/ ManualSave \/ ManualMark \/ ViewCommits \/ CompMark
  BY DEF Next, vars, ScanStart, ScanStep, ScanDetect, ScanPush, ScanEnds, ScanFails, ScanKilled, ManualRead,
         ManualStep, ManualPush, ManualKilled, EditPolicy, ViewReads, CompStep, CompReads, CompPush, CompKilled
<1> QED
  BY <1>3, <1>4, <1>5, <1>6, <1>7, <1>8, <1>9, <1>10, <1>11, <1>12

LEMMA ScanMarksStep == HonestInv /\ [Next]_vars => NoticeOn' /\ ScanMarks'
<1> SUFFICES ASSUME HonestInv, [Next]_vars PROVE NoticeOn' /\ ScanMarks'
  OBVIOUS
<1>0. /\ TypeInv
      /\ scan \in ScanState
      /\ policy \in [enable : BOOLEAN, notice : BOOLEAN]
      /\ view \in ViewState
      /\ alerts \in [Id -> Alert]
  BY DEF HonestInv, TypeInv, TypeOK, ScanState, ViewState
<1>1. heard \subseteq heard' /\ (~muted' => ~muted)
  BY <1>0, Grows
<1>2. ~muted' => policy'.notice
  <2>1. CASE EditPolicy
    <3>1. PICK enable \in {policy.enable, TRUE}, notice \in BOOLEAN :
            policy' = [enable |-> enable, notice |-> notice] /\ muted' = (muted \/ ~notice)
      BY <2>1 DEF EditPolicy
    <3>2. policy'.notice = notice
      BY <3>1
    <3> QED
      BY <3>1, <3>2
  <2>2. CASE ViewCommits
    <3>1. PICK hit, ok : Closing(hit, ok)
      <4>1. \E hit \in _should_notify_channel(view.ids, "closed", policy.notice) :
              \E ok \in Accepted(hit) : Push("closed", ok) /\ Closing(hit, ok)
        BY <2>2 DEF ViewCommits, Closing
      <4> QED
        BY <4>1
    <3>2. policy'.notice = policy.notice
      BY <1>0, <3>1, ClosingRows
    <3> QED
      BY <1>1, <3>2 DEF HonestInv, NoticeOn
  <2>3. CASE UNCHANGED policy
    BY <1>1, <2>3 DEF HonestInv, NoticeOn
  <2>4. EditPolicy \/ ViewCommits \/ UNCHANGED policy
    BY DEF Next, vars, ScanStart, ScanStep, ScanDetect, ScanCount, ScanRecover, ScanCreate, ScanPush, ScanMark,
         ScanEnds, ScanFails, ScanKilled, ManualRead, ManualStep, ManualSave, ManualPush, ManualMark, ManualKilled,
         ViewReads, CompStep, CompReads, CompPush, CompMark, CompKilled
  <2> QED
    BY <2>1, <2>2, <2>3, <2>4
<1>3. ASSUME scan' \in ScanState, scan'.pc # "mark", scan'.notice = TRUE \/ scan'.notice = scan.notice
      PROVE  NoticeOn' /\ ScanMarks'
  BY <1>1, <1>2, <1>3 DEF HonestInv, NoticeOn, ScanMarks
<1>4. CASE UNCHANGED scan
  BY <1>1, <1>2, <1>4 DEF HonestInv, NoticeOn, ScanMarks
<1>5. scan' \in ScanState
  BY <1>0, NextTyped DEF TypeInv, TypeOK, ScanState
<1>6. ScanIdle \in ScanState /\ ScanIdle.pc = "idle" /\ ScanIdle.notice = TRUE
  BY IdleTyped DEF ScanIdle
<1>7. CASE ScanStart
  <2>1. scan'.pc = "detect" /\ scan'.notice = policy.notice
    BY <1>6, <1>7 DEF ScanStart, ScanState
  <2>2. policy' = policy
    BY <1>7 DEF ScanStart
  <2> QED
    BY <1>1, <1>2, <2>1, <2>2 DEF NoticeOn, ScanMarks
<1>8. CASE ScanDetect \/ ScanCount \/ ScanRecover \/ ScanEnds \/ ScanFails \/ ScanKilled
  <2>1. scan'.pc # "mark"
    <3>1. CASE ScanDetect \/ ScanCount \/ ScanRecover
      BY <1>0, <3>1 DEF ScanDetect, ScanCount, ScanRecover, ScanState
    <3>2. CASE ScanEnds \/ ScanFails \/ ScanKilled
      BY <1>6, <3>2 DEF ScanEnds, ScanFails, ScanKilled, ScanState
    <3> QED
      BY <1>8, <3>1, <3>2
  <2>2. scan'.notice = TRUE \/ scan'.notice = scan.notice
    BY <1>0, <1>6, <1>8 DEF ScanDetect, ScanCount, ScanRecover, ScanEnds, ScanFails, ScanKilled, ScanState
  <2> QED
    BY <1>3, <1>5, <2>1, <2>2
<1>9. CASE ScanCreate
  <2> DEFINE done == [scan EXCEPT !.pc = "end", !.seen = {}, !.event = "quiet"]
  <2>1. done \in [pc : {"end"}, notice : {scan.notice}, again : BOOLEAN, seen : SUBSET Id, event : {"quiet"}, n : Notice]
    BY <1>0 DEF ScanState
  <2>2. scan' = done \/ \E ids, a : scan' = [done EXCEPT !.pc = "push", !.n = Notify(ids, a)]
    BY <1>9 DEF ScanCreate
  <2> HIDE DEF done
  <2>3. scan'.pc # "mark" /\ scan'.notice = scan.notice
    BY <2>1, <2>2
  <2> QED
    BY <1>3, <1>5, <2>3
<1>10. CASE ScanPush
  <2>1. PICK hit \in _should_notify_channel(scan.n.ids, scan.n.action, scan.notice) :
          \E ok \in Accepted(hit) :
            /\ Push(scan.n.action, ok)
            /\ scan' = [scan EXCEPT !.pc = "mark", !.n.hit = hit, !.n.ok = ok]
    BY <1>10 DEF ScanPush
  <2>2. PICK ok \in Accepted(hit) :
            /\ Push(scan.n.action, ok)
            /\ scan' = [scan EXCEPT !.pc = "mark", !.n.hit = hit, !.n.ok = ok]
    BY <2>1
  <2>3. /\ scan'.n.ids = scan.n.ids /\ scan'.n.action = scan.n.action
        /\ scan'.n.hit = hit /\ scan'.n.ok = ok /\ scan'.notice = scan.notice
    BY <1>0, <2>2 DEF ScanState, Notice
  <2>4. scan.n.action = "recovered" => ok \subseteq heard'
    BY <2>2 DEF Push
  <2>5. Center /\ ~muted' => hit = scan.n.ids
    <3>1. ~muted' => scan.notice = TRUE
      BY <1>0, <1>1 DEF HonestInv, NoticeOn, ScanState
    <3> QED
      BY <3>1, AllAreHit
  <2>6. NoticeOn'
    BY <1>1, <1>2, <2>3 DEF HonestInv, NoticeOn
  <2>7. ScanMarks'
    BY <2>3, <2>4, <2>5 DEF ScanMarks
  <2> QED
    BY <2>6, <2>7
<1>11. CASE ScanMark
  <2>1. scan'.pc # "mark" /\ scan'.notice = scan.notice
    BY <1>0, <1>11 DEF ScanMark, ScanState
  <2> QED
    BY <1>3, <1>5, <2>1
<1>12. \/ UNCHANGED scan \/ ScanStart \/ ScanDetect \/ ScanCount \/ ScanRecover \/ ScanEnds \/ ScanFails
       \/ ScanKilled \/ ScanCreate \/ ScanPush \/ ScanMark
  BY DEF Next, vars, ScanStep, ManualRead, ManualStep, ManualSave, ManualPush, ManualMark, ManualKilled,
         EditPolicy, ViewReads, ViewCommits, CompStep, CompReads, CompPush, CompMark, CompKilled
<1> QED
  BY <1>4, <1>7, <1>8, <1>9, <1>10, <1>11, <1>12

LEMMA ManualMarksStep == HonestInv /\ [Next]_vars => ManualMarks' /\ ManualCopies'
<1> SUFFICES ASSUME HonestInv, [Next]_vars PROVE ManualMarks' /\ ManualCopies'
  OBVIOUS
<1>0. /\ TypeInv
      /\ manual \in ManualState
      /\ alerts \in [Id -> Alert]
      /\ policy \in [enable : BOOLEAN, notice : BOOLEAN]
  BY DEF HonestInv, TypeInv, TypeOK, ManualState
<1>1. heard \subseteq heard' /\ late \subseteq late' /\ (~muted' => ~muted)
  BY <1>0, Grows
<1>2. CASE UNCHANGED manual
  BY <1>1, <1>2 DEF HonestInv, ManualMarks, ManualCopies
<1>3. ASSUME manual'.pc \in {"idle", "push"} PROVE ManualMarks' /\ ManualCopies'
  BY <1>3 DEF ManualMarks, ManualCopies
<1>4. ManualIdle \in ManualState /\ ManualIdle.pc = "idle"
  BY IdleTyped DEF ManualIdle
<1>5. CASE ManualMark \/ ManualKilled
  BY <1>3, <1>4, <1>5 DEF ManualMark, ManualKilled
<1>6. CASE ManualSave
  <2>1. manual'.pc \in {"idle", "push"}
    BY <1>0, <1>4, <1>6 DEF ManualSave, ManualState
  <2> QED
    BY <1>3, <2>1
<1>7. CASE ManualRead
  <2>1. PICK i \in Id \ Free, closes \in BOOLEAN :
          manual' = [ManualIdle EXCEPT !.pc = "save", !.closes = closes, !.id = i, !.copy = alerts[i]]
    BY <1>7 DEF ManualRead
  <2>2. manual'.pc = "save" /\ manual'.id = i /\ manual'.copy = alerts[i]
    BY <1>4, <2>1 DEF ManualState
  <2>3. alerts[i].status # "none"
    BY DEF Free
  <2>4. alerts[i].status \in Ended /\ alerts[i].notified /\ Center /\ ~muted' /\ i \notin late' => i \in heard'
    BY <1>1 DEF HonestInv, FlagIsHonest
  <2> QED
    BY <2>2, <2>3, <2>4 DEF ManualMarks, ManualCopies
<1>8. CASE ManualPush
  <2>1. CASE alerts[manual.id].status # "closed"
    BY <1>3, <1>4, <1>8, <2>1 DEF ManualPush
  <2>2. CASE alerts[manual.id].status = "closed"
    <3>1. PICK hit \in _should_notify_channel({manual.id}, "closed", policy.notice) :
            \E ok \in Accepted(hit) :
              /\ Push("closed", ok)
              /\ manual' = [manual EXCEPT !.pc = "mark",
                                          !.n = [Notify({manual.id}, "closed") EXCEPT !.hit = hit, !.ok = ok]]
      BY <1>8, <2>2 DEF ManualPush
    <3>2. PICK ok \in Accepted(hit) :
              /\ Push("closed", ok)
              /\ manual' = [manual EXCEPT !.pc = "mark",
                                          !.n = [Notify({manual.id}, "closed") EXCEPT !.hit = hit, !.ok = ok]]
      BY <3>1
    <3>3. manual'.pc = "mark" /\ manual'.n = [Notify({manual.id}, "closed") EXCEPT !.hit = hit, !.ok = ok]
      BY <1>0, <3>2 DEF ManualState
    <3>4. manual'.n.ids = {manual.id} /\ manual'.n.hit = hit /\ manual'.n.ok = ok
      BY <3>3 DEF Notify
    <3>5. ok \subseteq heard'
      BY <3>2 DEF Push
    <3>6. Center /\ ~muted' => hit = {manual.id}
      <4>1. ~muted' => policy.notice = TRUE
        BY <1>0, <1>1 DEF HonestInv, NoticeOn
      <4> QED
        BY <4>1, AllAreHit
    <3> QED
      BY <3>3, <3>4, <3>5, <3>6 DEF ManualMarks, ManualCopies
  <2> QED
    BY <2>1, <2>2
<1>9. UNCHANGED manual \/ ManualRead \/ ManualSave \/ ManualPush \/ ManualMark \/ ManualKilled
  BY DEF Next, vars, ScanStart, ScanStep, ScanDetect, ScanCount, ScanRecover, ScanCreate, ScanPush, ScanMark,
         ScanEnds, ScanFails, ScanKilled, ManualStep, EditPolicy, ViewReads, ViewCommits, CompStep, CompReads,
         CompPush, CompMark, CompKilled
<1> QED
  BY <1>2, <1>5, <1>6, <1>7, <1>8, <1>9

LEMMA CompMarksStep == HonestInv /\ [Next]_vars => CompMarks'
<1> SUFFICES ASSUME HonestInv, [Next]_vars PROVE CompMarks'
  OBVIOUS
<1>0. TypeInv /\ comp \in CompState
  BY DEF HonestInv, TypeInv, TypeOK, CompState
<1>1. CASE UNCHANGED comp
  BY <1>0, <1>1, Grows DEF HonestInv, CompMarks
<1>2. CASE CompReads \/ CompMark \/ CompKilled
  <2>1. comp'.pc # "mark"
    <3>1. CompIdle \in CompState /\ CompIdle.pc = "idle"
      BY IdleTyped DEF CompIdle
    <3>2. CASE CompReads
      <4>1. comp' = [pc |-> "push", ids |-> ToRetry, ok |-> {}]
        BY <3>2 DEF CompReads
      <4> QED
        BY <4>1
    <3>3. CASE CompMark
      BY <3>1, <3>3 DEF CompMark
    <3>4. CASE CompKilled
      <4>1. comp' = [CompIdle EXCEPT !.pc = "lost"]
        BY <3>4 DEF CompKilled
      <4> QED
        BY <3>1, <4>1 DEF CompState
    <3> QED
      BY <1>2, <3>2, <3>3, <3>4
  <2> QED
    BY <2>1 DEF CompMarks
<1>3. CASE CompPush
  <2>1. PICK ok \in Accepted(comp.ids) : comp' = [comp EXCEPT !.pc = "mark", !.ok = ok] /\ Push("closed", ok)
    BY <1>3 DEF CompPush
  <2>2. comp'.ok = ok /\ ok \subseteq heard'
    BY <1>0, <2>1 DEF CompState, Push
  <2> QED
    BY <2>2 DEF CompMarks
<1>4. UNCHANGED comp \/ CompReads \/ CompPush \/ CompMark \/ CompKilled
  BY DEF Next, vars, ScanStart, ScanStep, ScanDetect, ScanCount, ScanRecover, ScanCreate, ScanPush, ScanMark,
         ScanEnds, ScanFails, ScanKilled, ManualRead, ManualStep, ManualSave, ManualPush, ManualMark, ManualKilled,
         EditPolicy, ViewReads, ViewCommits, CompStep
<1> QED
  BY <1>1, <1>2, <1>3, <1>4

LEMMA HonestInvIsInvariant == Spec => []HonestInv
<1>1. HonestInv /\ [Next]_vars => HonestInv'
  BY NextTyped, FlagStep, ScanMarksStep, ManualMarksStep, CompMarksStep DEF HonestInv
<1> QED
  BY InitHonest, <1>1, PTL DEF Spec

\* The flag alert_center_notified is never set on an alert whose end the alert
\* center has not heard of (unless it is not to hear of it, or the late mark
\* of the start sets it), so the compensation task may trust it.
THEOREM FlagIsAlwaysHonest == Spec => []FlagIsHonest
<1>1. HonestInv => FlagIsHonest
  BY DEF HonestInv
<1> QED
  BY HonestInvIsInvariant, <1>1, PTL

-----------------------------------------------------------------------------
(* The end of an alert                                                      *)

\* An alert that has ended stays ended, but for one step: a scan's old copy of
\* the active alerts creates only rows that were free, a late close writes
\* "closed", and a request that does not close, and it alone, can write "new",
\* when it read the row while the alert was active.
THEOREM EndIsFinal == Spec => EndedStaysEnded
<1>1. ASSUME HonestInv, [Next]_vars, NEW i \in Id, alerts[i].status \in Ended
      PROVE  \/ alerts'[i].status \in Ended
             \/ manual.pc = "save" /\ ~manual.closes /\ manual.id = i /\ manual.copy.status = "new"
  <2>1. CASE ManualSave /\ ~manual.closes /\ manual.id = i /\ alerts'[i] = manual.copy
    <3>1. manual.pc = "save" /\ manual.copy.status # "none"
      BY <1>1, <2>1 DEF ManualSave, HonestInv, ManualCopies
    <3>2. manual.copy.status \in {"none", "new"} \cup Ended
      BY <1>1 DEF HonestInv, TypeInv, TypeOK, Alert
    <3> QED
      BY <2>1, <3>1, <3>2
  <2>2. CASE ~(ManualSave /\ ~manual.closes /\ manual.id = i /\ alerts'[i] = manual.copy)
    BY <1>1, <2>2, RowStep DEF HonestInv, Ended, Free
  <2> QED
    BY <2>1, <2>2
<1>2. HonestInv /\ [Next]_vars =>
        [\A i \in Id : alerts[i].status \in Ended =>
            \/ alerts'[i].status \in Ended
            \/ manual.pc = "save" /\ ~manual.closes /\ manual.id = i /\ manual.copy.status = "new"]_vars
  BY <1>1
<1> QED
  BY HonestInvIsInvariant, <1>2, PTL DEF Spec, EndedStaysEnded
=============================================================================
