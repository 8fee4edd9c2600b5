---------------------------- MODULE Notifications ----------------------------
(***************************************************************************)
(* The two notifiers: the webhook of the environment (api/notify.go), which *)
(* sends each event from a goroutine of its own, a limited number at a     *)
(* time, and the rules of administrators (api/notifier_engine.go,          *)
(* api/notifier_email.go, api/notification_handlers.go,                    *)
(* db/notification.go), which are worked off one after the other by the    *)
(* goroutine that follows a report, under one deadline.                    *)
(*                                                                         *)
(* Channels differ in what they do with an answer: a webhook gives up on a *)
(* refusal, an email tries again, a log line cannot fail.                  *)
(***************************************************************************)
EXTENDS Naturals, Sequences, FiniteSets

CONSTANTS
    Hooks,       \* the events handed to the webhook
    Capacity,    \* BONGSU_WEBHOOK_MAX_CONCURRENT
    MaxAttempts, \* how often a delivery is tried
    RuleIds,     \* the rules, numbers in the order of their names
    Offers,      \* the rules administrators write
    Jobs,        \* the reports whose rules are evaluated
    MaxEdits     \* bound: how often rules are edited

ASSUME NotificationsAssumption == IsFiniteSet(Hooks)

VARIABLES
    hook,      \* the goroutine of each webhook event
    slots,     \* sem: the slots taken
    reports,   \* what onResult was told of each event
    rules,     \* the table notification_rules
    edit,      \* the rule an administrator has read and will write back
    job,       \* the goroutine of each report
    expired,   \* the jobs whose context has ended
    notes,     \* the table notification_log
    fired,     \* history: the (job, event, rule) that were tried
    received,  \* history: what the receivers have got
    edits      \* how many edits are left

hookVars == <<hook, slots, reports>>
ruleVars == <<rules, edit, job, expired, notes, fired, edits>>
notifyVars == <<hookVars, ruleVars, received>>

NoRule == [channel |-> "none"]
Rule == [enabled: BOOLEAN, event: {"scan.completed", "scan.failed", "sla.breach"},
         channel: {"webhook", "email", "log"}, filter: {"any", "severe"}]

Status == {"sent", "failed"}
Note == [job: Jobs, rule: RuleIds, status: Status]
NoRulesJob == [pc |-> "new", event |-> "scan.completed", todo |-> <<>>, attempt |-> 0,
          status |-> "failed"]

NotificationsTypeOK ==
    /\ hook \in [Hooks -> [pc: {"new", "post", "report", "release", "done"},
                           attempt: 0..MaxAttempts, status: {"ok", "failed", "dropped"}]]
    /\ slots \in 0..Capacity
    /\ reports \in [Hooks -> Seq({"ok", "failed", "dropped"})]
    /\ rules \in [RuleIds -> Rule \cup {NoRule}]
    /\ \A j \in Jobs :
          /\ job[j].pc \in {"new", "fetch", "next", "attempt", "record", "touch", "done"}
          /\ job[j].attempt \in 0..MaxAttempts /\ job[j].status \in Status
          /\ \A i \in DOMAIN job[j].todo : job[j].todo[i].rule \in Rule
    /\ expired \subseteq Jobs
    /\ notes \subseteq Note
    /\ edits \in 0..MaxEdits

InitNotifications ==
    /\ hook = [h \in Hooks |-> [pc |-> "new", attempt |-> 0, status |-> "failed"]]
    /\ slots = 0
    /\ reports = [h \in Hooks |-> <<>>]
    /\ rules \in [RuleIds -> Offers \cup {NoRule}]
    /\ edit = [id |-> 0]
    /\ job = [j \in Jobs |-> NoRulesJob]
    /\ expired = {}
    /\ notes = {}
    /\ fired = {}
    /\ received = {}
    /\ edits = MaxEdits

----------------------------------------------------------------------------
(* The webhook (webhookNotifier.Send).                                     *)

HookAt(h, pc, status) == hook' = [hook EXCEPT ![h].pc = pc, ![h].status = status]

\* A slot is free: a goroutine starts.
Send(h) ==
    /\ hook[h].pc = "new"
    /\ slots < Capacity
    /\ slots' = slots + 1
    /\ hook' = [hook EXCEPT ![h].pc = "post", ![h].attempt = 1]
    /\ UNCHANGED <<reports, ruleVars, received>>

\* Mutant: a dropped event is only logged.
SendDroppedSilently(h) ==
    /\ hook[h].pc = "new"
    /\ slots = Capacity
    /\ HookAt(h, "done", "dropped")
    /\ UNCHANGED <<slots, reports, ruleVars, received>>

\* "when full, new events are dropped (and reported)".
SendDropped(h) ==
    /\ hook[h].pc = "new"
    /\ slots = Capacity
    /\ HookAt(h, "done", "dropped")
    /\ reports' = [reports EXCEPT ![h] = Append(@, "dropped")]
    /\ UNCHANGED <<slots, ruleVars, received>>

\* Answered with a status of the 200s.
PostAccepted(h) ==
    /\ hook[h].pc = "post"
    /\ received' = received \cup {h}
    /\ HookAt(h, "report", "ok")
    /\ UNCHANGED <<slots, reports, ruleVars>>

\* Mutant: the loop falls through to the report of the last status.
PostUnansweredOk(h) ==
    /\ hook[h].pc = "post"
    /\ received' \in {received, received \cup {h}}
    /\ IF hook[h].attempt < MaxAttempts
       THEN hook' = [hook EXCEPT ![h].attempt = @ + 1]
       ELSE HookAt(h, "report", "ok")
    /\ UNCHANGED <<slots, reports, ruleVars>>

\* No answer, or one that asks to come back (retryWebhookStatus); without an
\* answer the receiver may have the event.
PostUnanswered(h) ==
    /\ hook[h].pc = "post"
    /\ received' \in {received, received \cup {h}}
    /\ IF hook[h].attempt < MaxAttempts
       THEN hook' = [hook EXCEPT ![h].attempt = @ + 1]
       ELSE HookAt(h, "report", "failed")
    /\ UNCHANGED <<slots, reports, ruleVars>>

\* Refused for good.
PostRefused(h) ==
    /\ hook[h].pc = "post"
    /\ HookAt(h, "report", "failed")
    /\ UNCHANGED <<slots, reports, ruleVars, received>>

\* onResult (auditWebhookResult) ...
Report(h) ==
    /\ hook[h].pc = "report"
    /\ reports' = [reports EXCEPT ![h] = Append(@, hook[h].status)]
    /\ HookAt(h, "release", hook[h].status)
    /\ UNCHANGED <<slots, ruleVars, received>>

\* ... and the deferred release of the slot.
Release(h) ==
    /\ hook[h].pc = "release"
    /\ slots' = slots - 1
    /\ HookAt(h, "done", hook[h].status)
    /\ UNCHANGED <<reports, ruleVars, received>>

----------------------------------------------------------------------------
(* The rules of administrators.                                            *)

Live == {r \in RuleIds : rules[r] # NoRule}

\* handleCreateNotificationRule.
CreateRule(r, rule) ==
    /\ edits > 0 /\ edits' = edits - 1
    /\ rules[r] = NoRule
    /\ rules' = [rules EXCEPT ![r] = rule]
    /\ UNCHANGED <<hookVars, edit, job, expired, notes, fired, received>>

\* handleUpdateNotificationRule reads the row, changes what the request names
\* and writes all of it back, also over what another request wrote meanwhile.
ReadRule(r) ==
    /\ edits > 0 /\ edits' = edits - 1
    /\ edit.id = 0
    /\ r \in Live
    /\ edit' = [id |-> r, enabled |-> ~rules[r].enabled, rule |-> rules[r]]
    /\ UNCHANGED <<hookVars, rules, job, expired, notes, fired, received>>

UpdateRule ==
    /\ edit.id # 0
    /\ rules' = IF edit.id \in Live
                THEN [rules EXCEPT ![edit.id] = [edit.rule EXCEPT !.enabled = edit.enabled]]
                ELSE rules
    /\ edit' = [id |-> 0]
    /\ UNCHANGED <<hookVars, job, expired, notes, fired, received, edits>>

\* handleDeleteNotificationRule; the rule's log goes with it.
DeleteRule(r) ==
    /\ edits > 0 /\ edits' = edits - 1
    /\ r \in Live
    /\ rules' = [rules EXCEPT ![r] = NoRule]
    /\ notes' = {n \in notes : n.rule # r}
    /\ UNCHANGED <<hookVars, edit, job, expired, fired, received>>

----------------------------------------------------------------------------
(* The goroutine after a report (handleReport, evaluateAndDispatch).       *)

PutJob(j, new) == job' = [job EXCEPT ![j] = new]
Rest(j) == job[j].todo

\* A condition the data say nothing of is met: only the data of scan.completed
\* count severities, and the scan counts none.
Matches(rule, event) == rule.filter = "any" \/ event # "scan.completed"

\* On to the event scan.failed, for a scan that failed, or done.
EventDone(j) ==
    PutJob(j, IF job[j].event = "scan.completed"
           THEN [job[j] EXCEPT !.pc = "fetch", !.event = "scan.failed", !.todo = <<>>]
           ELSE [job[j] EXCEPT !.pc = "done", !.todo = <<>>])

\* The report of a failed scan is ingested.
StartJob(j) ==
    /\ job[j].pc = "new"
    /\ PutJob(j, [NoRulesJob EXCEPT !.pc = "fetch"])
    /\ UNCHANGED <<hookVars, rules, edit, expired, notes, fired, received, edits>>

\* The 30 seconds of the context are over.
DeadlinePasses(j) ==
    /\ job[j].pc \notin {"new", "done"}
    /\ expired' = expired \cup {j}
    /\ UNCHANGED <<hookVars, rules, edit, job, notes, fired, received, edits>>

Due(event) == {r \in Live : /\ rules[r].enabled /\ rules[r].event = event
                            /\ Matches(rules[r], event)}

\* GetEnabledRulesForEvent, in the order of the names, and matchesConditions.
FetchRules(j) ==
    /\ job[j].pc = "fetch"
    /\ IF j \in expired \/ Due(job[j].event) = {}
       THEN EventDone(j)
       ELSE \E s \in [1..Cardinality(Due(job[j].event)) -> Due(job[j].event)] :
               /\ \A a, b \in DOMAIN s : a < b => s[a] < s[b]
               /\ PutJob(j, [job[j] EXCEPT !.pc = "next",
                             !.todo = [i \in DOMAIN s |-> [id |-> s[i], rule |-> rules[s[i]]]]])
    /\ UNCHANGED <<hookVars, rules, edit, expired, notes, fired, received, edits>>

Target(j) == Head(Rest(j)).id
Channel(j) == Head(Rest(j)).rule.channel

Finish(j, status) == [job[j] EXCEPT !.pc = "record", !.status = status]

\* dispatch takes up the next rule.
Dispatch(j) ==
    /\ job[j].pc = "next"
    /\ fired' = fired \cup {<<j, job[j].event, Target(j)>>}
    /\ PutJob(j, IF Channel(j) = "log" THEN Finish(j, "sent")
              ELSE [job[j] EXCEPT !.pc = "attempt", !.attempt = 1])
    /\ received' = IF Channel(j) = "log" THEN received \cup {<<j, Target(j)>>} ELSE received
    /\ UNCHANGED <<hookVars, rules, edit, expired, notes, edits>>

\* One attempt of sendWebhook or sendEmail is accepted.
Delivered(j) ==
    /\ job[j].pc = "attempt" /\ j \notin expired
    /\ received' = received \cup {<<j, Target(j)>>}
    /\ PutJob(j, Finish(j, "sent"))
    /\ UNCHANGED <<hookVars, rules, edit, expired, notes, fired, edits>>

\* It is not, or the context has ended: the next attempt, without a pause when
\* it has; a webhook refused for good is not tried again.
NotDelivered(j) ==
    /\ job[j].pc = "attempt"
    /\ PutJob(j, IF job[j].attempt < MaxAttempts
              THEN [job[j] EXCEPT !.attempt = @ + 1] ELSE Finish(j, "failed"))
    /\ UNCHANGED <<hookVars, rules, edit, expired, notes, fired, received, edits>>

Refused(j) ==
    /\ job[j].pc = "attempt" /\ Channel(j) = "webhook"
    /\ PutJob(j, Finish(j, "failed"))
    /\ UNCHANGED <<hookVars, rules, edit, expired, notes, fired, received, edits>>

\* RecordNotificationLog, which fails when the context has ended or the rule
\* is gone; TouchNotificationRuleTrigger changes nothing that is kept here.
RecordNotificationLog(j) ==
    /\ job[j].pc = "record"
    /\ notes' = IF j \in expired \/ Target(j) \notin Live THEN notes
                ELSE notes \cup {[job |-> j, rule |-> Target(j), status |-> job[j].status]}
    /\ IF Len(Rest(j)) = 1 THEN EventDone(j)
       ELSE PutJob(j, [job[j] EXCEPT !.pc = "next", !.todo = Tail(@)])
    /\ UNCHANGED <<hookVars, rules, edit, expired, fired, received, edits>>

----------------------------------------------------------------------------
HookStep(h) ==
    \/ Send(h) \/ SendDropped(h)
    \/ PostAccepted(h) \/ PostUnanswered(h) \/ PostRefused(h) \/ Report(h) \/ Release(h)

JobStep(j) ==
    \/ FetchRules(j) \/ Dispatch(j)
    \/ Delivered(j) \/ NotDelivered(j) \/ Refused(j) \/ RecordNotificationLog(j)

EditRules ==
    \/ \E r \in RuleIds : \E rule \in Offers : CreateRule(r, rule)
    \/ \E r \in RuleIds : ReadRule(r) \/ DeleteRule(r)
    \/ UpdateRule

NextNotifications ==
    \/ \E h \in Hooks : HookStep(h)
    \/ \E j \in Jobs : StartJob(j) \/ DeadlinePasses(j) \/ JobStep(j)
    \/ EditRules

\* A goroutine that was started goes on; every request has a timeout.
FairNotifications ==
    /\ \A h \in Hooks : WF_notifyVars(HookStep(h))
    /\ \A j \in Jobs : WF_notifyVars(JobStep(j))

NotificationsSpec ==
    InitNotifications /\ [][NextNotifications]_notifyVars /\ FairNotifications

----------------------------------------------------------------------------
(* Safety.                                                                 *)

\* "when full, new events are dropped (and reported)": whatever becomes of an
\* event, the audit hears of it once, nothing is called ok or sent that the
\* receiver has not got, and the goroutines under way hold the slots taken.
SentMeansReceived ==
    /\ \A h \in Hooks :
          /\ Len(reports[h]) = IF hook[h].pc \in {"release", "done"} THEN 1 ELSE 0
          /\ reports[h] = <<"ok">> => h \in received
    /\ slots = Cardinality({h \in Hooks : hook[h].pc \in {"post", "report", "release"}})
    /\ \A n \in notes : n.status = "sent" => <<n.job, n.rule>> \in received

(* Liveness.                                                               *)

\* The goroutine after a report comes to its end, however many receivers are
\* silent ...
JobsEnd == \A j \in Jobs : job[j].pc # "new" ~> job[j].pc = "done"

\* ... and so does every webhook: the audit is told what became of it.
HooksEnd == \A h \in Hooks : <>(reports[h] # <<>>)
=============================================================================
