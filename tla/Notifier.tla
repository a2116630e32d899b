----------------------------- MODULE Notifier -----------------------------
(***************************************************************************)
(* What happens to an alert after Pipeline.Process has started a goroutine *)
(* for it (internal/pipeline/pipeline.go, step 9): MultiNotifier calls the *)
(* Slack, e-mail and SMS notifiers one after another                       *)
(* (internal/integrations, internal/webhooks), all under one context that  *)
(* has a deadline and is cancelled when the fan-out returns.  Slack posts  *)
(* before it returns; e-mail and SMS start goroutines of their own, and    *)
(* only the SMS one still uses the context.                                *)
(*                                                                         *)
(* Any subset of the three may be configured.  Slack, SMTP and Twilio may  *)
(* refuse, or never answer.  Alerts do not interact.                       *)
(***************************************************************************)
EXTENDS Integers, Sequences, SequencesExt

CONSTANTS Alerts,    \* goroutines started by step 9
          Numbers    \* phone numbers of ALERT_SMS_TO, in order

ASSUME NumbersAssumption == Numbers \in Seq(ToSet(Numbers))

VARIABLES configured,  \* the notifiers that have their environment variables
          severity,    \* alert -> severity of its transaction
          stage,       \* alert -> where the fan-out is
          ctx,         \* alert -> its context
          slack,       \* alert -> what became of the post
          mail,        \* alert -> what became of the mail
          next,        \* alert -> index of the number the SMS goroutine is at, 0: none started
          sending,     \* alert -> a request to Twilio is under way
          texted,      \* alert -> numbers Twilio accepted the message for
          refused      \* alert -> numbers it refused, or could not be reached for

vars == <<configured, severity, stage, ctx, slack, mail, next, sending, texted, refused>>

Channels == {"slack", "email", "sms"}
FlaggedSeverities == {"medium", "high", "critical"}
Severe(a) == severity[a] \in {"high", "critical"}

\* Whom the fan-out has to reach.
Posts(a) == "slack" \in configured /\ Severe(a)
Mails(a) == "email" \in configured /\ Severe(a)
Texts(a) == "sms" \in configured /\ severity[a] = "critical"

-----------------------------------------------------------------------------
Start(a, s) ==
    /\ stage[a] = "idle"
    /\ severity' = [severity EXCEPT ![a] = s]
    /\ stage' = [stage EXCEPT ![a] = "slack"]
    /\ UNCHANGED <<configured, ctx, slack, mail, next, sending, texted, refused>>

\* A fault: the timer only logs.
DeadlineIgnored(a) ==
    /\ stage[a] \notin {"idle", "done"}
    /\ ctx[a] = "open"
    /\ UNCHANGED vars

\* notifyTimeout passes.  Nothing looks at the context while nothing is awaited.
Deadline(a) ==
    /\ stage[a] \notin {"idle", "done"}
    /\ ctx[a] = "open"
    /\ ctx' = [ctx EXCEPT ![a] = "expired"]
    /\ UNCHANGED <<configured, severity, stage, slack, mail, next, sending, texted, refused>>

SlackSkips(a) ==
    /\ stage[a] = "slack"
    /\ ~Posts(a)
    /\ stage' = [stage EXCEPT ![a] = "email"]
    /\ UNCHANGED <<configured, severity, ctx, slack, mail, next, sending, texted, refused>>

\* Slack answers, one way or the other, in time.
SlackAnswers(a, how) ==
    /\ stage[a] = "slack"
    /\ Posts(a)
    /\ ctx[a] = "open"
    /\ slack' = [slack EXCEPT ![a] = how]
    /\ stage' = [stage EXCEPT ![a] = "email"]
    /\ UNCHANGED <<configured, severity, ctx, mail, next, sending, texted, refused>>

\* A fault: MultiNotifier returns the first error.
SlackTimesOutReturns(a) ==
    /\ stage[a] = "slack"
    /\ Posts(a)
    /\ ctx[a] = "expired"
    /\ slack' = [slack EXCEPT ![a] = "failed"]
    /\ stage' = [stage EXCEPT ![a] = "done"]
    /\ UNCHANGED <<configured, severity, ctx, mail, next, sending, texted, refused>>

\* It did not answer in time; MultiNotifier logs the error and goes on.
SlackTimesOut(a) ==
    /\ stage[a] = "slack"
    /\ Posts(a)
    /\ ctx[a] = "expired"
    /\ slack' = [slack EXCEPT ![a] = "failed"]
    /\ stage' = [stage EXCEPT ![a] = "email"]
    /\ UNCHANGED <<configured, severity, ctx, mail, next, sending, texted, refused>>

StartMail(a) ==
    /\ stage[a] = "email"
    /\ mail' = [mail EXCEPT ![a] = IF Mails(a) THEN "sending" ELSE @]
    /\ stage' = [stage EXCEPT ![a] = "sms"]
    /\ UNCHANGED <<configured, severity, ctx, slack, next, sending, texted, refused>>

\* The mail goroutine; smtp.SendMail knows no context and no deadline.
MailEnds(a, how) ==
    /\ mail[a] = "sending"
    /\ mail' = [mail EXCEPT ![a] = how]
    /\ UNCHANGED <<configured, severity, stage, ctx, slack, next, sending, texted, refused>>

StartTexts(a) ==
    /\ stage[a] = "sms"
    /\ next' = [next EXCEPT ![a] = IF Texts(a) THEN 1 ELSE @]
    /\ stage' = [stage EXCEPT ![a] = "return"]
    /\ UNCHANGED <<configured, severity, ctx, slack, mail, sending, texted, refused>>

\* The fan-out returns and the deferred cancel() runs.
Return(a) ==
    /\ stage[a] = "return"
    /\ stage' = [stage EXCEPT ![a] = "done"]
    /\ ctx' = [ctx EXCEPT ![a] = IF @ = "open" THEN "cancelled" ELSE @]
    /\ UNCHANGED <<configured, severity, slack, mail, next, sending, texted, refused>>

-----------------------------------------------------------------------------
(* The SMS goroutine, number after number. *)
Texting(a) == next[a] \in 1..Len(Numbers)

\* A request under a context that is over fails before it is sent.
TextBegins(a) ==
    /\ Texting(a) /\ ~sending[a]
    /\ IF ctx[a] = "open"
       THEN sending' = [sending EXCEPT ![a] = TRUE] /\ UNCHANGED next
       ELSE next' = [next EXCEPT ![a] = @ + 1] /\ UNCHANGED sending
    /\ UNCHANGED <<configured, severity, stage, ctx, slack, mail, texted, refused>>

\* Twilio accepts, or refuses, or the context ends first: the request may or
\* may not have arrived by then.  An error is logged and the loop goes on.
TextEnds(a) ==
    /\ Texting(a) /\ sending[a]
    /\ sending' = [sending EXCEPT ![a] = FALSE]
    /\ next' = [next EXCEPT ![a] = @ + 1]
    /\ \/ texted' = [texted EXCEPT ![a] = @ \cup {Numbers[next[a]]}] /\ UNCHANGED refused
       \/ ctx[a] = "open" /\ refused' = [refused EXCEPT ![a] = @ \cup {Numbers[next[a]]}]
          /\ UNCHANGED texted
       \/ ctx[a] # "open" /\ UNCHANGED <<texted, refused>>
    /\ UNCHANGED <<configured, severity, stage, ctx, slack, mail>>

-----------------------------------------------------------------------------
Init ==
    /\ configured \in SUBSET Channels
    /\ severity = [a \in Alerts |-> "medium"]
    /\ stage = [a \in Alerts |-> "idle"]
    /\ ctx = [a \in Alerts |-> "open"]
    /\ slack = [a \in Alerts |-> "none"]
    /\ mail = [a \in Alerts |-> "none"]
    /\ next = [a \in Alerts |-> 0]
    /\ sending = [a \in Alerts |-> FALSE]
    /\ texted = [a \in Alerts |-> {}]
    /\ refused = [a \in Alerts |-> {}]

\* What a goroutine does without waiting for anyone outside.
FanOut(a) == SlackSkips(a) \/ SlackTimesOut(a) \/ StartMail(a) \/ StartTexts(a) \/ Return(a)

Next ==
    \E a \in Alerts :
        \/ \E s \in FlaggedSeverities : Start(a, s)
        \/ \E how \in {"sent", "failed"} : SlackAnswers(a, how) \/ MailEnds(a, how)
        \/ Deadline(a) \/ FanOut(a) \/ TextBegins(a) \/ TextEnds(a)

Spec == Init /\ [][Next]_vars

\* Goroutines are scheduled and time passes; Slack and the mail server need not
\* answer.  A request to Twilio ends at the latest when its context does, or by
\* the client's own timeout of ten seconds.
Fairness ==
    \A a \in Alerts :
        /\ WF_vars(Deadline(a)) /\ WF_vars(FanOut(a))
        /\ WF_vars(TextBegins(a)) /\ WF_vars(TextEnds(a))

FairSpec == Spec /\ Fairness

-----------------------------------------------------------------------------
\* The shape of the state; a request to Twilio belongs to a number still in turn.
NotifierTypeOK ==
    /\ configured \subseteq Channels
    /\ severity \in [Alerts -> FlaggedSeverities]
    /\ stage \in [Alerts -> {"idle", "slack", "email", "sms", "return", "done"}]
    /\ ctx \in [Alerts -> {"open", "expired", "cancelled"}]
    /\ slack \in [Alerts -> {"none", "sent", "failed"}]
    /\ mail \in [Alerts -> {"none", "sending", "sent", "failed"}]
    /\ next \in [Alerts -> 0..(Len(Numbers) + 1)]
    /\ sending \in [Alerts -> BOOLEAN]
    /\ texted \in [Alerts -> SUBSET ToSet(Numbers)]
    /\ refused \in [Alerts -> SUBSET ToSet(Numbers)]
    /\ \A a \in Alerts : sending[a] => Texting(a)

\* MultiNotifier: "Errors are logged but don't block".  Whatever Slack did, and
\* however late, a fan-out that is over has handed the alert to every other
\* channel its severity calls for.
ErrorsDoNotBlock ==
    \A a \in Alerts : stage[a] = "done" =>
        /\ Posts(a) => slack[a] # "none"
        /\ Mails(a) => mail[a] # "none"
        /\ Texts(a) => next[a] > 0

\* notifyTimeout exists so that "a misbehaving webhook endpoint can't leak
\* goroutines": every fan-out that starts ends, also when Slack never answers,
\* and so does every SMS goroutine.
NotifyEnds == \A a \in Alerts : stage[a] # "idle" ~> stage[a] = "done" /\ ~Texting(a)

\* SMSNotifier "sends SMS alerts about a flagged transaction (critical severity
\* only)": when the SMS goroutine is through its numbers, and the deadline has
\* not passed, each was texted or refused.  The code cancels the context the
\* goroutine uses as soon as the fan-out returns.
CriticalIsTexted ==
    \A a \in Alerts : (next[a] > Len(Numbers) /\ ctx[a] # "expired") =>
        texted[a] \cup refused[a] = ToSet(Numbers)
=============================================================================
