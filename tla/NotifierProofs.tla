--------------------------- MODULE NotifierProofs ---------------------------
(***************************************************************************)
(* The safety of the fan-out, for any number of alerts and phone numbers.  *)
(* The alert is handed to the channels in a fixed order, so what is done   *)
(* for the channels that were passed is an invariant of each stage.        *)
(***************************************************************************)
EXTENDS Notifier, TLAPS

\* An index of the list of numbers names a number of it.
LEMMA NumberOfIndex ==
    ASSUME NEW n \in 1..Len(Numbers)
    PROVE  Numbers[n] \in ToSet(Numbers)
<1>1. Numbers \in Seq(ToSet(Numbers))
  BY NumbersAssumption
<1>2. DOMAIN Numbers = 1..Len(Numbers)
  BY <1>1
<1> QED
  BY <1>1, <1>2

\* What was done for the channels that the fan-out has passed.
Passed(a) ==
    /\ stage[a] \in {"email", "sms", "return", "done"} => (Posts(a) => slack[a] # "none")
    /\ stage[a] \in {"sms", "return", "done"} => (Mails(a) => mail[a] # "none")
    /\ stage[a] \in {"return", "done"} => (Texts(a) => next[a] > 0)

NotifierInv == NotifierTypeOK /\ \A a \in Alerts : Passed(a)

\* At first no fan-out has passed anything.
LEMMA NotifierInit == Init => NotifierInv
<1> SUFFICES ASSUME Init PROVE NotifierInv
  OBVIOUS
<1>1. Len(Numbers) \in Nat
  BY NumbersAssumption
<1>2. NotifierTypeOK
  BY <1>1 DEF Init, NotifierTypeOK, Channels, FlaggedSeverities, Texting
<1>3. \A a \in Alerts : Passed(a)
  BY DEF Init, Passed
<1> QED
  BY <1>2, <1>3 DEF NotifierInv

\* A step of one alert keeps the shape of the state.
LEMMA NotifierTypeStep ==
    ASSUME NotifierTypeOK, Next
    PROVE  NotifierTypeOK'
<1> USE DEF NotifierTypeOK, Texting
<1>0. Len(Numbers) \in Nat
  BY NumbersAssumption
<1> PICK a \in Alerts :
        \/ \E s \in FlaggedSeverities : Start(a, s)
        \/ \E how \in {"sent", "failed"} : SlackAnswers(a, how) \/ MailEnds(a, how)
        \/ Deadline(a) \/ FanOut(a) \/ TextBegins(a) \/ TextEnds(a)
  BY DEF Next
<1>1. ASSUME NEW s \in FlaggedSeverities, Start(a, s) PROVE NotifierTypeOK'
  BY <1>1 DEF Start
<1>2. ASSUME NEW how \in {"sent", "failed"}, SlackAnswers(a, how) PROVE NotifierTypeOK'
  BY <1>2 DEF SlackAnswers
<1>3. ASSUME NEW how \in {"sent", "failed"}, MailEnds(a, how) PROVE NotifierTypeOK'
  BY <1>3 DEF MailEnds
<1>4. CASE Deadline(a)
  BY <1>4 DEF Deadline
<1>5. CASE SlackSkips(a) \/ SlackTimesOut(a)
  BY <1>5 DEF SlackSkips, SlackTimesOut
<1>6. CASE StartMail(a)
  BY <1>6 DEF StartMail
<1>7. CASE StartTexts(a)
  <2>1. ASSUME NEW b \in Alerts, sending[b] PROVE next'[b] \in 1..Len(Numbers)
    <3>1. next[b] \in 1..Len(Numbers)
      BY <2>1
    <3>2. next' = [next EXCEPT ![a] = IF Texts(a) THEN 1 ELSE next[a]]
      BY <1>7 DEF StartTexts
    <3>3. 1 \in 1..Len(Numbers)
      BY <1>0, <3>1
    <3> QED
      BY <3>1, <3>2, <3>3
  <2>2. next' \in [Alerts -> 0..(Len(Numbers) + 1)]
    BY <1>0, <1>7 DEF StartTexts
  <2> QED
    BY <1>7, <2>1, <2>2 DEF StartTexts
<1>8. CASE Return(a)
  <2>1. ctx' \in [Alerts -> {"open", "expired", "cancelled"}]
    BY <1>8 DEF Return
  <2> QED
    BY <1>8, <2>1 DEF Return
<1>9. CASE TextBegins(a)
  <2>1. next[a] + 1 \in 0..(Len(Numbers) + 1) /\ next[a] \in 1..Len(Numbers) /\ ~sending[a]
    BY <1>0, <1>9 DEF TextBegins
  <2>2. CASE ctx[a] = "open"
    <3>1. /\ sending' = [sending EXCEPT ![a] = TRUE]
          /\ UNCHANGED <<configured, severity, stage, ctx, slack, mail, next, texted, refused>>
      BY <1>9, <2>2 DEF TextBegins
    <3> QED
      BY <2>1, <3>1
  <2>3. CASE ctx[a] # "open"
    <3>1. /\ next' = [next EXCEPT ![a] = next[a] + 1]
          /\ UNCHANGED <<configured, severity, stage, ctx, slack, mail, sending, texted, refused>>
      BY <1>9, <2>3 DEF TextBegins
    <3> QED
      BY <2>1, <3>1
  <2> QED
    BY <2>2, <2>3
<1>10. CASE TextEnds(a)
  <2>1. next[a] + 1 \in 0..(Len(Numbers) + 1) /\ next[a] \in 1..Len(Numbers)
    BY <1>0, <1>10 DEF TextEnds
  <2>2. Numbers[next[a]] \in ToSet(Numbers)
    BY <2>1, NumberOfIndex
  <2>3. texted' \in [Alerts -> SUBSET ToSet(Numbers)] /\ refused' \in [Alerts -> SUBSET ToSet(Numbers)]
    <3> DEFINE n == Numbers[next[a]]
    <3>1. \/ texted' = [texted EXCEPT ![a] = texted[a] \cup {n}] /\ refused' = refused
          \/ texted' = texted /\ refused' = [refused EXCEPT ![a] = refused[a] \cup {n}]
          \/ texted' = texted /\ refused' = refused
      BY <1>10 DEF TextEnds
    <3>2. n \in ToSet(Numbers)
      BY <2>2
    <3>3. /\ texted \in [Alerts -> SUBSET ToSet(Numbers)]
          /\ refused \in [Alerts -> SUBSET ToSet(Numbers)]
      OBVIOUS
    <3>4. /\ texted[a] \cup {n} \in SUBSET ToSet(Numbers)
          /\ refused[a] \cup {n} \in SUBSET ToSet(Numbers)
      BY <3>2, <3>3
    <3> HIDE DEF n, NotifierTypeOK
    <3> QED
      BY <3>1, <3>3, <3>4
  <2>4. /\ sending' = [sending EXCEPT ![a] = FALSE]
        /\ next' = [next EXCEPT ![a] = next[a] + 1]
        /\ UNCHANGED <<configured, severity, stage, ctx, slack, mail>>
    BY <1>10 DEF TextEnds
  <2>5. next' \in [Alerts -> 0..(Len(Numbers) + 1)] /\ sending' \in [Alerts -> BOOLEAN]
    BY <2>1, <2>4
  <2>6. ASSUME NEW b \in Alerts, sending'[b] PROVE next'[b] \in 1..Len(Numbers)
    <3>1. b # a /\ sending[b]
      BY <2>4, <2>6
    <3>2. next'[b] = next[b]
      BY <2>4, <3>1
    <3> QED
      BY <3>1, <3>2
  <2> QED
    BY <2>3, <2>4, <2>5, <2>6
<1> QED
  BY <1>1, <1>2, <1>3, <1>4, <1>5, <1>6, <1>7, <1>8, <1>9, <1>10 DEF FanOut

\* A step of one alert passes no channel without having done its part, and
\* leaves the other alerts alone.
LEMMA PassedStep ==
    ASSUME NotifierInv, Next
    PROVE  \A b \in Alerts : Passed(b)'
<1> USE DEF NotifierInv, NotifierTypeOK, Posts, Mails, Texts, Severe
<1> SUFFICES ASSUME NEW b \in Alerts PROVE Passed(b)'
  OBVIOUS
<1>0. Passed(b)
  OBVIOUS
<1> PICK a \in Alerts :
        \/ \E s \in FlaggedSeverities : Start(a, s)
        \/ \E how \in {"sent", "failed"} : SlackAnswers(a, how) \/ MailEnds(a, how)
        \/ Deadline(a) \/ FanOut(a) \/ TextBegins(a) \/ TextEnds(a)
  BY DEF Next
<1>1. ASSUME NEW s \in FlaggedSeverities, Start(a, s) PROVE Passed(b)'
  BY <1>0, <1>1 DEF Start, Passed
<1>2. ASSUME NEW how \in {"sent", "failed"}, SlackAnswers(a, how) PROVE Passed(b)'
  BY <1>0, <1>2 DEF SlackAnswers, Passed
<1>3. ASSUME NEW how \in {"sent", "failed"}, MailEnds(a, how) PROVE Passed(b)'
  BY <1>0, <1>3 DEF MailEnds, Passed
<1>4. CASE Deadline(a)
  BY <1>0, <1>4 DEF Deadline, Passed
<1>5. CASE SlackSkips(a)
  BY <1>0, <1>5 DEF SlackSkips, Passed
<1>6. CASE SlackTimesOut(a)
  BY <1>0, <1>6 DEF SlackTimesOut, Passed
<1>7. CASE StartMail(a)
  BY <1>0, <1>7 DEF StartMail, Passed
<1>8. CASE StartTexts(a)
  BY <1>0, <1>8 DEF StartTexts, Passed
<1>9. CASE Return(a)
  BY <1>0, <1>9 DEF Return, Passed
<1>10. CASE TextBegins(a)
  <2>1. next[a] \in Nat /\ next[a] > 0
    BY <1>10 DEF TextBegins, Texting
  <2>2. \/ next' = next
        \/ next' = [next EXCEPT ![a] = next[a] + 1]
    BY <1>10 DEF TextBegins
  <2>3. UNCHANGED <<configured, severity, stage, slack, mail>>
    BY <1>10 DEF TextBegins
  <2> QED
    BY <1>0, <2>1, <2>2, <2>3 DEF Passed
<1>11. CASE TextEnds(a)
  <2>1. next[a] \in Nat /\ next[a] > 0
    BY <1>11 DEF TextEnds, Texting
  <2>2. next' = [next EXCEPT ![a] = next[a] + 1]
    BY <1>11 DEF TextEnds
  <2>3. UNCHANGED <<configured, severity, stage, slack, mail>>
    BY <1>11 DEF TextEnds
  <2> QED
    BY <1>0, <2>1, <2>2, <2>3 DEF Passed
<1> QED
  BY <1>1, <1>2, <1>3, <1>4, <1>5, <1>6, <1>7, <1>8, <1>9, <1>10, <1>11 DEF FanOut

\* The invariant is inductive.
LEMMA NotifierStep == ASSUME NotifierInv, [Next]_vars PROVE NotifierInv'
<1>1. CASE UNCHANGED vars
  BY <1>1 DEF vars, NotifierInv, NotifierTypeOK, Texting, Passed, Posts, Mails, Texts, Severe
<1>2. CASE Next
  BY <1>2, NotifierTypeStep, PassedStep DEF NotifierInv
<1> QED
  BY <1>1, <1>2

\* The state of the fan-outs keeps its shape, and a request to Twilio is under
\* way only for a number of the list.
THEOREM NotifierTypeTheorem == Spec => []NotifierTypeOK
<1>1. NotifierInv => NotifierTypeOK
  BY DEF NotifierInv
<1> QED
  BY <1>1, NotifierInit, NotifierStep, PTL DEF Spec

\* Whatever became of the earlier channels, a fan-out that is over has handed
\* the alert to every channel its severity calls for.
THEOREM ErrorsDoNotBlockTheorem == Spec => []ErrorsDoNotBlock
<1>1. NotifierInv => ErrorsDoNotBlock
  BY DEF NotifierInv, Passed, ErrorsDoNotBlock
<1> QED
  BY <1>1, NotifierInit, NotifierStep, PTL DEF Spec
=============================================================================
