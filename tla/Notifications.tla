---------------------------- MODULE Notifications ---------------------------
(***************************************************************************)
(* NotificationRouter of core/notifications/service.py: one event at a     *)
(* time is handed to every channel, one after the other.  A channel        *)
(* answers TRUE, answers FALSE or raises; what the Slack, mail and         *)
(* PagerDuty channels make of an event is wording.                         *)
(***************************************************************************)
EXTENDS Severities, Sequences, Functions

CONSTANTS
  Channels,      \* the sequence of channels
  ClassOf,       \* the class name of each: the key of its result
  MinSeverity    \* min_severity, which may be any string

ASSUME NotificationsAssumption == Channels \in Seq(DOMAIN ClassOf)

VARIABLES
  event,     \* the severity of the event being dispatched, or of the last one
  next,      \* the position of the channel to try next
  sent,      \* history variable: what each channel answered, in order
  results    \* the dictionary dispatch returns

routerVars == <<event, next, sent, results>>

-----------------------------------------------------------------------------
\* The router's own order has no INFO: what it does not know it dispatches.
Known == {"LOW", "MEDIUM", "HIGH", "CRITICAL"}

ShouldDispatch(severity) ==
  severity \in Known /\ MinSeverity \in Known =>
    SEVERITY_ORDER[severity] <= SEVERITY_ORDER[MinSeverity]

Resting == next > Len(Channels)

RouterInit ==
  /\ event = ""
  /\ next = Len(Channels) + 1
  /\ sent = <<>>
  /\ results = <<>>

\* dispatch is called; severity "" stands for a run that has no event.
Dispatch(severity) ==
  /\ Resting
  /\ event' = severity
  /\ next' = IF severity # "" /\ ShouldDispatch(severity) THEN 1 ELSE Len(Channels) + 1
  /\ sent' = <<>>
  /\ results' = <<>>

\* Fault: what a channel raises ends the loop.
NextUnlessRaised(outcome) ==
  IF outcome = "raised" THEN Len(Channels) + 1 ELSE next + 1

NextChannel(outcome) == next + 1

\* Fault: each channel has a result of its own.
ResultKeyByChannel(channel) == channel

ResultKey(channel) == ClassOf[channel]

Send(outcome) ==
  LET channel == Channels[next]
      key == ResultKey(channel)
  IN  /\ ~Resting
      /\ sent' = Append(sent, [channel |-> channel, severity |-> event, outcome |-> outcome])
      /\ results' = [k \in DOMAIN results \cup {key} |->
                       IF k = key THEN outcome = "ok" ELSE results[k]]
      /\ next' = NextChannel(outcome)
      /\ UNCHANGED event

RouterStep == \E outcome \in {"ok", "refused", "raised"} : Send(outcome)

-----------------------------------------------------------------------------
RouterTypeOK ==
  /\ event \in Severity \cup {""}
  /\ next \in 1..(Len(Channels) + 1)
  /\ DOMAIN results \subseteq {ClassOf[Channels[i]] : i \in DOMAIN Channels}
  /\ \A k \in DOMAIN results : results[k] \in BOOLEAN
=============================================================================
