--------------------------- MODULE AlertDelivery ---------------------------
(***************************************************************************)
(* Budget alerts of one organization: the routing policies, the operations *)
(* policy, the channels that can be toggled, and the evaluation at the end *)
(* of a scan, which reads the policies, sends, and records the event with  *)
(* the transaction of the scan.  Scans of several processes evaluate at    *)
(* the same time.                                                          *)
(***************************************************************************)
EXTENDS Integers, Sequences, FiniteSets

CONSTANTS
    Scanner,     \* worker processes that run scans
    Channel,     \* email, slack, teams
    Message,     \* texts: the amounts in them
    Critical,    \* the texts that are above the critical threshold
    Policies,    \* the operations policies that are tried
    HoursPerDay, \* 24
    MaxEvents,   \* bound: events recorded
    MaxChanges,  \* bound: policy changes
    MaxHour      \* bound: hours that pass

ASSUME DeliveryBounds ==
    /\ Critical \subseteq Message
    /\ Policies \subseteq [set : {TRUE}, min : {"low", "warning", "high", "critical"},
                           window : Nat, mute : BOOLEAN, from : Nat, to : Nat]
    /\ HoursPerDay \in Nat \ {0}
    /\ {MaxEvents, MaxChanges, MaxHour} \subseteq Nat

VARIABLES
    hour,     \* the wall clock
    route,    \* alert_routing_policies, by severity
    ops,      \* alert_ops_policies
    event,    \* alert_events of type budget_threshold
    eval,     \* the evaluation of each process
    changes,  \* bound: policy changes
    off       \* observed: channels toggled off and not named by a policy since

deliveryVars == <<hour, route, ops, event, eval, changes, off>>

Severity == {"warning", "critical"}

Hours == 0..(HoursPerDay - 1)

\* Severities as numbers; "medium" ranks with "warning".
Rank(s) == CASE s = "critical" -> 4 [] s = "high" -> 3 [] s = "warning" -> 2 [] OTHER -> 1

SeverityOf(m) == IF m \in Critical THEN "critical" ELSE "warning"

NoRoute == [set |-> FALSE, channels |-> Channel, active |-> FALSE]

\* Without a row there is no check at all.
NoOps == [set |-> FALSE, min |-> "low", window |-> 0, mute |-> FALSE, from |-> 0, to |-> 0]

NoEval == [pc |-> "idle"]

DeliveryInit ==
    /\ hour = 0
    /\ route = [s \in Severity |-> NoRoute]
    /\ ops = NoOps
    /\ event = <<>>
    /\ eval = [w \in Scanner |-> NoEval]
    /\ changes = 0
    /\ off = {}

-----------------------------------------------------------------------------
(* Policies.                                                               *)

Changed == changes < MaxChanges /\ changes' = changes + 1

\* An evaluation that has read the policies does not see the change.
Overtaken(c) ==
    [w \in Scanner |-> IF eval[w] = NoEval THEN NoEval
                       ELSE [eval[w] EXCEPT !.before = @ \cup (c \cap eval[w].left)]]

UpsertRoute(s, channels, active) ==
    /\ Changed
    /\ route' = [route EXCEPT ![s] = [set |-> TRUE, channels |-> channels, active |-> active]]
    /\ off' = off \ channels
    /\ UNCHANGED <<hour, ops, event, eval>>

\* A severity without a policy gets one with all channels first.
Toggled(s, c, on) ==
    [set |-> TRUE, active |-> IF route[s].set THEN route[s].active ELSE TRUE,
     channels |-> IF on THEN route[s].channels \cup {c} ELSE route[s].channels \ {c}]

Toggle(c, on) ==
    /\ Changed
    /\ route' = [s \in Severity |-> Toggled(s, c, on)]
    /\ off' = IF on THEN off \ {c} ELSE off \cup {c}
    /\ eval' = Overtaken({c})
    /\ UNCHANGED <<hour, ops, event>>

UpsertOps(policy) ==
    /\ Changed
    /\ ops' = policy
    /\ UNCHANGED <<hour, route, event, eval, off>>

InMuteWindow(from, to, h) ==
    \/ from < to /\ from <= h /\ h < to
    \/ from > to /\ (h >= from \/ h < to)

Muted(p, h) == p.mute /\ InMuteWindow(p.from, p.to, h % HoursPerDay)

-----------------------------------------------------------------------------
(* evaluate_budget_alert.                                                  *)

Repeated(m) == \E i \in DOMAIN event : event[i].msg = m /\ event[i].at >= hour - ops.window

\* Faulty variant of Passes: the repeat is looked for only while muting is on.
PassesUnmuted(m) ==
    ops.set =>
        /\ Rank(SeverityOf(m)) >= Rank(ops.min)
        /\ ~Muted(ops, hour)
        /\ ops.mute /\ ops.window > 0 => ~Repeated(m)

Passes(m) ==
    ops.set =>
        /\ Rank(SeverityOf(m)) >= Rank(ops.min)
        /\ ~Muted(ops, hour)
        /\ ops.window > 0 => ~Repeated(m)

\* An inactive policy is not found: all channels are used.
ChannelsFor(s) == IF route[s].active THEN route[s].channels ELSE Channel

Evaluate(w, m) ==
    /\ eval[w] = NoEval
    /\ Passes(m)
    /\ eval' = [eval EXCEPT ![w] =
                  [pc |-> "send", msg |-> m, left |-> ChannelsFor(SeverityOf(m)),
                   inactive |-> route[SeverityOf(m)].set /\ ~route[SeverityOf(m)].active, before |-> {},
                   read |-> hour, seen |-> Len(event),
                   window |-> IF ops.set THEN ops.window ELSE 0]]
    /\ UNCHANGED <<hour, route, ops, event, changes, off>>

\* A channel is tried if it is configured; its server may fail.
Send(w, c) ==
    /\ eval[w] # NoEval
    /\ c \in eval[w].left
    /\ eval' = [eval EXCEPT ![w].left = @ \ {c}]
    /\ UNCHANGED <<hour, route, ops, event, changes, off>>

Record(w) ==
    LET e == eval[w] IN
    /\ e # NoEval /\ e.left = {}
    /\ Len(event) < MaxEvents
    /\ event' = Append(event, [msg |-> e.msg, at |-> hour, read |-> e.read, seen |-> e.seen, window |-> e.window])
    /\ eval' = [eval EXCEPT ![w] = NoEval]
    /\ UNCHANGED <<hour, route, ops, changes, off>>

\* The commit of the scan fails, or its process dies: what was sent stays sent.
EvaluationLost(w) ==
    /\ eval[w] # NoEval
    /\ eval' = [eval EXCEPT ![w] = NoEval]
    /\ UNCHANGED <<hour, route, ops, event, changes, off>>

HourPasses ==
    /\ hour < MaxHour
    /\ hour' = hour + 1
    /\ UNCHANGED <<route, ops, event, eval, changes, off>>

DeliveryNext ==
    \/ \E s \in {SeverityOf(m) : m \in Message}, c \in SUBSET Channel, active \in BOOLEAN : UpsertRoute(s, c, active)
    \/ \E c \in Channel, on \in BOOLEAN : Toggle(c, on)
    \/ \E policy \in Policies : UpsertOps(policy)
    \/ \E w \in Scanner :
          \/ \E m \in Message : Evaluate(w, m)
          \/ \E c \in Channel : Send(w, c)
          \/ Record(w) \/ EvaluationLost(w)
    \/ HourPasses

DeliverySpec == DeliveryInit /\ [][DeliveryNext]_deliveryVars

-----------------------------------------------------------------------------
\* A mute window silences the hours from its start to its end, over midnight
\* too: those that follow the start by less than the end does.
MuteExact ==
    \A from, to \in Hours :
        Muted([mute |-> TRUE, from |-> from, to |-> to], hour)
            <=> (hour - from) % HoursPerDay < (to - from) % HoursPerDay

\* Within the window of the policy that an evaluation read, a text is recorded
\* twice only if the evaluation had read before the other was recorded.
RepeatsOverlap ==
    \A i, j \in DOMAIN event :
        /\ i < j /\ event[i].msg = event[j].msg
        /\ event[j].window > 0 /\ event[i].at >= event[j].read - event[j].window
        => event[j].seen < i

\* A channel that was toggled off gets no alert, unless the evaluation had read
\* the policies before, or the policy of its severity is inactive, which the
\* toggle does not change.
OffIsSilent ==
    [][\A w \in Scanner, c \in Channel :
         Send(w, c) => c \notin off \/ c \in eval[w].before \/ eval[w].inactive]_deliveryVars

\* Mute windows, dedupe windows and toggles of channels do what they are set to,
\* whatever scans of several processes evaluate at the same time.
AlertsDelivered ==
    /\ [](MuteExact /\ RepeatsOverlap)
    /\ OffIsSilent
=============================================================================
