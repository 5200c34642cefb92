------------------------------ MODULE PushDispatch ------------------------------
(* dispatchPushes: a tick every ten seconds tells the recipient's devices of   *)
(* each new row, once, or retires a row that has become stale.  Ticks overlap;  *)
(* each is shown with one of its workers, which take the rows one by one.       *)
EXTENDS NotificationRows

CONSTANTS Pushers,      \* ticks
          Devices,
          Stale,        \* how old a row no longer is pushed
          ClaimDeadline \* how long a tick goes on to take up rows

ASSUME StaleAssumption == Stale \in Nat \ {0} /\ ClaimDeadline \in Nat \ {0}

VARIABLES pusher,     \* what each tick is doing
          devices,    \* the account's subscriptions
          pushes      \* how often each device was sent each row

pushVars == <<pusher, devices, pushes>>

NoPusher == [step |-> "idle", at |-> 0, todo |-> {}, picked |-> {}, taken |-> {}, left |-> {}]

PushersOK ==
    /\ pusher \in [Pushers -> [step : {"idle", "retired", "claim", "picked", "resolve", "send"},
                               at : 0..MaxNow, todo : SUBSET Notices, picked : SUBSET Notices,
                               taken : SUBSET Notices, left : SUBSET Devices]]
    /\ devices \subseteq Devices
PushOK == PushersOK /\ pushes \in [Notices -> [Devices -> 0..1]]

PushInit ==
    /\ pusher = [p \in Pushers |-> NoPusher]
    /\ devices = Devices
    /\ pushes = [n \in Notices |-> [d \in Devices |-> 0]]

StaleAt(n, at) == row[n].made <= at - Stale
Unhandled == {n \in Stored : ~row[n].pushHandled}
Handle(S) == row' = [n \in Notices |-> IF n \in S THEN [row[n] EXCEPT !.pushHandled = TRUE] ELSE row[n]]

\* The tick's instant is read once; what is stale then is retired unsent.
RetireStale(p) ==
    /\ pusher[p].step = "idle"
    /\ pusher' = [pusher EXCEPT ![p].step = "retired", ![p].at = now]
    /\ Handle({n \in Unhandled : StaleAt(n, now)})
    /\ UNCHANGED <<now, account, content, devices, pushes>>

ReadCandidates(p) ==
    /\ pusher[p].step = "retired"
    /\ pusher' = [pusher EXCEPT ![p].step = "claim",
                                ![p].todo = {n \in Unhandled : ~StaleAt(n, pusher[p].at)}]
    /\ UNCHANGED <<rowVars, devices, pushes>>

\* Fault: rows are taken up for as long as there are any.
DeadlinePassedNever(p) == FALSE
DeadlinePassed(p) == now >= pusher[p].at + ClaimDeadline

\* The deadline is looked at before a row is taken up, and not again: the claim may
\* wait for its connection or its row.
TakeUp(p) ==
    /\ pusher[p].step = "claim" /\ ~DeadlinePassed(p)
    /\ \E n \in pusher[p].todo :
          pusher' = [pusher EXCEPT ![p].step = "picked", ![p].picked = {n}, ![p].todo = @ \ {n}]
    /\ UNCHANGED <<rowVars, devices, pushes>>

\* Fault: whoever read the row sends it.
ClaimablePushByAll(n) == n \in Stored
ClaimablePush(n) == n \in Unhandled
ClaimPush(p) ==
    /\ pusher[p].step = "picked"
    /\ LET claimed == {n \in pusher[p].picked : ClaimablePush(n)} IN
          /\ Handle(claimed)
          /\ pusher' = [pusher EXCEPT ![p].step = IF claimed = {} THEN "claim" ELSE "resolve",
                                      ![p].picked = {}, ![p].taken = claimed]
    /\ UNCHANGED <<now, account, content, devices, pushes>>

\* resolveRecipient, shouldPush and the devices, read after the claim.
Resolve(p) ==
    /\ pusher[p].step = "resolve"
    /\ LET wanted == \A n \in pusher[p].taken : WantsPush(row[n].kind) IN
       pusher' = [pusher EXCEPT ![p].step = "send", ![p].left = IF wanted THEN devices ELSE {}]
    /\ UNCHANGED <<rowVars, devices, pushes>>

\* One send to each device: delivered, failed and not retried, or the device is
\* gone for good and its row with it.
SendPush(p) ==
    /\ pusher[p].step = "send"
    /\ \E d \in pusher[p].left, n \in pusher[p].taken :
          /\ pusher' = [pusher EXCEPT ![p].left = @ \ {d}]
          /\ \/ pushes' = [pushes EXCEPT ![n][d] = @ + 1] /\ UNCHANGED devices
             \/ devices' = devices \ {d} /\ UNCHANGED pushes
             \/ UNCHANGED <<devices, pushes>>
    /\ UNCHANGED rowVars

Sent(p) ==
    /\ pusher[p].step = "send" /\ pusher[p].left = {}
    /\ pusher' = [pusher EXCEPT ![p].step = "claim", ![p].taken = {}]
    /\ UNCHANGED <<rowVars, devices, pushes>>

EndTick(p) ==
    /\ pusher[p].step = "claim" /\ (pusher[p].todo = {} \/ DeadlinePassed(p))
    /\ pusher' = [pusher EXCEPT ![p] = NoPusher]
    /\ UNCHANGED <<rowVars, devices, pushes>>

\* A call throws or the process stops: what was claimed is not given back.
StopPushing(p) ==
    /\ pusher[p].step # "idle"
    /\ pusher' = [pusher EXCEPT ![p] = NoPusher]
    /\ UNCHANGED <<rowVars, devices, pushes>>

\* savePushSubscription, for who is signed in; and removePushSubscription, or the
\* device is saved for another account.
Subscribe ==
    /\ ~account.erased
    /\ \E d \in Devices \ devices : devices' = devices \cup {d}
    /\ UNCHANGED <<rowVars, pusher, pushes>>
Unsubscribe ==
    /\ \E d \in devices : devices' = devices \ {d}
    /\ UNCHANGED <<rowVars, pusher, pushes>>

PushStep ==
    \/ \E p \in Pushers : \/ RetireStale(p) \/ ReadCandidates(p) \/ TakeUp(p) \/ ClaimPush(p)
                          \/ Resolve(p) \/ SendPush(p) \/ Sent(p) \/ EndTick(p) \/ StopPushing(p)
    \/ Subscribe \/ Unsubscribe
================================================================================
