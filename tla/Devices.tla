-------------------------------- MODULE Devices --------------------------------
(***************************************************************************)
(* Push subscriptions: one shared browser, the people who sign in on it,   *)
(* and the table the server would push from.                               *)
(*                                                                         *)
(* Turning notifications on is a conversation of the page with the browser *)
(* and the server, so somebody may sign out, the browser may rotate the    *)
(* subscription or a request may be lost between two of its steps.         *)
(* Delivery is left out: nothing in the server calls SendPush.             *)
(***************************************************************************)
EXTENDS Naturals, FiniteSets

CONSTANTS
    People,
    Endpoints,      \* the endpoints the push service hands out, each once
    VapidKeys,      \* the keys the deployment signs with over time
    NoEndpoint, Nobody

VARIABLES
    signedIn,       \* who the page is authenticated as
    permission,     \* Notification.permission
    setting,        \* the permission the settings panel last read
    subscription,   \* the browser's own: endpoint and the key it was minted under
    minted,         \* endpoints the push service has handed out
    vapid,          \* the key the server signs with
    devices,        \* push_subscriptions: owner by endpoint
    task,           \* enablePush by the tap and by the rotation, disablePush
    excused         \* ghost: endpoints whose row outlived them for a reason of its own

vars == <<signedIn, permission, setting, subscription, minted, vapid, devices, task,
          excused>>

NoSubscription == [endpoint |-> NoEndpoint, key |-> NoEndpoint]
Resting == [step |-> "none", by |-> Nobody, key |-> NoEndpoint, endpoint |-> NoEndpoint]

\* What may run at once: AppSettings has one busy flag, the rotation listener none.
Tasks == {"tap", "rotation"}

TypeOK ==
    /\ signedIn \in People \cup {Nobody}
    /\ permission \in {"default", "granted", "denied"}
    /\ setting \in {"default", "granted", "denied"}
    /\ subscription \in [endpoint : Endpoints \cup {NoEndpoint}, key : VapidKeys \cup {NoEndpoint}]
    /\ minted \subseteq Endpoints
    /\ vapid \in VapidKeys
    /\ devices \in [Endpoints -> People \cup {Nobody}]
    /\ task \in [Tasks -> [step : {"none", "key", "subscribe", "register", "forget", "drop"},
                           by : People \cup {Nobody}, key : VapidKeys \cup {NoEndpoint},
                           endpoint : Endpoints \cup {NoEndpoint}]]
    /\ excused \subseteq Endpoints

Init ==
    /\ signedIn = Nobody
    /\ permission = "default"
    /\ setting = "default"
    /\ subscription = NoSubscription
    /\ minted = {}
    /\ vapid \in VapidKeys
    /\ devices = [e \in Endpoints |-> Nobody]
    /\ task = [t \in Tasks |-> Resting]
    /\ excused = {}

Rest(t) == task' = [task EXCEPT ![t] = Resting]

\* A row may stay for a dropped endpoint: the browser or the key took it away, the
\* removal failed, or a registration came late.
Excuse(e) == excused' = IF e = NoEndpoint THEN excused ELSE excused \cup {e}

--------------------------------------------------------------------------------
(***************************************************************************)
(* Turning notifications on: enablePush.                                   *)
(***************************************************************************)

\* The panel offers "Turn on" only while the permission it read is not granted.
TurnOn ==
    /\ signedIn # Nobody
    /\ task["tap"] = Resting
    /\ setting = "default"
    /\ \/ /\ permission = "denied"
          /\ setting' = "denied"
          /\ UNCHANGED <<permission, task>>
       \/ /\ permission = "default"
          /\ permission' = "denied"
          /\ setting' = "denied"
          /\ UNCHANGED task
       \/ /\ permission \in {"default", "granted"}
          /\ permission' = "granted"
          /\ task' = [task EXCEPT !["tap"] = [Resting EXCEPT !.step = "key", !.by = signedIn]]
          /\ UNCHANGED setting
    /\ UNCHANGED <<signedIn, subscription, minted, vapid, devices, excused>>

\* getPushKey; a deployment whose key changed makes the old subscription useless.
FetchKey(t) ==
    /\ task[t].step = "key"
    /\ task' = [task EXCEPT ![t].step = "subscribe", ![t].key = vapid]
    /\ UNCHANGED <<signedIn, permission, setting, subscription, minted, vapid, devices, excused>>

\* The existing subscription is kept if it was minted under this key, or replaced.
Subscribe(t) ==
    /\ task[t].step = "subscribe"
    /\ permission = "granted"
    /\ IF subscription.endpoint # NoEndpoint /\ subscription.key = task[t].key
       THEN /\ task' = [task EXCEPT ![t].step = "register", ![t].endpoint = subscription.endpoint]
            /\ UNCHANGED <<subscription, minted, excused>>
       ELSE \E e \in Endpoints \ minted :
                /\ Excuse(subscription.endpoint)
                /\ subscription' = [endpoint |-> e, key |-> task[t].key]
                /\ minted' = minted \cup {e}
                /\ task' = [task EXCEPT ![t].step = "register", ![t].endpoint = e]
    /\ UNCHANGED <<signedIn, permission, setting, vapid, devices>>

\* save: an upsert on the endpoint, under whoever the request authenticates as.
Save(e, p) == devices' = [devices EXCEPT ![e] = p]

\* The request carries the access token the page holds when it is sent.
Register(t) ==
    /\ task[t].step = "register"
    /\ signedIn # Nobody
    /\ Save(task[t].endpoint, signedIn)
    /\ IF \/ task[t].endpoint # subscription.endpoint
          \/ t = "rotation" /\ task["tap"].step = "drop"
       THEN Excuse(task[t].endpoint)
       ELSE UNCHANGED excused
    /\ Rest(t)
    /\ setting' = IF t = "tap" THEN permission ELSE setting
    /\ UNCHANGED <<signedIn, permission, subscription, minted, vapid>>

\* A request of the page is refused or its answer lost.
Fail(t) ==
    /\ task[t].step \in {"key", "subscribe", "register"}
    /\ Rest(t)
    /\ UNCHANGED <<signedIn, permission, setting, subscription, minted, vapid, devices, excused>>

--------------------------------------------------------------------------------
(***************************************************************************)
(* Turning notifications off: disablePush.                                 *)
(***************************************************************************)

TurnOff ==
    /\ signedIn # Nobody
    /\ task["tap"] = Resting
    /\ setting = "granted"
    /\ subscription.endpoint # NoEndpoint
    /\ task' = [task EXCEPT !["tap"] = [Resting EXCEPT
                    !.step = "forget", !.by = signedIn, !.endpoint = subscription.endpoint]]
    /\ UNCHANGED <<signedIn, permission, setting, subscription, minted, vapid, devices, excused>>

\* Mutant of Removed: the row of another endpoint is deleted.
RemovedAnother(e) == devices' = [d \in Endpoints |-> IF d = e THEN devices[e] ELSE Nobody]

Removed(e) == devices' = [devices EXCEPT ![e] = Nobody]

\* "Server FIRST", and a failure of it is swallowed.
Forget ==
    /\ task["tap"].step = "forget"
    /\ LET e == task["tap"].endpoint
       IN \/ Removed(e) /\ UNCHANGED excused
          \/ UNCHANGED devices /\ Excuse(e)
    /\ task' = [task EXCEPT !["tap"].step = "drop"]
    /\ UNCHANGED <<signedIn, permission, setting, subscription, minted, vapid>>

\* The browser's own comes last; the panel re-reads the permission, which stays granted.
Unsubscribe ==
    /\ task["tap"].step = "drop"
    /\ LET e == task["tap"].endpoint
       IN IF subscription.endpoint = e
          THEN subscription' = NoSubscription
          ELSE UNCHANGED subscription
    /\ Rest("tap")
    /\ setting' = permission
    /\ UNCHANGED <<signedIn, permission, minted, vapid, devices, excused>>

--------------------------------------------------------------------------------
(***************************************************************************)
(* The browser, the deployment and the people.                             *)
(***************************************************************************)

\* pushsubscriptionchange: a page that is open and signed in subscribes again.
RotateSubscription ==
    /\ subscription.endpoint # NoEndpoint
    /\ Excuse(subscription.endpoint)
    /\ subscription' = NoSubscription
    /\ IF signedIn # Nobody /\ task["rotation"] = Resting
       THEN task' = [task EXCEPT !["rotation"] = [Resting EXCEPT !.step = "key", !.by = signedIn]]
       ELSE UNCHANGED task
    /\ UNCHANGED <<signedIn, permission, setting, minted, vapid, devices>>

RotateKey(k) ==
    /\ vapid # k
    /\ vapid' = k
    /\ UNCHANGED <<signedIn, permission, setting, subscription, minted, devices, task, excused>>

\* The panel reads the permission when it mounts, for whoever signs in.
SignIn(p) ==
    /\ signedIn = Nobody
    /\ signedIn' = p
    /\ setting' = permission
    /\ UNCHANGED <<permission, subscription, minted, vapid, devices, task, excused>>

\* Neither the subscription nor its row is touched by signing out.
SignOut ==
    /\ signedIn # Nobody
    /\ signedIn' = Nobody
    /\ UNCHANGED <<permission, setting, subscription, minted, vapid, devices, task, excused>>

Next ==
    \/ TurnOn \/ TurnOff \/ Forget \/ Unsubscribe \/ RotateSubscription \/ SignOut
    \/ \E t \in Tasks : FetchKey(t) \/ Subscribe(t) \/ Register(t) \/ Fail(t)
    \/ \E k \in VapidKeys : RotateKey(k)
    \/ \E p \in People : SignIn(p)

Spec == Init /\ [][Next]_vars

--------------------------------------------------------------------------------

\* Turning notifications off leaves no row behind for the address it dropped, unless the
\* removal failed or a registration overtook it; else only the browser and a new key can
\* leave one (pwa.ts:200-205, 221-235, 239-245 of sw.js).
AddressesAreLive ==
    \A e \in Endpoints :
        devices[e] # Nobody => e = subscription.endpoint \/ e \in excused

================================================================================
