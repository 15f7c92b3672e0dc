-------------------------------- MODULE Feed --------------------------------
(***************************************************************************)
(* What the /watch endpoint promises its clients (internal/lo/package.go   *)
(* and the comments of handleWatch and Subscribe): the listens known at    *)
(* the moment of the subscription, a sync marker, then every later change, *)
(* once each and in order, until the client leaves or is cut off.  How the *)
(* listens are found, the mutex, the proxies that hide listens and the     *)
(* capacity of a client's channel do not appear: a client may be cut off   *)
(* at any change, and only the implementation says when.                   *)
(***************************************************************************)
EXTENDS Sequences

CONSTANTS
  Listen,  \* the listens that may be reported
  Sub      \* the clients

VARIABLES
  listens,  \* the listens the container reports
  fed,      \* the clients that are told of every change
  stage,    \* "off", "snapshot", "stream" or "ending", for each client
  rest,     \* what is left to send of a client's snapshot
  queue,    \* the changes a client has still to be sent
  seen      \* the listens a client has been told of and not yet untold

vars == <<listens, fed, stage, rest, queue, seen>>

Init ==
  /\ listens = {}
  /\ fed = {}
  /\ stage = [s \in Sub |-> "off"]
  /\ rest = [s \in Sub |-> {}]
  /\ queue = [s \in Sub |-> <<>>]
  /\ seen = [s \in Sub |-> {}]

(* A change reaches every client that is fed, except those it cuts off.    *)
Tell(ev) ==
  /\ fed' \in SUBSET fed
  /\ queue' = [s \in Sub |-> IF s \in fed' THEN Append(queue[s], ev) ELSE queue[s]]
  /\ UNCHANGED <<stage, rest, seen>>

Appear(l) ==
  /\ l \notin listens
  /\ listens' = listens \cup {l}
  /\ Tell([op |-> "add", listen |-> l])

Vanish(l) ==
  /\ l \in listens
  /\ listens' = listens \ {l}
  /\ Tell([op |-> "remove", listen |-> l])

(* From one moment on: the snapshot and the changes leave no gap and do    *)
(* not overlap.                                                            *)
Connect(s) ==
  /\ stage[s] = "off"
  /\ stage' = [stage EXCEPT ![s] = "snapshot"]
  /\ fed' = fed \cup {s}
  /\ rest' = [rest EXCEPT ![s] = listens]
  /\ queue' = [queue EXCEPT ![s] = <<>>]
  /\ seen' = [seen EXCEPT ![s] = {}]
  /\ UNCHANGED listens

SendRest(s, l) ==
  /\ stage[s] = "snapshot"
  /\ l \in rest[s]
  /\ rest' = [rest EXCEPT ![s] = @ \ {l}]
  /\ seen' = [seen EXCEPT ![s] = @ \cup {l}]
  /\ UNCHANGED <<listens, fed, stage, queue>>

Sync(s) ==
  /\ stage[s] = "snapshot"
  /\ rest[s] = {}
  /\ stage' = [stage EXCEPT ![s] = "stream"]
  /\ UNCHANGED <<listens, fed, rest, queue, seen>>

SendChange(s) ==
  /\ stage[s] = "stream"
  /\ queue[s] # <<>>
  /\ seen' = [seen EXCEPT ![s] = IF Head(queue[s]).op = "add"
                                 THEN @ \cup {Head(queue[s]).listen}
                                 ELSE @ \ {Head(queue[s]).listen}]
  /\ queue' = [queue EXCEPT ![s] = Tail(@)]
  /\ UNCHANGED <<listens, fed, stage, rest>>

(* A client leaves, or is let go after it was cut off.                     *)
End(s) ==
  /\ stage[s] \in {"snapshot", "stream"}
  /\ stage' = [stage EXCEPT ![s] = "ending"]
  /\ UNCHANGED <<listens, fed, rest, queue, seen>>

Forget(s) ==
  /\ stage[s] = "ending"
  /\ stage' = [stage EXCEPT ![s] = "off"]
  /\ fed' = fed \ {s}
  /\ queue' = [queue EXCEPT ![s] = <<>>]
  /\ UNCHANGED <<listens, rest, seen>>

Next ==
  \/ \E l \in Listen : Appear(l) \/ Vanish(l)
  \/ \E s \in Sub :
       \/ Connect(s) \/ Sync(s) \/ SendChange(s) \/ End(s) \/ Forget(s)
       \/ \E l \in Listen : SendRest(s, l)

Spec == Init /\ [][Next]_vars
=============================================================================
