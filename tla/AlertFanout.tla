----------------------------- MODULE AlertFanout -----------------------------
(***************************************************************************)
(* How one agent pod shows the alerts the worker raised (src/agent/app.py, *)
(* /ws/alerts).  A thread runs a data subscription of the pod's own on     *)
(* PriceAlerts and schedules a coroutine per alert on the event loop; each *)
(* coroutine sends the alert to every websocket that is registered when it *)
(* starts, one after the other, and then discards those that failed.  The  *)
(* pods share nothing but the documents, so that one pod is all there is   *)
(* to model.                                                               *)
(*                                                                         *)
(* A coroutine gives the event loop up at every send, so that coroutines   *)
(* overlap, and sockets come and go under them.                            *)
(***************************************************************************)
EXTENDS Naturals, SequencesExt

CONSTANTS
    Doc,          \* the PriceAlerts documents
    Socket,       \* the websockets; a browser that connects again has another one
    MaxRaised,    \* bound: alerts raised in a behaviour
    MaxFailures   \* bound: lost acknowledgements and restarts in a behaviour

ASSUME AlertFanoutAssumption ==
    /\ MaxRaised \in Nat
    /\ MaxFailures \in Nat

VARIABLES
    raised,       \* etag of the last alert written
    version,      \* each document's etag, 0 if it does not exist
    cursor,       \* subscription: highest acknowledged etag
    thread,       \* control point of _run_alert_subscription_worker
    todo,         \* the alerts of its batch that are still to schedule, by their etags
    upTo,         \* the etag that acknowledging the batch acknowledges
    scheduled,    \* the broadcasts that have not started, in order
    broadcasts,   \* those that have: the alert, the sockets left and those that failed
    sockets,      \* _alert_websockets
    client,       \* the other end of each socket
    since,        \* history: the last etag when a connected client was registered
    shown,        \* history: the alerts it received since, in order
    failures      \* lost acknowledgements and restarts so far

docVars == <<raised, version>>
threadVars == <<cursor, thread, todo, upTo>>
loopVars == <<scheduled, broadcasts, sockets>>
clientVars == <<client, since, shown>>
vars == <<docVars, threadVars, loopVars, clientVars, failures>>

Etag == 1..MaxRaised
Broadcast == [alert : Etag, left : SUBSET Socket, failed : SUBSET Socket]

TypeOK ==
    /\ raised \in 0..MaxRaised
    /\ version \in [Doc -> 0..raised]
    /\ cursor \in 0..raised
    /\ thread \in {"down", "creating", "idle", "handling", "ended"}
    /\ todo \subseteq Etag
    /\ upTo \in 0..raised
    /\ scheduled \in Seq(Etag)
    /\ broadcasts \in Seq(Broadcast)
    /\ sockets \subseteq Socket
    /\ client \in [Socket -> {"new", "open", "gone", "over"}]
    /\ since \in [Socket -> 0..raised]
    /\ shown \in [Socket -> Seq(Etag)]
    /\ failures \in 0..MaxFailures
    /\ \A s \in sockets : client[s] \in {"open", "gone"}

Init ==
    /\ raised = 0
    /\ version = [d \in Doc |-> 0]
    /\ cursor = 0
    /\ thread = "down"
    /\ todo = {}
    /\ upTo = 0
    /\ scheduled = <<>>
    /\ broadcasts = <<>>
    /\ sockets = {}
    /\ client = [s \in Socket |-> "new"]
    /\ since = [s \in Socket |-> 0]
    /\ shown = [s \in Socket |-> <<>>]
    /\ failures = 0
-----------------------------------------------------------------------------
(* The worker stores an alert, under a new id or over an older alert. *)
Raise(d) ==
    /\ raised < MaxRaised
    /\ raised' = raised + 1
    /\ version' = [version EXCEPT ![d] = raised + 1]
    /\ UNCHANGED <<threadVars, loopVars, clientVars, failures>>

(* RavenDB deletes an alert after its hour. *)
Expire(d) ==
    /\ version[d] # 0
    /\ version' = [version EXCEPT ![d] = 0]
    /\ UNCHANGED <<raised, threadVars, loopVars, clientVars, failures>>
-----------------------------------------------------------------------------
(* The thread. *)

Startup ==
    /\ thread = "down"
    /\ thread' = "creating"
    /\ UNCHANGED <<docVars, cursor, todo, upTo, loopVars, clientVars, failures>>

(* The subscription is created, or is there from before the restart. *)
CreateSubscription ==
    /\ thread = "creating"
    /\ thread' = "idle"
    /\ UNCHANGED <<docVars, cursor, todo, upTo, loopVars, clientVars, failures>>

(* Creating the subscription fails otherwise, or worker.run's future raises: the thread
   logs it and returns, and nothing starts it again. *)
End ==
    /\ thread \in {"creating", "idle", "handling"}
    /\ thread' = "ended"
    /\ todo' = {}
    /\ upTo' = 0
    /\ UNCHANGED <<docVars, cursor, loopVars, clientVars, failures>>

(* What the subscription has for the thread: the alerts there are, as they are now. *)
Pending == {version[d] : d \in Doc} \ 0..cursor

Deliver ==
    /\ thread = "idle"
    /\ Pending # {}
    /\ thread' = "handling"
    /\ todo' = Pending
    /\ upTo' = raised
    /\ UNCHANGED <<docVars, cursor, loopVars, clientVars, failures>>

(* run_coroutine_threadsafe, for one alert after the other: the handler does not wait for
   the broadcast. *)
Schedule ==
    /\ thread = "handling"
    /\ \E alert \in todo :
          /\ \A other \in todo : alert <= other
          /\ scheduled' = Append(scheduled, alert)
          /\ todo' = todo \ {alert}
    /\ UNCHANGED <<docVars, cursor, thread, upTo, broadcasts, sockets, clientVars, failures>>

BatchIsOver ==
    /\ thread = "handling"
    /\ todo = {}
    /\ thread' = "idle"
    /\ upTo' = 0
    /\ UNCHANGED <<docVars, todo, loopVars, clientVars>>

Ack ==
    /\ BatchIsOver
    /\ cursor' = upTo
    /\ UNCHANGED failures

(* The connection was lost before the acknowledgement: the client library connects again,
   and the batch comes again. *)
AckLost ==
    /\ failures < MaxFailures
    /\ failures' = failures + 1
    /\ BatchIsOver
    /\ UNCHANGED cursor
-----------------------------------------------------------------------------
(* The event loop. *)

(* A wrong variant of Begin: an alert that is being sent already is not sent again. *)
MutBegin ==
    /\ scheduled # <<>>
    /\ scheduled' = Tail(scheduled)
    /\ broadcasts' =
          IF broadcasts # <<>> THEN broadcasts
          ELSE Append(broadcasts, [alert |-> Head(scheduled), left |-> sockets, failed |-> {}])
    /\ UNCHANGED <<docVars, threadVars, sockets, clientVars, failures>>

(* _broadcast_alert starts: it goes through a copy of the set. *)
Begin ==
    /\ scheduled # <<>>
    /\ scheduled' = Tail(scheduled)
    /\ broadcasts' = Append(broadcasts,
                            [alert |-> Head(scheduled), left |-> sockets, failed |-> {}])
    /\ UNCHANGED <<docVars, threadVars, sockets, clientVars, failures>>

(* A wrong variant of Send: a socket that fails ends the loop. *)
MutSend(i, s, raises) ==
    /\ s \in broadcasts[i].left
    /\ client[s] = "open" => ~raises
    /\ client[s] = "over" => raises
    /\ broadcasts' = [broadcasts EXCEPT
          ![i].left = IF raises THEN {} ELSE @ \ {s},
          ![i].failed = IF raises THEN @ \cup {s} ELSE @]
    /\ shown' = IF client[s] = "open"
                THEN [shown EXCEPT ![s] = Append(@, broadcasts[i].alert)] ELSE shown
    /\ UNCHANGED <<docVars, threadVars, scheduled, sockets, client, since, failures>>

(* The next socket of the copy, in the order of the set.  A send to a client that is gone
   may raise or not; to a socket the server has closed it raises. *)
Send(i, s, raises) ==
    /\ s \in broadcasts[i].left
    /\ client[s] = "open" => ~raises
    /\ client[s] = "over" => raises
    /\ broadcasts' = [broadcasts EXCEPT
          ![i].left = @ \ {s},
          ![i].failed = IF raises THEN @ \cup {s} ELSE @]
    /\ shown' = IF client[s] = "open"
                THEN [shown EXCEPT ![s] = Append(@, broadcasts[i].alert)] ELSE shown
    /\ UNCHANGED <<docVars, threadVars, scheduled, sockets, client, since, failures>>

(* A wrong variant of Finish: an alert that some socket missed is sent again. *)
MutFinish(i) ==
    /\ broadcasts[i].left = {}
    /\ broadcasts' = RemoveAt(broadcasts, i)
    /\ sockets' = sockets \ broadcasts[i].failed
    /\ scheduled' = IF broadcasts[i].failed = {} THEN scheduled
                    ELSE Append(scheduled, broadcasts[i].alert)
    /\ UNCHANGED <<docVars, threadVars, clientVars, failures>>

Finish(i) ==
    /\ broadcasts[i].left = {}
    /\ broadcasts' = RemoveAt(broadcasts, i)
    /\ sockets' = sockets \ broadcasts[i].failed
    /\ UNCHANGED <<docVars, threadVars, scheduled, clientVars, failures>>

Connect(s) ==
    /\ client[s] = "new"
    /\ thread # "down"
    /\ client' = [client EXCEPT ![s] = "open"]
    /\ since' = [since EXCEPT ![s] = raised]
    /\ sockets' = sockets \cup {s}
    /\ UNCHANGED <<docVars, threadVars, scheduled, broadcasts, shown, failures>>

(* The browser closes its socket, or the network does; the server does not know yet. *)
Leave(s) ==
    /\ client[s] = "open"
    /\ client' = [client EXCEPT ![s] = "gone"]
    /\ since' = [since EXCEPT ![s] = 0]
    /\ shown' = [shown EXCEPT ![s] = <<>>]
    /\ UNCHANGED <<docVars, threadVars, loopVars, failures>>

(* A wrong variant of Disconnect: the handler has no finally clause. *)
MutDisconnect(s) ==
    /\ client[s] = "gone"
    /\ client' = [client EXCEPT ![s] = "over"]
    /\ UNCHANGED <<docVars, threadVars, loopVars, since, shown, failures>>

(* receive_text raises, and the handler's finally clause discards the socket. *)
Disconnect(s) ==
    /\ client[s] = "gone"
    /\ client' = [client EXCEPT ![s] = "over"]
    /\ sockets' = sockets \ {s}
    /\ UNCHANGED <<docVars, threadVars, scheduled, broadcasts, since, shown, failures>>

(* The process ends and another one starts: in the same pod, which finds its subscription,
   or in a new one, whose host name makes it a subscription from the first alert on. *)
Restart(newPod) ==
    /\ thread # "down"
    /\ failures < MaxFailures
    /\ failures' = failures + 1
    /\ thread' = "down"
    /\ todo' = {}
    /\ upTo' = 0
    /\ cursor' = IF newPod THEN 0 ELSE cursor
    /\ scheduled' = <<>>
    /\ broadcasts' = <<>>
    /\ sockets' = {}
    /\ client' = [s \in Socket |-> IF client[s] = "new" THEN "new" ELSE "over"]
    /\ since' = [s \in Socket |-> 0]
    /\ shown' = [s \in Socket |-> <<>>]
    /\ UNCHANGED docVars
-----------------------------------------------------------------------------
Thread == Startup \/ CreateSubscription \/ Deliver \/ Schedule \/ Ack

Loop ==
    \/ Begin
    \/ \E i \in DOMAIN broadcasts :
          \/ \E s \in Socket, raises \in BOOLEAN : Send(i, s, raises)
          \/ Finish(i)

Next ==
    \/ \E d \in Doc : Raise(d) \/ Expire(d)
    \/ Thread
    \/ End
    \/ AckLost
    \/ Loop
    \/ \E s \in Socket : Connect(s) \/ Leave(s) \/ Disconnect(s)
    \/ \E newPod \in BOOLEAN : Restart(newPod)

Spec == Init /\ [][Next]_vars

(* The thread and the event loop run on.  A send ends: the server pings its sockets and
   closes those that do not answer. *)
FairSpec == Spec /\ WF_vars(Thread) /\ WF_vars(Loop)
-----------------------------------------------------------------------------
(* Correctness. *)

(* The alert v has reached the socket s, or will: a broadcast has been scheduled that will
   find the socket registered, or one is going through a copy with the socket in it. *)
Reaches(v, s) ==
    \/ Contains(shown[s], v)
    \/ Contains(scheduled, v)
    \/ \E i \in DOMAIN broadcasts : broadcasts[i].alert = v /\ s \in broadcasts[i].left

(* An alert that is acknowledged, and will not come again, is not lost for a browser that
   was connected before it was raised and still is, whatever other sockets fail under the
   broadcasts (_broadcast_alert catches what a send raises). *)
NothingMissed ==
    \A s \in Socket, d \in Doc :
       client[s] = "open" /\ since[s] < version[d] /\ version[d] <= cursor =>
          Reaches(version[d], s)

(* A browser is shown an alert again only if an acknowledgement was lost. *)
Times(s, v) == Cardinality({i \in DOMAIN shown[s] : shown[s][i] = v})
RepeatedOnlyOnLoss == \A s \in Socket : \A v \in Etag : Times(s, v) <= 1 + failures

(* "a browser connected to either pod's websocket sees every alert" (app.py:124): the
   newest alert of each route and second reaches a browser that stays connected -- unless
   the thread has ended, which the pod survives without being restarted. *)
Missing(s) ==
    /\ client[s] = "open"
    /\ \E d \in Doc : since[s] < version[d] /\ ~Contains(shown[s], version[d])
SeenUnlessEnded == \A s \in Socket : Missing(s) ~> (~Missing(s) \/ thread = "ended")
=============================================================================
