----------------------------- MODULE Lifecycle -----------------------------
(***************************************************************************)
(* The hosted service that owns the connection to the Event Store and the  *)
(* subscriptions on it (EventStoreService.cs), and the supervisor of the   *)
(* connection (ConnectionSupervisor.cs), with what the client does to both *)
(* of them: it loses the connection and connects again, and when it gives  *)
(* up it closes the connection, raises ErrorOccurred and drops the         *)
(* subscriptions.                                                          *)
(*                                                                         *)
(* The phases inside of a subscription are those of CatchUpSubscription.   *)
(***************************************************************************)
EXTENDS Naturals

CONSTANTS
  Subscription,   \* the integrators that Startup gives to the service
  MaxLosses       \* bound: how often the connection is lost

VARIABLES
  service,       \* the hosted service
  connection,    \* the connection of the client
  supervised,    \* the supervisor's handlers are attached
  subscription,  \* the subscriptions
  announced,     \* "Stopping service..." was logged
  losses

vars == <<service, connection, supervised, subscription, announced, losses>>

\* What GetBaseException leaves of an error of the connection.
FatalError == {"RetriesLimitReachedException", "ClusterException"}
Error == FatalError \cup {"other"}

Init ==
  /\ service = "created"
  /\ connection = "new"
  /\ supervised = FALSE
  /\ subscription = [s \in Subscription |-> "none"]
  /\ announced = FALSE
  /\ losses = 0

\* StartAsync attaches the handlers and asks for the connection.
StartAsync ==
  /\ service = "created"
  /\ service' = "connecting"
  /\ supervised' = TRUE
  /\ UNCHANGED <<connection, subscription, announced, losses>>

\* ConnectAsync returns once the client is at it; the subscriptions start.
StartSubscriptions ==
  /\ service = "connecting"
  /\ service' = "starting"
  /\ connection' = "connecting"
  /\ subscription' = [s \in Subscription |-> "starting"]
  /\ UNCHANGED <<supervised, announced, losses>>

\* WhenAll waits for every start, and throws if one has thrown: a host whose
\* service does not start ends the program.
Started ==
  /\ service = "starting"
  /\ \A s \in Subscription : subscription[s] # "starting"
  /\ service' = IF \E s \in Subscription : subscription[s] = "dead"
                  THEN "failed" ELSE "running"
  /\ UNCHANGED <<connection, supervised, subscription, announced, losses>>

\* The host stops the service: StopAsync.
StopAsync ==
  /\ service = "running"
  /\ service' = "stopped"
  /\ supervised' = FALSE
  /\ connection' = "closed"
  /\ UNCHANGED <<subscription, announced, losses>>

-----------------------------------------------------------------------------
(* The connection.  OnConnected and OnConnectionClosed only log, since the  *)
(* service gives the supervisor no other delegates.                         *)

Connect ==
  /\ connection = "connecting"
  /\ connection' = "open"
  /\ UNCHANGED <<service, supervised, subscription, announced, losses>>

Lose ==
  /\ connection = "open" /\ losses < MaxLosses
  /\ connection' = "connecting"
  /\ losses' = losses + 1
  /\ UNCHANGED <<service, supervised, subscription, announced>>

\* OnConnectionErrorOccurred.  Of a fatal error it says that the service stops,
\* and calls a delegate that logs.
OnConnectionErrorOccurred(error) ==
  announced' = (announced \/ (supervised /\ error \in FatalError))

\* An error that the client outlives.
ErrorOccurs ==
  /\ connection \in {"connecting", "open"}
  /\ OnConnectionErrorOccurred("other")
  /\ UNCHANGED <<service, connection, supervised, subscription, losses>>

\* The client gives up.
CloseWith(error) ==
  /\ connection = "connecting"
  /\ connection' = "closed"
  /\ OnConnectionErrorOccurred(error)
  /\ UNCHANGED <<service, supervised, subscription, losses>>

-----------------------------------------------------------------------------
(* A subscription.                                                          *)

Becomes(s, phase) ==
  /\ subscription' = [subscription EXCEPT ![s] = phase]
  /\ UNCHANGED <<service, connection, supervised, announced, losses>>

Subscribe(s) ==
  /\ subscription[s] = "starting" /\ connection = "open"
  /\ Becomes(s, "subscribed")

\* A request of Start is given up, or made on a closed connection.
StartFails(s) ==
  /\ subscription[s] = "starting" /\ connection # "open"
  /\ Becomes(s, "dead")

\* SubscriptionDropped starts it again.  Nobody stops a subscription, so that the
\* reason is never UserInitiated, not even when StopAsync closes the connection.
Drop(s) ==
  /\ subscription[s] = "subscribed" /\ connection # "open"
  /\ Becomes(s, "starting")

Next ==
  \/ StartAsync \/ StartSubscriptions \/ Started \/ StopAsync
  \/ Connect \/ Lose \/ ErrorOccurs
  \/ \E error \in Error : CloseWith(error)
  \/ \E s \in Subscription : Subscribe(s) \/ StartFails(s) \/ Drop(s)

\* The program and the client go on with what they are at.  That the host stops
\* the service, and errors, are not promised.
FairSpec ==
  /\ Init /\ [][Next]_vars
  /\ WF_vars(StartAsync) /\ WF_vars(StartSubscriptions) /\ WF_vars(Started)
  /\ WF_vars(Connect)
  /\ \A s \in Subscription :
       WF_vars(Subscribe(s)) /\ WF_vars(StartFails(s)) /\ WF_vars(Drop(s))

-----------------------------------------------------------------------------
\* When the supervisor has logged "Stopping service..." of a fatal error of the
\* connection, the service is stopped in the end, or has not even started.  It
\* takes the delegate onFatalFailure to do that, which the service provides.
AnnouncedStopHappens == announced ~> (service \in {"stopped", "failed"})
=============================================================================
