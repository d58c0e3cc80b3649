------------------------------- MODULE Server -------------------------------
(***************************************************************************)
(* The process that a batcher lives in (cmd/skyvault/main.go): main builds *)
(* the handlers of the enabled services, listens, waits for a signal,      *)
(* cancels the context of all handlers and shuts the HTTP server down.     *)
(*                                                                         *)
(* http.Server.Shutdown waits for HTTP/1.1 connections, for 10 seconds at  *)
(* most.  A connection of unencrypted HTTP/2 was hijacked by h2c.NewHandler *)
(* and is neither waited for nor closed: calls may still come in on it.    *)
(***************************************************************************)
EXTENDS Batcher

CONSTANTS
    Enabled,   \* the services main builds after the batcher, in their order
    HTTP1      \* the requests that come over HTTP/1.1

ASSUME ServerAssumption ==
    /\ Enabled \in Seq({"cache", "index", "orchestrator", "worker"})
    /\ HTTP1 \subseteq Requests

VARIABLES
    main,   \* where main is
    rest,   \* the services that are still to be built
    exit    \* "returned": main waited for all it waits for; or "broken" off

mainVars == <<main, rest, exit>>
serverVars == <<vars, mainVars>>

ServerTypeOK ==
    /\ TypeOK
    /\ main \in {"boot", "serving", "cancelled", "draining", "exited"}
    /\ rest \in Seq({"cache", "index", "orchestrator", "worker"})
    /\ exit \in {"none", "broken", "returned"}
    /\ exit = "none" <=> alive

ServerInit ==
    /\ Init
    /\ main = "boot"
    /\ rest = Enabled
    /\ exit = "none"

-----------------------------------------------------------------------------
(* main.                                                                    *)

\* The next handler is built and registered with the mux.
BuildHandler ==
    /\ main = "boot"
    /\ rest # <<>>
    /\ rest' = Tail(rest)
    /\ UNCHANGED <<vars, main, exit>>

End(how) ==
    /\ Exit
    /\ main' = "exited"
    /\ exit' = how
    /\ UNCHANGED rest

\* NewHandler of the index, the orchestrator or the worker returns an error.
BuildFails ==
    /\ main = "boot"
    /\ rest # <<>>
    /\ Head(rest) # "cache"
    /\ End("broken")

ListenAndServe ==
    /\ main = "boot"
    /\ rest = <<>>
    /\ main' = "serving"
    /\ UNCHANGED <<vars, rest, exit>>

\* A signal comes: the context of all handlers is cancelled.
Cancel ==
    /\ main = "serving"
    /\ Shutdown
    /\ main' = "cancelled"
    /\ UNCHANGED <<rest, exit>>

\* server.Shutdown closes the listener and the idle connections.
ShutdownServer ==
    /\ main = "cancelled"
    /\ main' = "draining"
    /\ UNCHANGED <<vars, rest, exit>>

\* HTTP/2 connections are not among those the server counts.
NoActiveConnections == \A r \in HTTP1 : call[r] \notin Pending

\* server.Shutdown finds no active connection, and main returns.
Drained ==
    /\ main = "draining"
    /\ NoActiveConnections
    /\ End("returned")

\* shutdownCtx is done after 10 seconds, and main returns all the same.
TimesOut ==
    /\ main = "draining"
    /\ End("broken")

\* The process is killed, or the listener fails.
Crash == End("broken")

-----------------------------------------------------------------------------
(* The batcher in it.                                                       *)

\* Calls arrive while main listens, and afterwards on the HTTP/2 connections
\* and on HTTP/1.1 connections that were accepted but had no request yet.
Reachable == main \in {"serving", "cancelled", "draining"}

BatcherStep ==
    /\ \/ \E r \in Requests :
            \/ Reachable /\ BatchWrite(r)
            \/ RejectOnShutdown(r) \/ CancelCall(r) \/ ReceiveResult(r)
       \/ BatchLoop
       \/ TimerFires
       \/ ProcessLoop
       \/ \E w \in Writers : Writer(w)
    /\ UNCHANGED mainVars

ServerNext ==
    \/ BuildHandler \/ BuildFails
    \/ ListenAndServe
    \/ Cancel
    \/ ShutdownServer
    \/ Drained
    \/ TimesOut
    \/ Crash
    \/ BatcherStep

ServerSpec == ServerInit /\ [][ServerNext]_serverVars

\* The goroutines of the batcher run, and so does main.  Nothing makes the
\* process end: the goroutines must not be saved by an exit.
FairServerSpec ==
    /\ ServerSpec
    /\ Fairness
    /\ WF_serverVars(BuildHandler \/ ListenAndServe \/ ShutdownServer)

-----------------------------------------------------------------------------
(* Properties.                                                              *)

\* A shutdown that was not cut short is graceful: main returns when no call
\* is under way any more, however the call came in.
NoCallCutOff == exit = "returned" => \A r \in Requests : call[r] # "lost"

\* After a signal main can return without the help of the timeout: a
\* cancelled batcher answers or rejects all calls that server.Shutdown waits
\* for, those that came in last included.
ShutdownCompletes ==
    ctxDone ~> (main = "draining" /\ NoActiveConnections) \/ exit # "none"

=============================================================================
