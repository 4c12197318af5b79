------------------------------ MODULE MCSessions -------------------------------
(***************************************************************************)
(* The parts that talk to a running application, which share no state,     *)
(* checked in one run: a behaviour is of one of them, the others stay as   *)
(* they began.                                                             *)
(***************************************************************************)
EXTENDS MCWebExplorer, CommandServer, BrowserSession, DriverHost

\* Pages that rest, throw, load data, and leave for another document.
MCScripts == {<<>>, <<"throw">>, <<"ask", "show", "answer">>, <<"leave", "ask", "arrive", "throw">>}

VARIABLE about

IdleWorld == CHOOSE w \in Fickle : TRUE

SessionsInit ==
    /\ about \in {"explorer", "server", "session", "host"}
    /\ ExplorerInit /\ (about # "explorer" => world = IdleWorld)
    /\ ServerInit
    /\ SessionInit /\ (about # "session" => ~opaque)
    /\ HostInit

SessionsNext ==
    /\ UNCHANGED about
    /\ \/ about = "explorer" /\ ExplorerNext /\ UNCHANGED <<serverVars, sessionVars, hostVars>>
       \/ about = "server" /\ ServerNext /\ UNCHANGED <<vars, sessionVars, hostVars>>
       \/ about = "session" /\ SessionNext /\ UNCHANGED <<vars, serverVars, hostVars>>
       \/ about = "host" /\ HostNext /\ UNCHANGED <<vars, serverVars, sessionVars>>

\* The fairness of each, where it is the subject.
SessionsFairness ==
    /\ WF_vars(about = "explorer" /\ (Begin \/ Iterate \/ Report))
    /\ WF_serverVars(about = "server" /\ Expire) /\ WF_serverVars(about = "server" /\ Poll)
    /\ WF_serverVars(about = "server" /\ Abandon)
    /\ WF_serverVars(about = "server" /\ Restart /\ awaits # "up")
    /\ WF_serverVars(about = "server" /\ Stop)
    /\ WF_sessionVars(about = "session" /\ DriverStep)
    /\ WF_sessionVars(about = "session" /\ PageStep)
    /\ WF_hostVars(about = "host" /\ TimesOut)

SessionsSpec ==
    SessionsInit /\ [][SessionsNext]_<<vars, serverVars, sessionVars, hostVars, about>> /\ SessionsFairness

\* Whoever calls one of the parts hears of it: the exploration ends, the server is up or
\* stopped, a call of the driver and a request to its host are answered.
EveryCallEnds == ExplorationEnds /\ CallsReturn /\ CallsEnd /\ RequestsAnswered
===============================================================================
