----------------------------- MODULE Deployment -----------------------------
(***************************************************************************)
(* How deploy_and_run.py brings the system up in Mininet: it starts one    *)
(* server after the other in the background, then the router, and tells    *)
(* the user to run the client.  It waits until a program was started, not  *)
(* until it listens, and starts none again that ended.                     *)
(***************************************************************************)
EXTENDS System

VARIABLES
    script,   \* programs started so far: the servers in their order, the router
    running   \* programs that got as far as listen()

dvars == <<vars, script, running>>

Programs == Servers \cup {Router}

\* The step of the script that starts program p.
StartedBy(p) == IF p = Router THEN NUM_SERVERS + 1 ELSE p + 1

DInit ==
    /\ conns = << >>
    /\ backlog = [p \in Procs |-> << >>]
    /\ life = [p \in Procs |-> "exit"]
    /\ failed = {}
    /\ ServerInit
    /\ RouterInit
    /\ ClientInit
    /\ kills = 0
    /\ script = 0
    /\ running = {}

Launch ==
    /\ script <= NUM_SERVERS
    /\ script' = script + 1
    /\ UNCHANGED <<vars, running>>

\* Program p gets to listen(), from where others can connect to it.
Main(p) ==
    /\ StartedBy(p) <= script
    /\ p \notin running
    /\ running' = running \cup {p}
    /\ Begin(p)
    /\ UNCHANGED <<servervars, routervars, clientvars, kills, script>>

Deployed == script = NUM_SERVERS + 1

\* From there on it is the system as ever, except that users and operators wait
\* for the script.
Runs ==
    /\ \/ \E s \in Servers : ServerRuns(s)
       \/ RouterRuns
       \/ \E c \in Clients : ClientRuns(c) \/ (Deployed /\ UserActs(c))
       \/ \E p \in Procs : Kill(p)
       \/ Deployed /\ Programs \subseteq running /\ Restart
    /\ UNCHANGED <<script, running>>

DNext ==
    \/ Launch
    \/ \E p \in Programs : Main(p)
    \/ Runs

\* The script runs to its end, and the programs run.
DSpec ==
    /\ DInit
    /\ [][DNext]_dvars
    /\ WF_dvars(Launch)
    /\ \A p \in Programs : WF_dvars(Main(p))
    /\ Fairness

-----------------------------------------------------------------------------
(***************************************************************************)
(* A deployment comes up, or fails for one of two reasons.  Unless a       *)
(* process is killed, in the end the router accepts clients, or it gave up *)
(* because a server it connected to did not listen yet, or it died of a    *)
(* key exchange with a server in which a number was exported short         *)
(* (receive_server_hello: see ExchangeSucceeds); and if all servers listen *)
(* before the router starts, the second cannot be, whenever a user starts  *)
(* the client.                                                             *)
(***************************************************************************)
ServersFirst == Servers \subseteq running /\ Router \notin running

DiedOfShortNumber == KeysMayDiffer /\ life[Router] = "segv"

UpOrFailed == RouterAt("accept") \/ DiedOfShortNumber \/ kills > 0

DeploymentEnds ==
    /\ <>(UpOrFailed \/ life[Router] = "refused")
    /\ ServersFirst ~> UpOrFailed

=============================================================================
