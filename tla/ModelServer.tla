----------------------------- MODULE ModelServer ------------------------------
(***************************************************************************)
(* The llama-server children of skycode-inference/loader.rs.               *)
(*                                                                         *)
(* A launcher (`scos serve`, `ask`, `model`) starts a child that listens   *)
(* on a port of this host, asks GET /health of that port until it answers, *)
(* holds the child through a ModelHandle and ends it when the handle is    *)
(* dropped.  Nothing ties the port to the child: whichever server listens  *)
(* there answers, the child of another launcher included.                  *)
(*                                                                         *)
(* TaskLoop composes the actions of this module into a next-state relation *)
(* for both kinds of launchers.  A launcher launches once.  The child is   *)
(* external: it binds its port if that is free, loads the model, and may   *)
(* exit, by itself or by the hand of a user, at any time.                  *)
(*                                                                         *)
(* Operators named Slip... are mistakes, as in ApprovalPipeline.           *)
(***************************************************************************)
EXTENDS Naturals

CONSTANTS
    Launchers,    \* processes that start a llama-server
    Ports,        \* ports of models.yaml
    None,         \* no port, no server
    MaxPolls      \* HEALTH_TIMEOUT in health polls

ASSUME ModelServerAssumption ==
    /\ None \notin Launchers
    /\ MaxPolls \in Nat \ {0}

VARIABLES
    at,           \* where a launcher is in launch_server, or with its handle
    child,        \* the life of its child
    port,         \* the port its child was told to listen on
    polls         \* health polls made in the loop it is in

serverVars == <<at, child, port, polls>>

Phases == {"idle", "poll", "get", "recheck", "ready", "asking", "answered",
           "unanswered", "refused", "stopped", "gone"}

\* A child that exited is a zombie until its launcher waits for it.
Lives == {"none", "starting", "loading", "healthy", "exited", "reaped"}

ServerTypeOK ==
    /\ at \in [Launchers -> Phases]
    /\ child \in [Launchers -> Lives]
    /\ port \in [Launchers -> Ports \cup {None}]
    /\ polls \in [Launchers -> 0..MaxPolls]

ServerInit ==
    /\ at = [p \in Launchers |-> "idle"]
    /\ child = [p \in Launchers |-> "none"]
    /\ port = [p \in Launchers |-> None]
    /\ polls = [p \in Launchers |-> 0]

Running(p) == child[p] \in {"starting", "loading", "healthy"}

Listening(n) == {q \in Launchers : port[q] = n /\ child[q] \in {"loading", "healthy"}}

Move(p, from, to) == at[p] = from /\ at' = [at EXCEPT ![p] = to]

-----------------------------------------------------------------------------
(* launch_server *)

\* The model file is missing, or the executable does not start.
NoChild(p) ==
    /\ Move(p, "idle", "refused")
    /\ UNCHANGED <<child, port, polls>>

Spawn(p, n) ==
    /\ Move(p, "idle", "poll")
    /\ child' = [child EXCEPT ![p] = "starting"]
    /\ port' = [port EXCEPT ![p] = n]
    /\ UNCHANGED polls

\* terminate_child, and ModelHandle::stop: kill it unless it has exited, and wait.
SlipEndChild(p) ==
    /\ child' = [child EXCEPT ![p] = IF @ = "exited" THEN "reaped" ELSE @]
    /\ UNCHANGED port
EndChild(p) ==
    /\ child' = [child EXCEPT ![p] = "reaped"]
    /\ port' = [port EXCEPT ![p] = None]

\* An error return once there is a child: no HTTP client, a failing try_wait,
\* a child that exited, or the deadline.
Refuse(p) ==
    /\ at' = [at EXCEPT ![p] = "refused"]
    /\ EndChild(p)
    /\ polls' = [polls EXCEPT ![p] = 0]

NoClient(p) == at[p] = "poll" /\ polls[p] = 0 /\ Refuse(p)

\* poll_health, once around its loop.
SawExit(p) == at[p] \in {"poll", "recheck"} /\ child[p] = "exited" /\ Refuse(p)

\* One slow poll may use up the time.
Deadline(p) == at[p] = "poll" /\ polls[p] > 0 /\ Refuse(p)

SlipStillRunning(p) ==
    /\ Move(p, "poll", "get")
    /\ polls[p] <= MaxPolls /\ child[p] # "exited"
    /\ UNCHANGED <<child, port, polls>>
StillRunning(p) ==
    /\ Move(p, "poll", "get")
    /\ polls[p] < MaxPolls /\ child[p] # "exited"
    /\ UNCHANGED <<child, port, polls>>

HealthOk(p) ==
    /\ Move(p, "get", "recheck")
    /\ \E q \in Listening(port[p]) : child[q] = "healthy"
    /\ UNCHANGED <<child, port, polls>>

\* Refused, still loading (503), cut, or too late for the client.
SlipHealthFails(p) ==
    /\ Move(p, "get", "poll")
    /\ UNCHANGED <<child, port, polls>>
HealthFails(p) ==
    /\ Move(p, "get", "poll")
    /\ polls' = [polls EXCEPT ![p] = @ + 1]
    /\ UNCHANGED <<child, port>>

Recheck(p) ==
    /\ Move(p, "recheck", "ready")
    /\ child[p] # "exited"
    /\ polls' = [polls EXCEPT ![p] = 0]
    /\ UNCHANGED <<child, port>>

-----------------------------------------------------------------------------
(* ModelHandle *)

Call(p) ==
    /\ Move(p, "ready", "asking")
    /\ UNCHANGED <<child, port, polls>>

Answer(p) ==
    /\ Move(p, "asking", "answered")
    /\ \E q \in Listening(port[p]) : child[q] = "healthy"
    /\ UNCHANGED <<child, port, polls>>

\* No connection, an error status, a body that is no chat completion, or
\* REQUEST_TIMEOUT.
CallFails(p) ==
    /\ Move(p, "asking", "unanswered")
    /\ UNCHANGED <<child, port, polls>>

\* Drop of the handle; a server that only holds it drops it on shutdown.
Stop(p) ==
    /\ at[p] \in {"ready", "answered", "unanswered"}
    /\ at' = [at EXCEPT ![p] = "stopped"]
    /\ EndChild(p)
    /\ UNCHANGED polls

\* The launcher is killed: no Drop runs.
Killed(p) ==
    /\ at[p] \in {"poll", "get", "recheck", "ready", "asking", "answered", "unanswered"}
    /\ at' = [at EXCEPT ![p] = "gone"]
    /\ UNCHANGED <<child, port, polls>>

-----------------------------------------------------------------------------
(* llama-server *)

Bind(p) ==
    /\ child[p] = "starting" /\ Listening(port[p]) = {}
    /\ child' = [child EXCEPT ![p] = "loading"]
    /\ UNCHANGED <<at, port, polls>>

Loaded(p) ==
    /\ child[p] = "loading"
    /\ child' = [child EXCEPT ![p] = "healthy"]
    /\ UNCHANGED <<at, port, polls>>

Exit(p) ==
    /\ Running(p)
    /\ child' = [child EXCEPT ![p] = "exited"]
    /\ UNCHANGED <<at, port, polls>>

ChildStep(p) == Bind(p) \/ Loaded(p) \/ Exit(p)

\* A launcher inside launch_server, or waiting for an answer.
LaunchStep(p) ==
    \/ NoClient(p) \/ SawExit(p) \/ Deadline(p) \/ StillRunning(p)
    \/ HealthOk(p) \/ HealthFails(p) \/ Recheck(p)

CallStep(p) == Call(p) \/ Answer(p) \/ CallFails(p)

-----------------------------------------------------------------------------
(* What is to hold *)

\* No child outlives its launcher, except a launcher that was killed: every
\* return of launch_server with an error, and every end of a ModelHandle, has
\* ended the child.  And nobody ends it sooner: as long as the handle is held
\* (`scos serve` for the lifetime of the API), the child runs or has
\* exited by itself.
ChildrenFollowHandles ==
    \A p \in Launchers :
       /\ at[p] \in {"idle", "refused", "stopped"} => ~Running(p)
       /\ at[p] \notin {"refused", "stopped"} => child[p] # "reaped"
=============================================================================
