------------------------------ MODULE Terminal ------------------------------
(***************************************************************************)
(* Terminals and what is sent into them: routes/pty.rs relays between an    *)
(* agent's WebSocket and the shell of its machine, and keeps a sender per   *)
(* machine in AppState.pty_registry, through which routes/instruct.rs and   *)
(* the watchdog's issue_ultimatum inject text.                              *)
(*                                                                         *)
(* The registry is behind a tokio RwLock, which serves its waiters in the   *)
(* order they came.  A writer does nothing that can suspend it; a reader    *)
(* keeps the lock while it waits for room in the terminal's channel.        *)
(***************************************************************************)
EXTENDS Integers, Sequences, FiniteSets

CONSTANTS
    Machines,
    Conns,          \* WebSocket connections to terminals
    MachineOf,      \* the machine_id in the path of each connection
    Callers,        \* calls of inject in the modes pty and control
    Target,         \* the machine_id in the path of each call
    Watchdog,       \* the task of spawn_watchdog
    Capacities,     \* the capacities the channels may have (32 in the code)
    MaxUltimata,    \* bound on the ultimata the watchdog issues
    FaultSets       \* the sets of faults a behaviour may be exposed to

FaultKinds == {"panic", "shell"}
Senders == Callers \cup {Watchdog}
NoConn == "none"

ASSUME TerminalAssumption ==
    /\ IsFiniteSet(Conns) /\ IsFiniteSet(Callers)
    /\ MachineOf \in [Conns -> Machines] /\ Target \in [Callers -> Machines]
    /\ Watchdog \notin Callers /\ Senders \cap Conns = {} /\ NoConn \notin Conns
    /\ Capacities \subseteq Nat \ {0}
    /\ MaxUltimata \in Nat
    /\ FaultSets \subseteq SUBSET FaultKinds

VARIABLES
    capacity, faults,   \* of this behaviour
    at,         \* where pty_proxy of each connection stands
    queue,      \* who waits for the registry's lock, in order
    readers,    \* the senders that hold it
    registry,   \* pty_registry: the connection whose sender a machine has
    chan,       \* what each connection's channel holds
    sendAt,     \* where each sender stands, and its answer
    to,         \* the connection whose sender it looked up
    injected,   \* the callers whose text has been written to a shell
    issued      \* the ultimata issued so far

fixed == <<capacity, faults>>
lock == <<queue, readers>>
terminalVars == <<fixed, at, lock, registry, chan, sendAt, to, injected, issued>>

TerminalInit ==
    /\ capacity \in Capacities
    /\ faults \in FaultSets
    /\ at = [c \in Conns |-> "new"]
    /\ queue = <<>>
    /\ readers = {}
    /\ registry = [m \in Machines |-> NoConn]
    /\ chan = [c \in Conns |-> <<>>]
    /\ sendAt = [p \in Senders |-> "idle"]
    /\ to = [p \in Senders |-> NoConn]
    /\ injected = {}
    /\ issued = 0

Move(c, from, where) == at[c] = from /\ at' = [at EXCEPT ![c] = where]
Wait(p) == queue' = Append(queue, p)
IsNext(p) == queue # <<>> /\ Head(queue) = p

\* The receiver goes when the function of the connection returns.
Drop(c) == chan' = [chan EXCEPT ![c] = <<>>]

-----------------------------------------------------------------------------
(* Broken variants of the definitions below.                                *)

\* pty_proxy that returns without unregistering.
UnregisterForgets(c) ==
    /\ Move(c, "unregister", "closed")
    /\ IsNext(c) /\ readers = {}
    /\ queue' = Tail(queue)
    /\ Drop(c)
    /\ UNCHANGED <<fixed, readers, registry, sendAt, to, injected, issued>>

\* The quorum loop without its bound of 120 polls.
QuorumEndsOnDecision(c) == FALSE /\ Move(c, "quorum", "loop") /\ UNCHANGED terminalVars

\* inject that returns early when the channel is closed, without its guard.
SendKeepsLock(p) ==
    /\ sendAt[p] = "sending"
    /\ IF at[to[p]] = "closed"
       THEN sendAt' = [sendAt EXCEPT ![p] = "gone"] /\ UNCHANGED <<chan, readers>>
       ELSE /\ Len(chan[to[p]]) < capacity
            /\ chan' = [chan EXCEPT ![to[p]] = Append(@, p)]
            /\ sendAt' = [sendAt EXCEPT ![p] = "delivered"]
            /\ readers' = readers \ {p}
    /\ UNCHANGED <<fixed, at, queue, registry, to, injected, issued>>

-----------------------------------------------------------------------------
(* The connection: handle_pty_ws, then pty_proxy.                            *)

\* handle_pty_ws: the token is compared with the hash of the machine's active row, and
\* accepted when there is none; a refusal is a 401 before the upgrade.
VerifyToken(c) ==
    /\ at[c] = "new"
    /\ \E where \in {"open", "closed"} : Move(c, "new", where)
    /\ UNCHANGED <<fixed, lock, registry, chan, sendAt, to, injected, issued>>

\* open_pty: the shell in the pod of the machine, or an error to the agent.
OpenPty(c) ==
    /\ \/ Move(c, "open", "register") /\ Wait(c)
       \/ "shell" \in faults /\ Move(c, "open", "closed") /\ UNCHANGED queue
    /\ UNCHANGED <<fixed, readers, registry, chan, sendAt, to, injected, issued>>

\* The sender is inserted; that of an older connection to the machine is dropped.
Register(c) ==
    /\ Move(c, "register", "loop")
    /\ IsNext(c) /\ readers = {}
    /\ queue' = Tail(queue)
    /\ registry' = [registry EXCEPT ![MachineOf[c]] = c]
    /\ UNCHANGED <<fixed, readers, chan, sendAt, to, injected, issued>>

\* A frame with a destructive command: a pending row, then 120 polls of it.  What is
\* not destructive is relayed at once and changes nothing here.
AskQuorum(c) ==
    /\ Move(c, "loop", "quorum")
    /\ UNCHANGED <<fixed, lock, registry, chan, sendAt, to, injected, issued>>

\* The row has no challenge, so that decide cannot settle it: the polls run out.
QuorumEnds(c) ==
    /\ Move(c, "quorum", "loop")
    /\ UNCHANGED <<fixed, lock, registry, chan, sendAt, to, injected, issued>>

\* The first bytes of the command are cut in the middle of a character: the function
\* unwinds, its receiver is dropped, and the entry stays in the registry.
Panic(c) ==
    /\ "panic" \in faults
    /\ Move(c, "loop", "closed")
    /\ Drop(c)
    /\ UNCHANGED <<fixed, lock, registry, sendAt, to, injected, issued>>

\* The branch of select that receives what was sent; a failed write leaves the loop.
Inject(c) ==
    /\ at[c] = "loop" /\ chan[c] # <<>>
    /\ chan' = [chan EXCEPT ![c] = Tail(@)]
    /\ \/ injected' = injected \cup ({Head(chan[c])} \cap Callers) /\ UNCHANGED <<at, queue>>
       \/ "shell" \in faults /\ Move(c, "loop", "unregister") /\ Wait(c) /\ UNCHANGED injected
    /\ UNCHANGED <<fixed, readers, registry, sendAt, to, issued>>

\* The client closes the socket, or the shell ends.
Leave(c) ==
    /\ Move(c, "loop", "unregister")
    /\ Wait(c)
    /\ UNCHANGED <<fixed, readers, registry, chan, sendAt, to, injected, issued>>

\* registry.remove, by machine: whichever connection the entry is of.
Unregister(c) ==
    /\ Move(c, "unregister", "closed")
    /\ IsNext(c) /\ readers = {}
    /\ queue' = Tail(queue)
    /\ registry' = [registry EXCEPT ![MachineOf[c]] = NoConn]
    /\ Drop(c)
    /\ UNCHANGED <<fixed, readers, sendAt, to, injected, issued>>

-----------------------------------------------------------------------------
(* The senders: inject, and issue_ultimatum up to its injection.             *)

\* inject, after its audit entry: pty_registry.read().
Instruct(p) ==
    /\ p \in Callers /\ sendAt[p] = "idle"
    /\ sendAt' = [sendAt EXCEPT ![p] = "waiting"]
    /\ Wait(p)
    /\ UNCHANGED <<fixed, at, readers, registry, chan, to, injected, issued>>

\* issue_ultimatum, for one of the machines that are monitored.
IssueUltimatum ==
    /\ sendAt[Watchdog] = "idle"
    /\ issued < MaxUltimata
    /\ issued' = issued + 1
    /\ sendAt' = [sendAt EXCEPT ![Watchdog] = "waiting"]
    /\ Wait(Watchdog)
    /\ UNCHANGED <<fixed, at, readers, registry, chan, to, injected>>

\* registry.get, under the lock; without an entry it is given back at once.
LookUp(p) ==
    /\ sendAt[p] = "waiting" /\ IsNext(p)
    /\ queue' = Tail(queue)
    /\ \E m \in IF p = Watchdog THEN Machines ELSE {Target[p]} :
        IF registry[m] = NoConn
        THEN /\ sendAt' = [sendAt EXCEPT ![p] = IF p = Watchdog THEN "idle" ELSE "notfound"]
             /\ UNCHANGED <<readers, to>>
        ELSE /\ sendAt' = [sendAt EXCEPT ![p] = "sending"]
             /\ to' = [to EXCEPT ![p] = registry[m]]
             /\ readers' = readers \cup {p}
    /\ UNCHANGED <<fixed, at, registry, chan, injected, issued>>

\* sender.send: waits for room, fails when the receiver is gone.  The watchdog logs
\* either and goes on to its next machine.
Send(p) ==
    /\ sendAt[p] = "sending"
    /\ \/ /\ at[to[p]] = "closed"
          /\ sendAt' = [sendAt EXCEPT ![p] = IF p = Watchdog THEN "idle" ELSE "gone"]
          /\ UNCHANGED chan
       \/ /\ at[to[p]] # "closed" /\ Len(chan[to[p]]) < capacity
          /\ chan' = [chan EXCEPT ![to[p]] = Append(@, p)]
          /\ sendAt' = [sendAt EXCEPT ![p] = IF p = Watchdog THEN "idle" ELSE "delivered"]
    /\ readers' = readers \ {p}
    /\ UNCHANGED <<fixed, at, queue, registry, to, injected, issued>>

\* A client of inject closes its connection: the handler is dropped where it waits.
GiveUp(p) ==
    /\ p \in Callers /\ sendAt[p] \in {"waiting", "sending"}
    /\ sendAt' = [sendAt EXCEPT ![p] = "dropped"]
    /\ queue' = SelectSeq(queue, LAMBDA x : x # p)
    /\ readers' = readers \ {p}
    /\ UNCHANGED <<fixed, at, registry, chan, to, injected, issued>>

-----------------------------------------------------------------------------
ConnStep(c) ==
    OpenPty(c) \/ Register(c) \/ QuorumEnds(c) \/ Unregister(c)

TerminalNext ==
    \/ \E c \in Conns : ConnStep(c) \/ VerifyToken(c) \/ AskQuorum(c) \/ Panic(c)
                        \/ Inject(c) \/ Leave(c)
    \/ \E p \in Senders : Instruct(p) \/ LookUp(p) \/ Send(p) \/ GiveUp(p)
    \/ IssueUltimatum

TerminalSpec == TerminalInit /\ [][TerminalNext]_terminalVars

\* The runtime polls what is ready; select! chooses among its ready branches at random,
\* so that what was sent is received in the end, and a quorum wait ends after its polls.
\* No client is assumed to close its connection or to give up.
FairTerminalSpec ==
    /\ TerminalSpec
    /\ \A c \in Conns : WF_terminalVars(ConnStep(c)) /\ SF_terminalVars(Inject(c))
    /\ \A p \in Senders : WF_terminalVars(LookUp(p)) /\ SF_terminalVars(Send(p))

-----------------------------------------------------------------------------
(* Properties.                                                              *)

Places == {"new", "open", "register", "loop", "quorum", "unregister", "closed"}
Answers == {"delivered", "gone", "notfound", "dropped"}

TypeOK ==
    /\ capacity \in Capacities /\ faults \in FaultSets
    /\ at \in [Conns -> Places]
    /\ queue \in Seq(Conns \cup Senders)
    /\ readers \subseteq Senders
    /\ registry \in [Machines -> Conns \cup {NoConn}]
    /\ chan \in [Conns -> Seq(Senders)] /\ \A c \in Conns : Len(chan[c]) <= capacity
    /\ sendAt \in [Senders -> {"idle", "waiting", "sending"} \cup Answers]
    /\ to \in [Senders -> Conns \cup {NoConn}]
    /\ injected \subseteq Callers
    /\ issued \in 0 .. MaxUltimata

\* The registry never names a connection that is gone, in whatever order connections to
\* one machine come and end, unless one of them panicked: no call is answered "PTY
\* session no longer active" (pty_proxy, inject).
RegisteredIsOpen ==
    "panic" \notin faults =>
        /\ \A m \in Machines : registry[m] # NoConn =>
               MachineOf[registry[m]] = m /\ at[registry[m]] \in {"loop", "quorum", "unregister"}
        /\ \A p \in Callers : sendAt[p] # "gone"

\* As much room as there are messages (the capacity is that of each channel).
Roomy == capacity >= Cardinality(Callers) + MaxUltimata

\* A sender that holds the lock of the registry is never kept waiting for room, however
\* many terminals the texts are spread over: then no writer waits behind it (send().await
\* under the read guard, in inject and issue_ultimatum).
RoomIsEnough ==
    Roomy => \A p \in Senders :
        sendAt[p] = "sending" /\ at[to[p]] # "closed" => Len(chan[to[p]]) < capacity

\* Text whose sender was told "delivered" is not lost while its terminal lasts: it has
\* been written or is still in the channel, also when the machine has connected again and
\* the entry in the registry is that of another connection (the branch on instruct_rx).
DeliveredIsKept ==
    \A p \in Callers : sendAt[p] = "delivered" =>
        \/ p \in injected
        \/ at[to[p]] \in {"unregister", "closed"}
        \/ \E i \in DOMAIN chan[to[p]] : chan[to[p]][i] = p

\* Text whose sender was told "delivered" is written to the shell, or the terminal
\* ends; a quorum wait only delays it (the branch on instruct_rx).
DeliveredIsInjected ==
    \A p \in Callers :
        Roomy /\ sendAt[p] = "delivered" ~> p \in injected \/ (to[p] \in Conns /\ at[to[p]] = "closed")

\* Every instruction is answered, and every terminal that was opened or left gets on:
\* nobody waits for the registry for ever (pty_registry).
NobodyWaitsForLock ==
    \A p \in Conns \cup Senders : Roomy /\ p \in {queue[i] : i \in DOMAIN queue} ~>
        p \notin {queue[i] : i \in DOMAIN queue}

\* The watchdog goes on to its next machine (monitor.rs: "Spawns a tokio task that runs
\* forever, monitoring all active agent sessions").
WatchdogKeepsWatching == sendAt[Watchdog] # "idle" ~> sendAt[Watchdog] = "idle"
=============================================================================
