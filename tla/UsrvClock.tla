----------------------------- MODULE UsrvClock -----------------------------
(***************************************************************************)
(* usrvclock-rs/src/lib.rs: the datagram protocol by which the PTP daemon  *)
(* publishes its clock overlay.  A client binds a socket file of its own,  *)
(* connects to the server's and sends an empty datagram; from then on      *)
(* every Server::send puts an overlay into the client's socket.            *)
(*                                                                         *)
(* The kernel's part: a connected datagram socket gets datagrams from its  *)
(* peer only, and recv() on it reports no error when the peer goes away;   *)
(* sending to a file that is gone, or that nobody has bound, fails.        *)
(* An overlay is not told from another one of the same server.             *)
(***************************************************************************)
EXTENDS Integers, FiniteSets

CONSTANTS
    Clients,       \* the clients (a process may have several)
    Backlog        \* datagrams that fit into a socket

ASSUME BacklogAssumption == Backlog \in Nat \ {0}

VARIABLES
    server,        \* "down" or "up"
    path,          \* the server's socket file: "none", "stale" or "live"
    inbox,         \* clients whose first datagram is in the server's socket
    listed,        \* Server.clients
    client,        \* where each client's loop is, "off" if it is not running
    peer,          \* whom its socket is connected to: "none", "live", "dead"
    reply,         \* does the client's own socket file exist?
    queue,         \* overlays in the client's socket
    heard          \* the client has an overlay of the server that runs now

clockVars == <<server, path, inbox, listed, client, peer, reply, queue, heard>>

serverVars == <<server, path, inbox, listed>>
clientVars == <<client, peer, reply, queue, heard>>

ClockInit ==
    /\ server = "down"
    /\ path = "none"
    /\ inbox = {}
    /\ listed = {}
    /\ client = [c \in Clients |-> "off"]
    /\ peer = [c \in Clients |-> "none"]
    /\ reply = [c \in Clients |-> FALSE]
    /\ queue = [c \in Clients |-> 0]
    /\ heard = [c \in Clients |-> FALSE]

-----------------------------------------------------------------------------
(* The server *)

\* Server::new removes what is at the path and binds it again.
ServerNew ==
    /\ server = "down"
    /\ server' = "up"
    /\ path' = "live"
    /\ UNCHANGED <<inbox, listed, clientVars>>

\* A client gets a datagram: its file is there and it is still connected to
\* this server.
Reachable(c) == reply[c] /\ peer[c] = "live"

HasRoom(c) == queue[c] < Backlog

\* A plausible bug: a client whose socket is full is taken for dead.
KeptIfNotFull == {c \in listed \cup inbox : Reachable(c) /\ HasRoom(c)}

\* Which clients `retain` keeps: WouldBlock is no reason to drop one.
Kept == {c \in listed \cup inbox : Reachable(c)}

\* send(): take all new clients, send the overlay to everybody, forget those
\* who are gone.
Send ==
    /\ server = "up"
    /\ listed' = Kept
    /\ inbox' = {}
    /\ queue' = [c \in Clients |->
                    IF c \in listed \cup inbox /\ Reachable(c) /\ HasRoom(c)
                    THEN queue[c] + 1 ELSE queue[c]]
    /\ UNCHANGED <<server, path, client, peer, reply, heard>>

\* The daemon ends: its socket file stays unless it could drop the server.
ServerGone(left) ==
    /\ server = "up"
    /\ server' = "down"
    /\ path' = IF path = "live" THEN left ELSE path
    /\ inbox' = {}
    /\ listed' = {}
    /\ peer' = [c \in Clients |-> IF peer[c] = "live" THEN "dead" ELSE peer[c]]
    /\ heard' = [c \in Clients |-> FALSE]
    /\ UNCHANGED <<client, reply, queue>>

-----------------------------------------------------------------------------
(* A client: BlockingClient::recv, or recv_loop of AsyncClient *)

ClientStarts(c) ==
    /\ client[c] = "off"
    /\ client' = [client EXCEPT ![c] = "unbound"]
    /\ UNCHANGED <<serverVars, peer, reply, queue, heard>>

\* bind: the counter in the file's name makes every attempt another file.
Bind(c) ==
    /\ client[c] = "unbound"
    /\ client' = [client EXCEPT ![c] = "bound"]
    /\ reply' = [reply EXCEPT ![c] = TRUE]
    /\ queue' = [queue EXCEPT ![c] = 0]
    /\ UNCHANGED <<serverVars, peer, heard>>

Connect(c) ==
    /\ client[c] = "bound"
    /\ path = "live"
    /\ client' = [client EXCEPT ![c] = "hello"]
    /\ peer' = [peer EXCEPT ![c] = "live"]
    /\ UNCHANGED <<serverVars, reply, queue, heard>>

\* The client gives the attempt up: drop, remove_file, sleep 250 ms.
Discard(c) ==
    /\ client' = [client EXCEPT ![c] = "unbound"]
    /\ peer' = [peer EXCEPT ![c] = "none"]
    /\ reply' = [reply EXCEPT ![c] = FALSE]
    /\ queue' = [queue EXCEPT ![c] = 0]

\* Nobody listens at the path.
ConnectRefused(c) ==
    /\ client[c] = "bound"
    /\ path # "live"
    /\ Discard(c)
    /\ UNCHANGED <<serverVars, heard>>

\* The empty datagram; it waits while the server's socket is full.
Hello(c) ==
    /\ client[c] = "hello"
    /\ peer[c] = "live"
    /\ Cardinality(inbox) < Backlog
    /\ inbox' = inbox \cup {c}
    /\ client' = [client EXCEPT ![c] = "receiving"]
    /\ UNCHANGED <<server, path, listed, peer, reply, queue, heard>>

\* The server went away in between.
HelloRefused(c) ==
    /\ client[c] = "hello"
    /\ peer[c] = "dead"
    /\ Discard(c)
    /\ UNCHANGED <<serverVars, heard>>

\* recv gives the oldest datagram; what a dead server left is decoded, too.
Receive(c) ==
    /\ client[c] = "receiving"
    /\ queue[c] > 0
    /\ queue' = [queue EXCEPT ![c] = @ - 1]
    /\ heard' = [heard EXCEPT ![c] = @ \/ peer[c] = "live"]
    /\ UNCHANGED <<serverVars, client, peer, reply>>

\* The process ends, or stops its client, which removes its file if it is asked
\* to; a killed one leaves it behind, bound by nobody.
ClientGone(c) ==
    /\ client[c] # "off"
    /\ client' = [client EXCEPT ![c] = "off"]
    /\ peer' = [peer EXCEPT ![c] = "none"]
    /\ reply' = [reply EXCEPT ![c] = FALSE]
    /\ queue' = [queue EXCEPT ![c] = 0]
    /\ heard' = [heard EXCEPT ![c] = FALSE]
    /\ inbox' = inbox \ {c}
    /\ UNCHANGED <<server, path, listed>>

ClientStep(c) ==
    \/ Bind(c)
    \/ Connect(c)
    \/ ConnectRefused(c)
    \/ Hello(c)
    \/ HelloRefused(c)
    \/ Receive(c)

ClockNext ==
    \/ ServerNew
    \/ Send
    \/ \E left \in {"stale", "none"} : ServerGone(left)
    \/ \E c \in Clients : ClientStarts(c) \/ ClientGone(c) \/ ClientStep(c)

ClockSpec ==
    /\ ClockInit
    /\ [][ClockNext]_clockVars
    /\ WF_clockVars(ServerNew)
    /\ WF_clockVars(Send)
    /\ \A c \in Clients : WF_clockVars(ClientStep(c))

-----------------------------------------------------------------------------
(* Properties *)

ClockTypeOK ==
    /\ server \in {"down", "up"}
    /\ path \in {"none", "stale", "live"}
    /\ path = "live" => server = "up"
    /\ inbox \in SUBSET Clients /\ Cardinality(inbox) <= Backlog
    /\ listed \in SUBSET Clients
    /\ server = "down" => inbox = {} /\ listed = {}
    /\ client \in [Clients -> {"off", "unbound", "bound", "hello", "receiving"}]
    /\ peer \in [Clients -> {"none", "live", "dead"}]
    /\ reply \in [Clients -> BOOLEAN]
    /\ queue \in [Clients -> 0 .. Backlog]
    /\ heard \in [Clients -> BOOLEAN]

\* A client that has said hello to the server that runs, and whose file is
\* there, is in the server's socket or in its list: however slow the client is,
\* Server::send does not lose it.
NobodyIsForgotten ==
    \A c \in Clients :
        client[c] = "receiving" /\ Reachable(c) => c \in inbox \cup listed

\* lib.rs:372: "If the server stops (is restarted, crashes etc.), it will try to
\* connect again."  A client that keeps running hears a server that stays.
ClientReconnects ==
    \A c \in Clients :
        <>[](server = "up" /\ path = "live" /\ client[c] # "off") => <>[]heard[c]

=============================================================================
