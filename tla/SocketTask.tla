------------------------------ MODULE SocketTask ------------------------------
(***************************************************************************)
(* The socket tasks (socket_task/source): a server accepts one connection, *)
(* sends its text, prints what it receives and ends; a client connects,    *)
(* sends its text and prints what is in its buffer after recv.  The        *)
(* address is a file name (aflocal) or a port (afinet).                    *)
(***************************************************************************)
EXTENDS Naturals, Sequences, FiniteSets

CONSTANT MaxProcesses   \* bound on the servers, and on the clients, started
Servers == 1..MaxProcesses
Clients == 1..MaxProcesses
None == 0

VARIABLES
    family,     \* "aflocal" or "afinet"
    address,    \* the server the address leads to
    pending,    \* of each server: who connected and was not accepted
    accepted,   \* of each server: the client it talks to
    srv, cli    \* where each process is

vars == <<family, address, pending, accepted, srv, cli>>

-----------------------------------------------------------------------------
(* The name is taken over from any server that has it; a port in use, or   *)
(* used shortly before, is not.                                            *)
Bind(s) ==
    /\ srv[s] = "none"
    /\ family' \in IF \A t \in Servers : srv[t] = "none" THEN {"aflocal", "afinet"} ELSE {family}
    /\ \/ /\ family' = "aflocal" \/ address = None
          /\ address' = s
          /\ srv' = [srv EXCEPT ![s] = "accept"]
       \/ /\ family' = "afinet" /\ \E t \in Servers : srv[t] # "none"
          /\ srv' = [srv EXCEPT ![s] = "failed"]
          /\ UNCHANGED address
    /\ UNCHANGED <<pending, accepted, cli>>

Accept(s) ==
    /\ srv[s] = "accept" /\ pending[s] # <<>>
    /\ accepted' = [accepted EXCEPT ![s] = Head(pending[s])]
    /\ pending' = [pending EXCEPT ![s] = Tail(@)]
    /\ srv' = [srv EXCEPT ![s] = "send"]
    /\ UNCHANGED <<family, address, cli>>

SendText(s) ==
    /\ srv[s] = "send"
    /\ srv' = [srv EXCEPT ![s] = "recv"]
    /\ UNCHANGED <<family, address, pending, accepted, cli>>

(* Mutant: the server does not wait for the text of the client.            *)
EndAtOnce(s) ==
    /\ srv[s] = "recv"
    /\ srv' = [srv EXCEPT ![s] = "over"]
    /\ address' = IF family = "aflocal" \/ address = s THEN None ELSE address
    /\ UNCHANGED <<family, pending, accepted, cli>>

(* recv, print, unlink and exit: the name goes whoever has it by now.      *)
RecvAndEnd(s) ==
    /\ srv[s] = "recv" /\ cli[accepted[s]] # "send"
    /\ srv' = [srv EXCEPT ![s] = "over"]
    /\ address' = IF family = "aflocal" \/ address = s THEN None ELSE address
    /\ UNCHANGED <<family, pending, accepted, cli>>

-----------------------------------------------------------------------------
Connect(c) ==
    /\ cli[c] = "none"
    /\ cli' = [cli EXCEPT ![c] = IF address = None THEN "failed" ELSE "send"]
    /\ pending' = [s \in Servers |-> IF s = address THEN Append(pending[s], c) ELSE pending[s]]
    /\ UNCHANGED <<family, address, accepted, srv>>

(* The server has ended without accepting the client.                      *)
IsReset(c) == \E s \in Servers : srv[s] = "over" /\ \E k \in DOMAIN pending[s] : pending[s][k] = c

(* A local socket that was reset kills who writes to it; of the others     *)
(* the result of send is not looked at.                                    *)
SendOwn(c) ==
    /\ cli[c] = "send"
    /\ cli' = [cli EXCEPT ![c] = IF family = "aflocal" /\ IsReset(c) THEN "killed" ELSE "recv"]
    /\ UNCHANGED <<family, address, pending, accepted, srv>>

(* The result of recv is not looked at either: if it fails, the buffer     *)
(* still holds the client's own text.                                      *)
RecvAndPrint(c) ==
    /\ cli[c] = "recv"
    /\ \/ /\ \E s \in Servers : accepted[s] = c /\ srv[s] \in {"recv", "over"}
          /\ cli' = [cli EXCEPT ![c] = "printed answer"]
       \/ /\ IsReset(c)
          /\ cli' = [cli EXCEPT ![c] = "printed own"]
    /\ UNCHANGED <<family, address, pending, accepted, srv>>

-----------------------------------------------------------------------------
Init ==
    /\ family = "aflocal"
    /\ address = None
    /\ pending = [s \in Servers |-> <<>>]
    /\ accepted = [s \in Servers |-> None]
    /\ srv = [s \in Servers |-> "none"] /\ cli = [c \in Clients |-> "none"]

Next ==
    \/ \E s \in Servers : Bind(s) \/ Accept(s) \/ SendText(s) \/ RecvAndEnd(s)
    \/ \E c \in Clients : Connect(c) \/ SendOwn(c) \/ RecvAndPrint(c)

Spec == Init /\ [][Next]_vars

-----------------------------------------------------------------------------
(* A client prints a server's text if and only if one accepted it, and     *)
(* each server serves one client: the others print their own text, as if   *)
(* it had been received, or are killed, or wait.                           *)
AcceptedGetsAnswer ==
    /\ \A c \in Clients :
          /\ cli[c] = "printed answer" => Cardinality({s \in Servers : accepted[s] = c}) = 1
          /\ cli[c] \in {"printed own", "killed"} => \A s \in Servers : accepted[s] # c
    /\ \A s \in Servers : srv[s] = "over" => cli[accepted[s]] \in {"recv", "printed answer"}
=============================================================================
