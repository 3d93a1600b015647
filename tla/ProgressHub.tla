----------------------------- MODULE ProgressHub -----------------------------
(***************************************************************************)
(* The WebSocket connections of one pipeline (_ws_connections,             *)
(* pipeline_websocket and broadcast_progress in app/api/pipelines.py).     *)
(* The agents of a tier report at the same time, so several broadcasts     *)
(* walk the list of connections while clients come and go.                 *)
(*                                                                         *)
(* Python lists are objects: "for ws in _ws_connections[pid]" keeps the    *)
(* list it began with and an index into it; append and remove change the   *)
(* list of the dict in place, under the walks that began with it; a        *)
(* handler that ends puts a new list in the dict, and the old one stays as *)
(* it is for the walks that have it.  A step is what happens between two   *)
(* awaits.                                                                 *)
(***************************************************************************)
EXTENDS Lists, SequencesExt

CONSTANTS
  Client,     \* WebSocket connections, each made once
  Broadcast   \* calls of broadcast_progress, each made once

VARIABLES
  hasKey,       \* whether _ws_connections has the pipeline
  connections,  \* the list that is its value, <<>> without a key
  socket,       \* per client, the connection and its handler
  status,       \* per broadcast, where it is
  shared,       \* per broadcast, whether it walks the list of the dict
  old,          \* per broadcast, the list it walks otherwise
  index,        \* per broadcast, the index its walk has reached
  target,       \* per broadcast, the connection it awaits the send to
  dead,         \* per broadcast, the connections to remove
  received,     \* per broadcast, how often each client got the event
  audience      \* per broadcast, the connections open when it began (history)

vars == <<hasKey, connections, socket, status, shared, old, index, target, dead,
          received, audience>>

NoTarget == "none"

TypeOK ==
  /\ hasKey \in BOOLEAN
  /\ connections \in Seq(Client)
  /\ socket \in [Client -> {"none", "open", "closed", "gone"}]
  /\ status \in [Broadcast -> {"idle", "sending", "done", "raised", "cut-off"}]
  /\ shared \in [Broadcast -> BOOLEAN]
  /\ old \in [Broadcast -> Seq(Client)]
  /\ index \in [Broadcast -> Nat]
  /\ target \in [Broadcast -> Client \cup {NoTarget}]
  /\ \A b \in Broadcast : status[b] = "sending" => target[b] \in Client
  /\ dead \in [Broadcast -> Seq(Client)]
  /\ received \in [Broadcast -> [Client -> Nat]]
  /\ audience \in [Broadcast -> SUBSET Client]
  /\ ~ hasKey => connections = <<>>

Init ==
  /\ hasKey = FALSE
  /\ connections = <<>>
  /\ socket = [c \in Client |-> "none"]
  /\ status = [b \in Broadcast |-> "idle"]
  /\ shared = [b \in Broadcast |-> FALSE]
  /\ old = [b \in Broadcast |-> <<>>]
  /\ index = [b \in Broadcast |-> 0]
  /\ target = [b \in Broadcast |-> NoTarget]
  /\ dead = [b \in Broadcast |-> <<>>]
  /\ received = [b \in Broadcast |-> [c \in Client |-> 0]]
  /\ audience = [b \in Broadcast |-> {}]

(* The list that a broadcast walks, as it is now. *)
Walked(b) == IF shared[b] THEN connections ELSE old[b]

-----------------------------------------------------------------------------
(* pipeline_websocket *)

(* Mutants: the newest connection is put first; the list of a pipeline     *)
(* without connections is not put into the dict.                           *)
RegisterFirst(c) ==
  /\ socket[c] = "none"
  /\ socket' = [socket EXCEPT ![c] = "open"]
  /\ hasKey' = TRUE
  /\ connections' = <<c>> \o connections
  /\ UNCHANGED <<status, shared, old, index, target, dead, received, audience>>

RegisterIfKnown(c) ==
  /\ socket[c] = "none"
  /\ socket' = [socket EXCEPT ![c] = "open"]
  /\ connections' = IF hasKey THEN Append(connections, c) ELSE <<>>
  /\ UNCHANGED <<hasKey, status, shared, old, index, target, dead, received, audience>>

(* accept, then registration without an await in between *)
Register(c) ==
  /\ socket[c] = "none"
  /\ socket' = [socket EXCEPT ![c] = "open"]
  /\ hasKey' = TRUE
  /\ connections' = Append(connections, c)
  /\ UNCHANGED <<status, shared, old, index, target, dead, received, audience>>

(* The client goes away; the handler does not know yet. *)
Disconnect(c) ==
  /\ socket[c] = "open"
  /\ socket' = [socket EXCEPT ![c] = "closed"]
  /\ UNCHANGED <<hasKey, connections, status, shared, old, index, target, dead, received,
                 audience>>

(* Mutant: the key is never deleted.                                       *)
UnregisterKeepsKey(c) ==
  /\ socket[c] = "closed"
  /\ socket' = [socket EXCEPT ![c] = "gone"]
  /\ connections' = Without(connections, {c})
  /\ shared' = [b \in Broadcast |-> FALSE]
  /\ old' = [b \in Broadcast |-> Walked(b)]
  /\ UNCHANGED <<hasKey, status, index, target, dead, received, audience>>

(* The receive, or the next ping, raises; the finally clause puts a new    *)
(* list in the dict, or deletes the key when no connection is left.        *)
Unregister(c) ==
  /\ socket[c] = "closed"
  /\ socket' = [socket EXCEPT ![c] = "gone"]
  /\ connections' = Without(connections, {c})
  /\ hasKey' = (connections' # <<>>)
  /\ shared' = [b \in Broadcast |-> FALSE]
  /\ old' = [b \in Broadcast |-> Walked(b)]
  /\ UNCHANGED <<status, index, target, dead, received, audience>>

-----------------------------------------------------------------------------
(* broadcast_progress *)

Begin(b) ==
  /\ status[b] = "idle"
  /\ IF connections = <<>>
     THEN /\ status' = [status EXCEPT ![b] = "done"]
          /\ UNCHANGED <<shared, index, target, audience>>
     ELSE /\ status' = [status EXCEPT ![b] = "sending"]
          /\ shared' = [shared EXCEPT ![b] = TRUE]
          /\ index' = [index EXCEPT ![b] = 1]
          /\ target' = [target EXCEPT ![b] = Head(connections)]
          /\ audience' = [audience EXCEPT ![b] =
               {c \in ToSet(connections) : socket[c] = "open"}]
  /\ UNCHANGED <<hasKey, connections, socket, old, dead, received>>

(* The loop "for ws in dead": a connection that is not in the list any     *)
(* more raises ValueError, and without the key every one raises KeyError.  *)
RemoveDead(b, toRemove) ==
  LET missing == {i \in DOMAIN toRemove : toRemove[i] \notin ToSet(connections)}
      removed == {toRemove[i] : i \in {j \in DOMAIN toRemove : \A m \in missing : j < m}}
  IN  /\ status' = [status EXCEPT ![b] = IF missing = {} THEN "done" ELSE "raised"]
      /\ connections' = Without(connections, removed)

(* Mutant: the last connection of the list is not reached.                 *)
EndSendOneShort(b, failed) ==
  LET next  == index[b] + 1
      found == IF failed THEN Append(dead[b], target[b]) ELSE dead[b]
  IN  /\ IF next < Len(Walked(b))
         THEN /\ index' = [index EXCEPT ![b] = next]
              /\ target' = [target EXCEPT ![b] = Walked(b)[next]]
              /\ dead' = [dead EXCEPT ![b] = found]
              /\ UNCHANGED <<connections, status, shared, old>>
         ELSE /\ RemoveDead(b, found)
              /\ shared' = [shared EXCEPT ![b] = FALSE]
              /\ UNCHANGED <<old, index, target, dead>>
      /\ UNCHANGED <<hasKey, socket, audience>>

(* The send to target[b] has ended; failed says whether it raised.  The    *)
(* walk goes on to the next index of the list as it is now; when there is  *)
(* none it is over, and what it kept is forgotten.                         *)
EndSend(b, failed) ==
  LET next  == index[b] + 1
      found == IF failed THEN Append(dead[b], target[b]) ELSE dead[b]
  IN  /\ IF next <= Len(Walked(b))
         THEN /\ index' = [index EXCEPT ![b] = next]
              /\ target' = [target EXCEPT ![b] = Walked(b)[next]]
              /\ dead' = [dead EXCEPT ![b] = found]
              /\ UNCHANGED <<connections, status, shared, old>>
         ELSE /\ RemoveDead(b, found)
              /\ shared' = [shared EXCEPT ![b] = FALSE]
              /\ old' = [old EXCEPT ![b] = <<>>]
              /\ index' = [index EXCEPT ![b] = 0]
              /\ target' = [target EXCEPT ![b] = NoTarget]
              /\ dead' = [dead EXCEPT ![b] = <<>>]
      /\ UNCHANGED <<hasKey, socket, audience>>

Delivered(b) ==
  /\ socket[target[b]] = "open"
  /\ received' = [received EXCEPT ![b][target[b]] = @ + 1]
  /\ EndSend(b, FALSE)

(* A send to a connection that is closed raises, or is lost. *)
NotDelivered(b) ==
  /\ socket[target[b]] # "open"
  /\ \E failed \in BOOLEAN : EndSend(b, failed)
  /\ UNCHANGED received

Send(b) == status[b] = "sending" /\ (Delivered(b) \/ NotDelivered(b))

(* The pipeline timeout cancels the agents in the middle of a send, which  *)
(* may have gone out: CancelledError is no Exception, so that the walk and *)
(* the cleanup that would have followed it are lost.                       *)
CutOff(b) ==
  /\ status[b] = "sending"
  /\ status' = [status EXCEPT ![b] = "cut-off"]
  /\ \/ UNCHANGED received
     \/ /\ socket[target[b]] = "open"
        /\ received' = [received EXCEPT ![b][target[b]] = @ + 1]
  /\ shared' = [shared EXCEPT ![b] = FALSE]
  /\ old' = [old EXCEPT ![b] = <<>>]
  /\ index' = [index EXCEPT ![b] = 0]
  /\ target' = [target EXCEPT ![b] = NoTarget]
  /\ dead' = [dead EXCEPT ![b] = <<>>]
  /\ UNCHANGED <<hasKey, connections, socket, audience>>

Next ==
  \/ \E c \in Client : Register(c) \/ Disconnect(c) \/ Unregister(c)
  \/ \E b \in Broadcast : Begin(b) \/ Send(b) \/ CutOff(b)

Spec == Init /\ [][Next]_vars

-----------------------------------------------------------------------------

(***************************************************************************)
(* No client gets an event twice, however the list changes under the walk. *)
(***************************************************************************)
AtMostOnce == \A b \in Broadcast : \A c \in Client : received[b][c] <= 1

(***************************************************************************)
(* The cleanup of dead connections, by broadcasts and by other handlers,   *)
(* never costs a client that is connected its place: the next event goes   *)
(* to it too.                                                              *)
(***************************************************************************)
LiveClientsStay == \A c \in Client : socket[c] = "open" => c \in ToSet(connections)

(***************************************************************************)
(* Nothing leaks: a connection whose handler has ended is in no event's    *)
(* way, no connection is listed twice, and with the last handler the key   *)
(* of the pipeline goes.                                                   *)
(***************************************************************************)
NothingLeaks ==
  /\ \A c \in ToSet(connections) : socket[c] \in {"open", "closed"}
  /\ IsInjective(connections)
  /\ (\A c \in Client : socket[c] \in {"none", "gone"}) => ~ hasKey

(***************************************************************************)
(* Clients that stay are served: while no connection has been closed, no   *)
(* broadcast raises (which would fail the run, or lose the update of an    *)
(* agent's row) and every event that is not cut off by the pipeline        *)
(* timeout reaches all that were there when it was sent, however many      *)
(* broadcasts overlap, are cut off, and clients join.                      *)
(***************************************************************************)
ServedWhileNobodyLeaves ==
  (\A c \in Client : socket[c] \in {"none", "open"}) =>
    \A b \in Broadcast :
      /\ status[b] # "raised"
      /\ status[b] = "done" => \A c \in audience[b] : received[b][c] = 1

=============================================================================
