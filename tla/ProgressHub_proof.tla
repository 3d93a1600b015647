------------------------- MODULE ProgressHub_proof -------------------------
(***************************************************************************)
(* The safety invariants of ProgressHub, for any clients and broadcasts.   *)
(***************************************************************************)
EXTENDS ProgressHub, Lists_proof

-----------------------------------------------------------------------------
(* The inductive invariant. *)

(* The list of the dict has connections whose handlers have not ended,     *)
(* each once, and all that are open.                                       *)
Listed ==
  /\ IsInjective(connections)
  /\ \A c \in ToSet(connections) : socket[c] \in {"open", "closed"}
  /\ LiveClientsStay

(* The lists that only walks still have were made of such connections. *)
OldListed ==
  \A b \in Broadcast : /\ IsInjective(old[b])
                       /\ \A c \in ToSet(old[b]) : socket[c] # "none"

(* The key is there for a handler that will delete it. *)
KeyInUse == hasKey => \E c \in Client : socket[c] \in {"open", "closed"}

(* A send fails only to a connection that was made and is not open: it     *)
(* will not be open again.                                                 *)
DeadLeft == \A b \in Broadcast : \A c \in ToSet(dead[b]) : socket[c] \in {"closed", "gone"}

(* What the walk of b still has ahead: connections that were made, have    *)
(* not got the event, and are there once.                                  *)
Ahead(b) ==
  /\ socket[target[b]] # "none"
  /\ received[b][target[b]] = 0
  /\ \A i \in 1 .. Len(Walked(b)) :
       i > index[b] => received[b][Walked(b)[i]] = 0 /\ Walked(b)[i] # target[b]

Walks ==
  \A b \in Broadcast :
    /\ \A c \in Client : received[b][c] > 0 => socket[c] # "none"
    /\ status[b] = "idle" => /\ \A c \in Client : received[b][c] = 0
                             /\ audience[b] = {}
    /\ status[b] = "sending" => Ahead(b)

NobodyLeft == \A c \in Client : socket[c] \in {"none", "open"}

(* While no connection is closed, a walk is over the list of the dict, and *)
(* those behind it have the event.                                         *)
Behind(b) ==
  /\ shared[b]
  /\ dead[b] = <<>>
  /\ index[b] \in 1 .. Len(connections)
  /\ target[b] = connections[index[b]]
  /\ \A i \in 1 .. Len(connections) : i < index[b] => received[b][connections[i]] = 1
  /\ audience[b] \subseteq ToSet(connections)

Served ==
  NobodyLeft => \A b \in Broadcast :
    /\ status[b] # "raised"
    /\ status[b] = "done" => \A c \in audience[b] : received[b][c] = 1
    /\ status[b] \in {"idle", "done"} => dead[b] = <<>>
    /\ status[b] = "sending" => Behind(b)

IInv ==
  /\ TypeOK
  /\ Listed
  /\ OldListed
  /\ KeyInUse
  /\ DeadLeft
  /\ Walks
  /\ AtMostOnce
  /\ Served

-----------------------------------------------------------------------------
(* A member of a list has a position in it. *)
LEMMA Position ==
  ASSUME NEW list \in Seq(Client)
  PROVE  /\ ToSet(list) \subseteq Client
         /\ \A i \in 1 .. Len(list) : list[i] \in Client /\ list[i] \in ToSet(list)
         /\ \A c \in ToSet(list) : \E i \in 1 .. Len(list) : list[i] = c
BY DEF ToSet

(* What a walk goes over is a list of connections that were made.          *)
LEMMA WalkedFits ==
  ASSUME IInv, NEW b \in Broadcast
  PROVE  /\ Walked(b) \in Seq(Client)
         /\ IsInjective(Walked(b))
         /\ \A i \in 1 .. Len(Walked(b)) : socket[Walked(b)[i]] # "none"
<1>1. /\ connections \in Seq(Client) /\ old[b] \in Seq(Client)
      /\ IsInjective(connections) /\ IsInjective(old[b])
  BY DEF IInv, TypeOK, Listed, OldListed
<1>2. CASE shared[b]
  <2>1. Walked(b) = connections
    BY <1>2 DEF Walked
  <2>2. \A i \in 1 .. Len(connections) : socket[connections[i]] # "none"
    BY <1>1, Position DEF IInv, Listed
  <2> QED
    BY <1>1, <2>1, <2>2
<1>3. CASE ~ shared[b]
  <2>1. Walked(b) = old[b]
    BY <1>3 DEF Walked
  <2>2. \A i \in 1 .. Len(old[b]) : socket[old[b][i]] # "none"
    BY <1>1, Position DEF IInv, OldListed
  <2> QED
    BY <1>1, <2>1, <2>2
<1> QED
  BY <1>2, <1>3

(* The invariant holds at first. *)
LEMMA InitIInv == Init => IInv
<1> SUFFICES ASSUME Init PROVE IInv
  OBVIOUS
<1> USE DEF Init
<1>1. TypeOK
  <2>1. <<>> \in Seq(Client)
    OBVIOUS
  <2>2. /\ connections \in Seq(Client)
        /\ old \in [Broadcast -> Seq(Client)]
        /\ dead \in [Broadcast -> Seq(Client)]
    BY <2>1
  <2>3. /\ hasKey \in BOOLEAN
        /\ socket \in [Client -> {"none", "open", "closed", "gone"}]
        /\ status \in [Broadcast -> {"idle", "sending", "done", "raised", "cut-off"}]
        /\ shared \in [Broadcast -> BOOLEAN]
        /\ audience \in [Broadcast -> SUBSET Client]
    OBVIOUS
  <2>4. index \in [Broadcast -> Nat] /\ received \in [Broadcast -> [Client -> Nat]]
    OBVIOUS
  <2>5. /\ target \in [Broadcast -> Client \cup {NoTarget}]
        /\ \A b \in Broadcast : status[b] # "sending"
    OBVIOUS
  <2>6. connections = <<>>
    OBVIOUS
  <2> QED
    BY <2>2, <2>3, <2>4, <2>5, <2>6 DEF TypeOK
<1>2. ToSet(<<>>) = {} /\ IsInjective(<<>>)
  BY DEF ToSet, IsInjective
<1>3. Listed
  BY <1>2 DEF Listed, LiveClientsStay
<1>4. OldListed
  BY <1>2 DEF OldListed
<1>5. KeyInUse
  BY DEF KeyInUse
<1>6. DeadLeft
  BY <1>2 DEF DeadLeft
<1>7. Walks
  BY DEF Walks
<1>8. AtMostOnce
  BY DEF AtMostOnce
<1>9. Served
  BY DEF Served
<1> QED
  BY <1>1, <1>3, <1>4, <1>5, <1>6, <1>7, <1>8, <1>9 DEF IInv

(* A client that connects is put behind every walk over the list. *)
LEMMA RegisterStep ==
  ASSUME IInv, NEW c \in Client, Register(c)
  PROVE  IInv'
<1> USE DEF Register
<1>1. TypeOK'
  BY DEF IInv, TypeOK
<1>2. /\ connections \in Seq(Client) /\ connections' = Append(connections, c)
      /\ Len(connections') = Len(connections) + 1
      /\ connections'[Len(connections) + 1] = c
      /\ \A i \in 1 .. Len(connections) : connections'[i] = connections[i]
      /\ Len(connections) \in Nat
  BY DEF IInv, TypeOK
<1>3. ToSet(connections') = ToSet(connections) \cup {c}
  BY <1>2 DEF ToSet
<1>4. c \notin ToSet(connections) /\ socket[c] = "none" /\ socket \in [Client -> {"none", "open", "closed", "gone"}]
  BY DEF IInv, Listed, TypeOK
<1>5. socket' = [socket EXCEPT ![c] = "open"]
  OBVIOUS
<1>6. Listed'
  <2>1. IsInjective(connections')
    <3> SUFFICES ASSUME NEW i \in 1 .. Len(connections'), NEW j \in 1 .. Len(connections'),
                        connections'[i] = connections'[j], i < j
                 PROVE  FALSE
      BY <1>1, <1>2 DEF IsInjective
    <3>1. i \in 1 .. Len(connections) /\ connections[i] \in ToSet(connections)
      BY <1>2, Position
    <3>4. j \in 1 .. Len(connections) \/ j = Len(connections) + 1
      BY <1>2
    <3>2. CASE j \in 1 .. Len(connections)
      BY <1>2, <3>1, <3>2 DEF IsInjective, IInv, Listed
    <3>3. CASE j = Len(connections) + 1
      BY <1>2, <1>4, <3>1, <3>3
    <3> QED
      BY <3>2, <3>3, <3>4
  <2>2. \A d \in ToSet(connections') : socket'[d] \in {"open", "closed"}
    BY <1>2, <1>3, <1>4, <1>5, Position DEF IInv, Listed
  <2>3. LiveClientsStay'
    BY <1>3, <1>4, <1>5 DEF IInv, Listed, LiveClientsStay
  <2> QED
    BY <2>1, <2>2, <2>3 DEF Listed
<1>7. OldListed'
  <2>1. \A b \in Broadcast : ToSet(old[b]) \subseteq Client
    BY Position DEF IInv, TypeOK
  <2> QED
    BY <1>4, <2>1 DEF IInv, OldListed
<1>8. KeyInUse'
  BY <1>4 DEF KeyInUse
<1>9. DeadLeft'
  <2>1. \A b \in Broadcast : ToSet(dead[b]) \subseteq Client
    BY Position DEF IInv, TypeOK
  <2> QED
    BY <1>4, <2>1 DEF IInv, DeadLeft
<1>10. Walks'
  <2> SUFFICES ASSUME NEW b \in Broadcast
               PROVE  /\ \A d \in Client : received[b][d] > 0 => socket'[d] # "none"
                      /\ status[b] = "idle" => /\ \A d \in Client : received[b][d] = 0
                                               /\ audience[b] = {}
                      /\ status[b] = "sending" => Ahead(b)'
    BY DEF Walks
  <2>1. \A d \in Client : received[b][d] > 0 => socket'[d] # "none"
    BY <1>4 DEF IInv, Walks
  <2>2. ASSUME status[b] = "sending" PROVE Ahead(b)'
    <3>1. Ahead(b) /\ target[b] \in Client /\ index[b] \in Nat
      BY <2>2 DEF IInv, Walks, TypeOK
    <3>2. received[b][c] = 0 /\ target[b] # c
      <4>1. received[b][c] \in Nat
        BY DEF IInv, TypeOK
      <4> QED
        BY <1>4, <3>1, <4>1 DEF IInv, Walks, Ahead
    <3>3. ASSUME NEW i \in 1 .. Len(Walked(b)'), i > index[b]
          PROVE  received[b][Walked(b)'[i]] = 0 /\ Walked(b)'[i] # target[b]
      <4>1. CASE shared[b]
        <5>1. Walked(b) = connections /\ Walked(b)' = connections'
          BY <4>1 DEF Walked
        <5>2. CASE i \in 1 .. Len(connections)
          BY <1>2, <3>1, <3>3, <5>1, <5>2 DEF Ahead
        <5>3. CASE i = Len(connections) + 1
          BY <1>2, <3>2, <5>1, <5>3
        <5> QED
          BY <1>2, <5>1, <5>2, <5>3
      <4>2. CASE ~ shared[b]
        <5>1. Walked(b)' = Walked(b)
          BY <4>2 DEF Walked
        <5> QED
          BY <3>1, <3>3, <5>1 DEF Ahead
      <4> QED
        BY <4>1, <4>2
    <3>4. socket'[target[b]] # "none"
      BY <1>4, <3>1, <3>2 DEF Ahead
    <3> QED
      BY <3>1, <3>3, <3>4 DEF Ahead
  <2> QED
    BY <2>1, <2>2 DEF IInv, Walks
<1>11. AtMostOnce'
  BY DEF IInv, AtMostOnce
<1>12. Served'
  <2> SUFFICES ASSUME NobodyLeft', NEW b \in Broadcast
               PROVE  /\ status[b] # "raised"
                      /\ status[b] = "done" => \A d \in audience[b] : received[b][d] = 1
                      /\ status[b] \in {"idle", "done"} => dead[b] = <<>>
                      /\ status[b] = "sending" => Behind(b)'
    BY DEF Served
  <2>1. NobodyLeft
    BY <1>4 DEF NobodyLeft
  <2>2. ASSUME Behind(b) PROVE Behind(b)'
    BY <1>2, <1>3, <2>2 DEF Behind
  <2> QED
    BY <2>1, <2>2 DEF IInv, Served
<1> QED
  BY <1>1, <1>6, <1>7, <1>8, <1>9, <1>10, <1>11, <1>12 DEF IInv

(* A client that goes away changes no list. *)
LEMMA DisconnectStep ==
  ASSUME IInv, NEW c \in Client, Disconnect(c)
  PROVE  IInv'
<1> USE DEF Disconnect
<1>1. TypeOK'
  BY DEF IInv, TypeOK
<1>2. /\ socket \in [Client -> {"none", "open", "closed", "gone"}]
      /\ socket[c] = "open" /\ socket'[c] = "closed"
      /\ \A d \in Client \ {c} : socket'[d] = socket[d]
  BY DEF IInv, TypeOK
<1>3. /\ ToSet(connections) \subseteq Client
      /\ \A b \in Broadcast : ToSet(old[b]) \subseteq Client /\ ToSet(dead[b]) \subseteq Client
  BY Position DEF IInv, TypeOK
<1>4. Listed'
  BY <1>2, <1>3 DEF IInv, Listed, LiveClientsStay
<1>5. OldListed'
  BY <1>2, <1>3 DEF IInv, OldListed
<1>6. KeyInUse'
  BY <1>2 DEF KeyInUse
<1>7. DeadLeft'
  BY <1>2, <1>3 DEF IInv, DeadLeft
<1>8. Walks'
  <2> SUFFICES ASSUME NEW b \in Broadcast
               PROVE  /\ \A d \in Client : received[b][d] > 0 => socket'[d] # "none"
                      /\ status[b] = "sending" => Ahead(b)'
    BY DEF Walks, IInv
  <2>1. Walked(b)' = Walked(b)
    BY DEF Walked
  <2>2. status[b] = "sending" => target[b] \in Client
    BY DEF IInv, TypeOK
  <2>3. status[b] = "sending" => Ahead(b)'
    BY <1>2, <2>1, <2>2 DEF IInv, Walks, Ahead
  <2> QED
    BY <1>2, <2>3 DEF IInv, Walks
<1>9. AtMostOnce'
  BY DEF IInv, AtMostOnce
<1>10. Served'
  BY <1>2 DEF Served, NobodyLeft
<1> QED
  BY <1>1, <1>4, <1>5, <1>6, <1>7, <1>8, <1>9, <1>10 DEF IInv

(* A handler that ends leaves the walks the list they had. *)
LEMMA UnregisterStep ==
  ASSUME IInv, NEW c \in Client, Unregister(c)
  PROVE  IInv'
<1> USE DEF Unregister
<1>1. /\ connections \in Seq(Client)
      /\ connections' \in Seq(Client)
      /\ Shortened(connections', connections)
      /\ ToSet(connections') = ToSet(connections) \ {c}
  BY WithoutProperties DEF IInv, TypeOK
<1>2. /\ socket \in [Client -> {"none", "open", "closed", "gone"}]
      /\ socket[c] = "closed" /\ socket'[c] = "gone"
      /\ \A d \in Client \ {c} : socket'[d] = socket[d]
  BY DEF IInv, TypeOK
<1>3. /\ ToSet(connections) \subseteq Client
      /\ \A b \in Broadcast : ToSet(old[b]) \subseteq Client /\ ToSet(dead[b]) \subseteq Client
  BY Position DEF IInv, TypeOK
<1>4. \A b \in Broadcast : /\ shared'[b] = FALSE /\ old'[b] = Walked(b)
                           /\ Walked(b)' = Walked(b)
                           /\ Walked(b) \in Seq(Client) /\ IsInjective(Walked(b))
                           /\ \A i \in 1 .. Len(Walked(b)) : socket[Walked(b)[i]] # "none"
  BY WalkedFits DEF Walked
<1>5. TypeOK'
  <2>1. old' \in [Broadcast -> Seq(Client)] /\ shared' \in [Broadcast -> BOOLEAN]
    BY <1>4
  <2>2. socket' \in [Client -> {"none", "open", "closed", "gone"}]
    BY <1>2
  <2>3. hasKey' \in BOOLEAN /\ (~ hasKey' => connections' = <<>>)
    OBVIOUS
  <2> QED
    BY <1>1, <2>1, <2>2, <2>3 DEF IInv, TypeOK
<1>6. Listed'
  <2>1. IsInjective(connections')
    BY <1>1 DEF Shortened, IInv, Listed
  <2> QED
    BY <1>1, <1>2, <1>3, <2>1 DEF IInv, Listed, LiveClientsStay
<1>7. OldListed'
  <2> SUFFICES ASSUME NEW b \in Broadcast, NEW d \in ToSet(old'[b])
               PROVE  socket'[d] # "none"
    BY <1>4 DEF OldListed
  <2>1. PICK i \in 1 .. Len(Walked(b)) : d = Walked(b)[i]
    BY <1>4, Position
  <2> QED
    BY <1>2, <1>4, <2>1
<1>8. KeyInUse'
  <2> SUFFICES ASSUME connections' # <<>>
               PROVE  \E d \in Client : socket'[d] \in {"open", "closed"}
    BY DEF KeyInUse
  <2>1. 1 \in 1 .. Len(connections')
    BY <1>1
  <2>2. connections'[1] \in ToSet(connections')
    BY <1>1, <2>1, Position
  <2> QED
    BY <1>3, <1>6, <2>2, <1>1 DEF Listed
<1>9. DeadLeft'
  BY <1>2, <1>3 DEF IInv, DeadLeft
<1>10. Walks'
  <2> SUFFICES ASSUME NEW b \in Broadcast
               PROVE  /\ \A d \in Client : received[b][d] > 0 => socket'[d] # "none"
                      /\ status[b] = "sending" => Ahead(b)'
    BY DEF Walks, IInv
  <2>1. status[b] = "sending" => target[b] \in Client
    BY DEF IInv, TypeOK
  <2>2. status[b] = "sending" => Ahead(b)'
    BY <1>2, <1>4, <2>1 DEF IInv, Walks, Ahead
  <2> QED
    BY <1>2, <2>2 DEF IInv, Walks
<1>11. AtMostOnce'
  BY DEF IInv, AtMostOnce
<1>12. Served'
  BY <1>2 DEF Served, NobodyLeft
<1> QED
  BY <1>5, <1>6, <1>7, <1>8, <1>9, <1>10, <1>11, <1>12 DEF IInv

(* A broadcast that begins has every connection ahead. *)
LEMMA BeginStep ==
  ASSUME IInv, NEW b \in Broadcast, Begin(b)
  PROVE  IInv'
<1> USE DEF Begin
<1>1. connections \in Seq(Client) /\ ToSet(connections) \subseteq Client
  BY Position DEF IInv, TypeOK
<1>2. /\ status \in [Broadcast -> {"idle", "sending", "done", "raised", "cut-off"}]
      /\ audience \in [Broadcast -> SUBSET Client]
      /\ status[b] = "idle" /\ audience[b] = {} /\ \A c \in Client : received[b][c] = 0
      /\ NobodyLeft => dead[b] = <<>>
  BY DEF IInv, TypeOK, Walks, Served
<1>3. /\ \A d \in Broadcast \ {b} : /\ status'[d] = status[d] /\ shared'[d] = shared[d]
                                    /\ index'[d] = index[d] /\ target'[d] = target[d]
                                    /\ audience'[d] = audience[d]
                                    /\ Walked(d)' = Walked(d)
      /\ UNCHANGED <<hasKey, connections, socket, old, dead, received>>
  <2>1. CASE connections = <<>>
    BY <2>1 DEF IInv, TypeOK, Walked
  <2>2. CASE connections # <<>>
    <3>1. \A d \in Broadcast \ {b} : /\ status'[d] = status[d] /\ index'[d] = index[d]
                                      /\ target'[d] = target[d] /\ shared'[d] = shared[d]
      BY <2>2 DEF IInv, TypeOK
    <3>2. \A d \in Broadcast \ {b} : audience'[d] = audience[d]
      BY <2>2 DEF IInv, TypeOK
    <3> QED
      BY <3>1, <3>2 DEF Walked
  <2> QED
    BY <2>1, <2>2
<1>4. Listed' /\ OldListed' /\ KeyInUse' /\ DeadLeft' /\ AtMostOnce'
  BY <1>3 DEF IInv, Listed, LiveClientsStay, OldListed, KeyInUse, DeadLeft, AtMostOnce
<1>5. CASE connections = <<>>
  <2>1. /\ status' = [status EXCEPT ![b] = "done"] /\ status'[b] = "done"
        /\ UNCHANGED <<shared, index, target, audience>>
    BY <1>2, <1>5
  <2>2. TypeOK'
    BY <1>3, <2>1 DEF IInv, TypeOK
  <2>3. Walks'
    BY <1>3, <2>1 DEF IInv, Walks, Ahead
  <2>4. Served'
    BY <1>2, <1>3, <2>1 DEF IInv, Served, NobodyLeft, Behind
  <2> QED
    BY <1>4, <2>2, <2>3, <2>4 DEF IInv
<1>6. CASE connections # <<>>
  <2>1. 1 \in 1 .. Len(connections) /\ Head(connections) = connections[1]
    BY <1>1, <1>6
  <2>2. /\ status' = [status EXCEPT ![b] = "sending"] /\ status'[b] = "sending"
        /\ shared' = [shared EXCEPT ![b] = TRUE] /\ shared'[b] = TRUE
        /\ index' = [index EXCEPT ![b] = 1] /\ index'[b] = 1
        /\ target' = [target EXCEPT ![b] = Head(connections)]
    BY <1>2, <1>6 DEF IInv, TypeOK
  <2>9. /\ audience' = [audience EXCEPT ![b] =
             {c \in ToSet(connections) : socket[c] = "open"}]
        /\ audience'[b] = {c \in ToSet(connections) : socket[c] = "open"}
        /\ audience'[b] \subseteq ToSet(connections)
    BY <1>2, <1>6
  <2>3. target'[b] = connections[1] /\ target'[b] \in Client /\ target'[b] \in ToSet(connections)
    BY <1>1, <2>1, <2>2, Position DEF IInv, TypeOK
  <2>4. Walked(b)' = connections
    BY <1>3, <2>2 DEF Walked
  <2>5. TypeOK'
    <3>1. audience' \in [Broadcast -> SUBSET Client]
      BY <1>1, <1>2, <2>9
    <3>2. status' \in [Broadcast -> {"idle", "sending", "done", "raised", "cut-off"}]
      BY <1>2, <2>2
    <3>3. index' \in [Broadcast -> Nat] /\ shared' \in [Broadcast -> BOOLEAN]
      BY <2>2 DEF IInv, TypeOK
    <3>4. /\ target' \in [Broadcast -> Client \cup {NoTarget}]
          /\ \A d \in Broadcast : status'[d] = "sending" => target'[d] \in Client
      BY <1>3, <2>2, <2>3 DEF IInv, TypeOK
    <3> QED
      BY <1>3, <3>1, <3>2, <3>3, <3>4 DEF IInv, TypeOK
  <2>6. Ahead(b)'
    <3>1. socket'[target'[b]] # "none"
      BY <1>3, <2>3 DEF IInv, Listed
    <3>2. received'[b][target'[b]] = 0
      BY <1>2, <1>3, <2>3
    <3>3. ASSUME NEW i \in 1 .. Len(connections), i > 1
          PROVE  received'[b][connections[i]] = 0 /\ connections[i] # target'[b]
      BY <1>1, <1>2, <1>3, <2>1, <2>3, <3>3, Position DEF IInv, Listed, IsInjective
    <3> QED
      BY <2>2, <2>4, <3>1, <3>2, <3>3 DEF Ahead
  <2>7. Walks'
    <3>1. \A d \in Broadcast \ {b} : Ahead(d) => Ahead(d)'
      BY <1>3 DEF Ahead
    <3> QED
      BY <1>3, <2>2, <2>6, <3>1 DEF IInv, Walks
  <2>8. Served'
    <3>1. \A d \in Broadcast \ {b} : Behind(d) => Behind(d)'
      BY <1>3 DEF Behind
    <3>2. NobodyLeft => Behind(b)'
      BY <1>2, <1>3, <2>1, <2>2, <2>3, <2>9 DEF Behind
    <3>3. NobodyLeft' => NobodyLeft
      BY <1>3 DEF NobodyLeft
    <3> QED
      BY <1>3, <2>2, <3>1, <3>2, <3>3 DEF IInv, Served
  <2> QED
    BY <1>4, <2>5, <2>7, <2>8 DEF IInv
<1> QED
  BY <1>5, <1>6

(* The cleanup of a broadcast costs no open connection its place. *)
LEMMA Removal ==
  ASSUME IInv, NEW b \in Broadcast, NEW toRemove \in Seq(Client),
         \A c \in ToSet(toRemove) : socket[c] \in {"closed", "gone"},
         RemoveDead(b, toRemove)
  PROVE  /\ connections' \in Seq(Client)
         /\ Shortened(connections', connections)
         /\ ToSet(connections') \subseteq ToSet(connections)
         /\ \A c \in ToSet(connections) : socket[c] = "open" => c \in ToSet(connections')
         /\ connections = <<>> => connections' = <<>>
         /\ status' \in [Broadcast -> {"idle", "sending", "done", "raised", "cut-off"}]
         /\ \A d \in Broadcast \ {b} : status'[d] = status[d]
         /\ status'[b] \in {"done", "raised"}
         /\ toRemove = <<>> => connections' = connections /\ status'[b] = "done"
<1> DEFINE missing == {i \in DOMAIN toRemove : toRemove[i] \notin ToSet(connections)}
           removed == {toRemove[i] : i \in {j \in DOMAIN toRemove : \A m \in missing : j < m}}
<1>1. /\ status' = [status EXCEPT ![b] = IF missing = {} THEN "done" ELSE "raised"]
      /\ connections' = Without(connections, removed)
  BY DEF RemoveDead
<1>2. removed \subseteq ToSet(toRemove)
  BY DEF ToSet
<1>3. toRemove = <<>> => missing = {} /\ removed = {}
  OBVIOUS
<1>4. connections \in Seq(Client) /\ status \in [Broadcast -> {"idle", "sending", "done", "raised", "cut-off"}]
  BY DEF IInv, TypeOK
<1> HIDE DEF missing, removed
<1>5. /\ connections' \in Seq(Client)
      /\ Shortened(connections', connections)
      /\ ToSet(connections') = ToSet(connections) \ removed
      /\ removed = {} => connections' = connections
  BY <1>1, <1>4, WithoutProperties
<1>6. connections = <<>> => connections' = <<>>
  BY <1>5 DEF Shortened
<1>7. /\ status' \in [Broadcast -> {"idle", "sending", "done", "raised", "cut-off"}]
      /\ \A d \in Broadcast \ {b} : status'[d] = status[d]
      /\ status'[b] \in {"done", "raised"}
      /\ missing = {} => status'[b] = "done"
  BY <1>1, <1>4
<1>8. \A c \in ToSet(connections) : socket[c] = "open" => c \in ToSet(connections')
  BY <1>2, <1>5
<1> QED
  BY <1>3, <1>5, <1>6, <1>7, <1>8

(* The end of a send: the target has the event if it was open, and the     *)
(* walk goes on or is over.                                                *)
LEMMA SendStep ==
  ASSUME IInv, NEW b \in Broadcast, Send(b)
  PROVE  IInv'
<1> DEFINE t == target[b]
           next == index[b] + 1
<1>1. /\ status[b] = "sending" /\ t \in Client /\ index[b] \in Nat
      /\ socket[t] \in {"open", "closed", "gone"} /\ received[b][t] = 0
      /\ \A i \in 1 .. Len(Walked(b)) :
           i > index[b] => received[b][Walked(b)[i]] = 0 /\ Walked(b)[i] # t
  BY DEF Send, IInv, TypeOK, Walks, Ahead
<1>2. PICK failed \in BOOLEAN :
        /\ EndSend(b, failed)
        /\ failed => socket[t] # "open"
        /\ socket[t] = "open" => received' = [received EXCEPT ![b][t] = @ + 1]
        /\ socket[t] # "open" => received' = received
  BY DEF Send, Delivered, NotDelivered
<1> DEFINE found == IF failed THEN Append(dead[b], t) ELSE dead[b]
<1>3. /\ received' \in [Broadcast -> [Client -> Nat]]
      /\ \A d \in Broadcast \ {b} : received'[d] = received[d]
      /\ \A c \in Client \ {t} : received'[b][c] = received[b][c]
      /\ received'[b][t] = IF socket[t] = "open" THEN 1 ELSE 0
  <2>1. received \in [Broadcast -> [Client -> Nat]]
    BY DEF IInv, TypeOK
  <2>2. CASE socket[t] = "open"
    <3> DEFINE row == [received[b] EXCEPT ![t] = 1]
    <3>1. received' = [received EXCEPT ![b] = row]
      BY <1>1, <1>2, <2>2
    <3>2. row \in [Client -> Nat] /\ row[t] = 1 /\ \A c \in Client \ {t} : row[c] = received[b][c]
      BY <1>1, <2>1
    <3> HIDE DEF row
    <3>3. received'[b] = row /\ \A d \in Broadcast \ {b} : received'[d] = received[d]
      BY <2>1, <3>1
    <3> QED
      BY <2>1, <2>2, <3>1, <3>2, <3>3
  <2>3. CASE socket[t] # "open"
    BY <1>1, <1>2, <2>1, <2>3
  <2> QED
    BY <2>2, <2>3
<1>4. /\ found \in Seq(Client)
      /\ \A c \in ToSet(found) : socket[c] \in {"closed", "gone"}
      /\ NobodyLeft => found = <<>> /\ socket[t] = "open" /\ Behind(b)
  <2>1. dead[b] \in Seq(Client) /\ \A c \in ToSet(dead[b]) : socket[c] \in {"closed", "gone"}
    BY DEF IInv, TypeOK, DeadLeft
  <2>2. CASE failed
    <3>1. socket[t] \in {"closed", "gone"}
      BY <1>1, <1>2, <2>2
    <3>2. found = Append(dead[b], t)
      BY <2>2
    <3>3. ToSet(found) = ToSet(dead[b]) \cup {t}
      BY <1>1, <2>1, <3>2 DEF ToSet
    <3>4. found \in Seq(Client)
      BY <1>1, <2>1, <3>2
    <3> QED
      BY <1>1, <2>1, <3>1, <3>3, <3>4 DEF NobodyLeft
  <2>3. CASE ~ failed
    <3>1. found = dead[b]
      BY <2>3
    <3> QED
      BY <1>1, <2>1, <3>1 DEF NobodyLeft, IInv, Served, Behind
  <2> QED
    BY <2>2, <2>3
<1>5. UNCHANGED <<hasKey, socket, audience>>
  BY <1>2 DEF EndSend
<1>6. /\ Walked(b) \in Seq(Client)
      /\ IsInjective(Walked(b))
      /\ \A i \in 1 .. Len(Walked(b)) : socket[Walked(b)[i]] # "none"
  BY WalkedFits
<1>7. AtMostOnce'
  BY <1>3 DEF IInv, AtMostOnce
<1>8. \A c \in Client : received'[b][c] > 0 => socket'[c] # "none"
  BY <1>1, <1>3, <1>5 DEF IInv, Walks
<1>9. NobodyLeft' => NobodyLeft
  BY <1>5 DEF NobodyLeft
<1>10. CASE next <= Len(Walked(b))
  <2>1. /\ index' = [index EXCEPT ![b] = next]
        /\ target' = [target EXCEPT ![b] = Walked(b)[next]]
        /\ dead' = [dead EXCEPT ![b] = found]
        /\ UNCHANGED <<connections, status, shared, old>>
    BY <1>2, <1>10 DEF EndSend
  <2> DEFINE u == Walked(b)[next]
  <2>2. /\ next \in 1 .. Len(Walked(b)) /\ next > index[b]
        /\ u \in Client /\ u # t /\ received[b][u] = 0 /\ socket[u] # "none"
    BY <1>1, <1>6, <1>10, Position
  <2>3. /\ index'[b] = next /\ target'[b] = u /\ dead'[b] = found
        /\ \A d \in Broadcast \ {b} : /\ index'[d] = index[d] /\ target'[d] = target[d]
                                      /\ dead'[d] = dead[d]
        /\ \A d \in Broadcast : Walked(d)' = Walked(d)
    <3>1. \A d \in Broadcast : Walked(d)' = Walked(d)
      BY <2>1 DEF Walked
    <3>2. target'[b] = u
      BY <2>1 DEF IInv, TypeOK
    <3> HIDE DEF found, next
    <3>3. index'[b] = next /\ dead'[b] = found
      BY <2>1 DEF IInv, TypeOK
    <3>4. \A d \in Broadcast \ {b} : /\ index'[d] = index[d] /\ target'[d] = target[d]
                                      /\ dead'[d] = dead[d]
      BY <2>1 DEF IInv, TypeOK
    <3> QED
      BY <3>1, <3>2, <3>3, <3>4
  <2> HIDE DEF found, u
  <2>4. TypeOK'
    <3>1. dead' \in [Broadcast -> Seq(Client)]
      BY <1>4, <2>1 DEF IInv, TypeOK
    <3>2. index' \in [Broadcast -> Nat]
      BY <1>1, <2>1 DEF IInv, TypeOK
    <3>3. /\ target' \in [Broadcast -> Client \cup {NoTarget}]
          /\ \A d \in Broadcast : status'[d] = "sending" => target'[d] \in Client
      BY <2>1, <2>2, <2>3 DEF IInv, TypeOK, u
    <3> QED
      BY <1>3, <1>5, <2>1, <3>1, <3>2, <3>3 DEF IInv, TypeOK
  <2>5. Listed' /\ OldListed' /\ KeyInUse'
    BY <1>5, <2>1 DEF IInv, Listed, LiveClientsStay, OldListed, KeyInUse
  <2>6. DeadLeft'
    BY <1>4, <1>5, <2>3 DEF IInv, DeadLeft
  <2>7. Ahead(b)'
    <3>1. ASSUME NEW i \in 1 .. Len(Walked(b)), i > next
          PROVE  received'[b][Walked(b)[i]] = 0 /\ Walked(b)[i] # u
      <4>1. Walked(b)[i] \in Client /\ Walked(b)[i] # t /\ received[b][Walked(b)[i]] = 0
        BY <1>1, <1>6, <3>1, Position
      <4>2. Walked(b)[i] # Walked(b)[next]
        BY <1>6, <2>2, <3>1 DEF IsInjective
      <4> QED
        BY <1>3, <4>1, <4>2 DEF u
    <3> QED
      BY <1>3, <1>5, <2>2, <2>3, <3>1 DEF Ahead
  <2>8. Walks'
    <3>1. \A d \in Broadcast \ {b} : Ahead(d) => Ahead(d)'
      BY <1>3, <1>5, <2>3 DEF Ahead
    <3> QED
      BY <1>1, <1>3, <1>5, <1>8, <2>1, <2>7, <3>1 DEF IInv, Walks
  <2>9. Served'
    <3>1. ASSUME NEW d \in Broadcast \ {b}, Behind(d) PROVE Behind(d)'
      <4>1. /\ received'[d] = received[d] /\ index'[d] = index[d] /\ target'[d] = target[d]
            /\ dead'[d] = dead[d] /\ UNCHANGED <<connections, shared, audience>>
        BY <1>3, <1>5, <2>1, <2>3
      <4> QED
        BY <3>1, <4>1 DEF Behind
    <3>2. ASSUME NobodyLeft PROVE Behind(b)'
      <4>1. /\ Behind(b) /\ found = <<>> /\ received'[b][t] = 1 /\ Walked(b) = connections
            /\ t = connections[index[b]]
        BY <1>3, <1>4, <3>2 DEF Behind, Walked
      <4>2. ASSUME NEW i \in 1 .. Len(connections), i < next
            PROVE  received'[b][connections[i]] = 1
        <5>1. CASE i = index[b]
          BY <4>1, <5>1
        <5>2. CASE i < index[b]
          <6>1. connections[i] \in Client /\ connections[i] # t
            BY <1>6, <4>1, <5>2, Position DEF IsInjective, Behind
          <6> QED
            BY <1>3, <4>1, <5>2, <6>1 DEF Behind
        <5> QED
          BY <1>1, <4>2, <5>1, <5>2
      <4> QED
        BY <1>5, <2>1, <2>2, <2>3, <4>1, <4>2 DEF Behind, u
    <3> QED
      BY <1>1, <1>3, <1>5, <1>9, <2>1, <2>3, <3>1, <3>2 DEF IInv, Served
  <2> QED
    BY <1>7, <2>4, <2>5, <2>6, <2>8, <2>9 DEF IInv
<1>11. CASE ~ (next <= Len(Walked(b)))
  <2>1. /\ RemoveDead(b, found)
        /\ shared' = [shared EXCEPT ![b] = FALSE]
        /\ old' = [old EXCEPT ![b] = <<>>]
        /\ index' = [index EXCEPT ![b] = 0]
        /\ target' = [target EXCEPT ![b] = NoTarget]
        /\ dead' = [dead EXCEPT ![b] = <<>>]
    BY <1>2, <1>11 DEF EndSend
  <2> HIDE DEF found
  <2>2. /\ connections \in Seq(Client)
        /\ connections' \in Seq(Client)
        /\ Shortened(connections', connections)
        /\ ToSet(connections') \subseteq ToSet(connections)
        /\ \A c \in ToSet(connections) : socket[c] = "open" => c \in ToSet(connections')
        /\ connections = <<>> => connections' = <<>>
        /\ status' \in [Broadcast -> {"idle", "sending", "done", "raised", "cut-off"}]
        /\ \A d \in Broadcast \ {b} : status'[d] = status[d]
        /\ status'[b] \in {"done", "raised"}
        /\ found = <<>> => connections' = connections /\ status'[b] = "done"
    BY <1>4, <2>1, Removal DEF IInv, TypeOK
  <2>3. /\ dead'[b] = <<>> /\ old'[b] = <<>>
        /\ \A d \in Broadcast \ {b} : /\ index'[d] = index[d] /\ target'[d] = target[d]
                                      /\ dead'[d] = dead[d] /\ shared'[d] = shared[d]
                                      /\ old'[d] = old[d]
    BY <2>1 DEF IInv, TypeOK
  <2>4. <<>> \in Seq(Client) /\ ToSet(<<>>) = {} /\ IsInjective(<<>>)
    BY DEF ToSet, IsInjective
  <2>5. TypeOK'
    <3>1. /\ dead' \in [Broadcast -> Seq(Client)] /\ old' \in [Broadcast -> Seq(Client)]
      BY <2>1, <2>4 DEF IInv, TypeOK
    <3>2. index' \in [Broadcast -> Nat] /\ shared' \in [Broadcast -> BOOLEAN]
      BY <2>1 DEF IInv, TypeOK
    <3>3. /\ target' \in [Broadcast -> Client \cup {NoTarget}]
          /\ \A d \in Broadcast : status'[d] = "sending" => target'[d] \in Client
      BY <2>1, <2>2, <2>3 DEF IInv, TypeOK
    <3> QED
      BY <1>3, <1>5, <2>2, <3>1, <3>2, <3>3 DEF IInv, TypeOK
  <2>6. Listed'
    BY <1>5, <2>2 DEF IInv, Listed, LiveClientsStay, Shortened
  <2>7. OldListed' /\ DeadLeft' /\ KeyInUse'
    BY <1>5, <2>3, <2>4 DEF IInv, OldListed, DeadLeft, KeyInUse
  <2>8. Walks'
    <3>1. ASSUME NEW d \in Broadcast \ {b}, Ahead(d) PROVE Ahead(d)'
      <4>1. ASSUME NEW i \in 1 .. Len(Walked(d)'), i > index[d]
            PROVE  received[d][Walked(d)'[i]] = 0 /\ Walked(d)'[i] # target[d]
        <5>1. CASE shared[d]
          <6>1. Walked(d) = connections /\ Walked(d)' = connections'
            BY <2>3, <5>1 DEF Walked
          <6>2. PICK j \in i .. Len(connections) : connections'[i] = connections[j]
            BY <2>2, <4>1, <6>1 DEF Shortened
          <6>3. j \in 1 .. Len(connections) /\ j > index[d]
            BY <2>2, <4>1, <6>1, <6>2 DEF IInv, TypeOK
          <6> QED
            BY <3>1, <6>1, <6>2, <6>3 DEF Ahead
        <5>2. CASE ~ shared[d]
          <6>1. Walked(d)' = Walked(d)
            BY <2>3, <5>2 DEF Walked
          <6> QED
            BY <3>1, <4>1, <6>1 DEF Ahead
        <5> QED
          BY <5>1, <5>2
      <4> QED
        BY <1>3, <1>5, <2>3, <3>1, <4>1 DEF Ahead
    <3>2. ASSUME NEW d \in Broadcast \ {b}
          PROVE  /\ \A c \in Client : received'[d][c] > 0 => socket'[c] # "none"
                 /\ status'[d] = "idle" => /\ \A c \in Client : received'[d][c] = 0
                                          /\ audience'[d] = {}
                 /\ status'[d] = "sending" => Ahead(d)'
      <4>1. /\ received'[d] = received[d] /\ status'[d] = status[d]
            /\ UNCHANGED <<socket, audience>>
        BY <1>3, <1>5, <2>2
      <4>2. Ahead(d) => Ahead(d)'
        BY <3>1
      <4> QED
        BY <4>1, <4>2 DEF IInv, Walks
    <3>3. status'[b] # "idle" /\ status'[b] # "sending"
      BY <2>2
    <3> QED
      BY <1>8, <3>2, <3>3 DEF Walks
  <2>9. Served'
    <3> SUFFICES ASSUME NobodyLeft
                 PROVE  \A d \in Broadcast :
                          /\ status'[d] # "raised"
                          /\ status'[d] = "done" => \A c \in audience'[d] : received'[d][c] = 1
                          /\ status'[d] \in {"idle", "done"} => dead'[d] = <<>>
                          /\ status'[d] = "sending" => Behind(d)'
      BY <1>9 DEF Served
    <3>1. /\ found = <<>> /\ connections' = connections /\ status'[b] = "done"
          /\ Behind(b) /\ received'[b][t] = 1 /\ Walked(b) = connections
          /\ t = connections[index[b]]
      BY <1>3, <1>4, <2>2 DEF Behind, Walked
    <3>2. \A d \in Broadcast \ {b} : Behind(d) => Behind(d)'
      BY <1>3, <1>5, <2>3, <3>1 DEF Behind
    <3>3. ASSUME NEW c \in audience[b] PROVE received'[b][c] = 1
      <4>1. PICK i \in 1 .. Len(connections) : c = connections[i]
        BY <2>2, <3>1, Position DEF Behind
      <4>2. i <= index[b]
        BY <1>1, <1>11, <2>2, <3>1
      <4>3. CASE c = t
        BY <3>1, <4>3
      <4>4. CASE c # t
        <5>1. i < index[b]
          BY <1>1, <3>1, <4>1, <4>2, <4>4
        <5>2. received[b][c] = 1
          BY <3>1, <4>1, <5>1 DEF Behind
        <5>3. c \in Client
          BY <2>2, <4>1
        <5> QED
          BY <1>3, <4>4, <5>2, <5>3
      <4> QED
        BY <4>3, <4>4
    <3>4. ASSUME NEW d \in Broadcast \ {b}
          PROVE  /\ status'[d] # "raised"
                 /\ status'[d] = "done" => \A c \in audience'[d] : received'[d][c] = 1
                 /\ status'[d] \in {"idle", "done"} => dead'[d] = <<>>
                 /\ status'[d] = "sending" => Behind(d)'
      <4>1. /\ received'[d] = received[d] /\ status'[d] = status[d]
            /\ dead'[d] = dead[d] /\ audience' = audience
        BY <1>3, <1>5, <2>2, <2>3
      <4>2. Behind(d) => Behind(d)'
        BY <3>2
      <4> QED
        BY <4>1, <4>2 DEF IInv, Served
    <3>5. audience'[b] = audience[b] /\ dead'[b] = <<>>
      BY <1>5, <2>3
    <3> QED
      BY <3>1, <3>3, <3>4, <3>5
  <2> QED
    BY <1>7, <2>5, <2>6, <2>7, <2>8, <2>9 DEF IInv
<1> QED
  BY <1>10, <1>11

-----------------------------------------------------------------------------
(* A broadcast that is cut off leaves the list and the others as they are. *)
LEMMA CutOffStep ==
  ASSUME IInv, NEW b \in Broadcast, CutOff(b)
  PROVE  IInv'
<1> DEFINE t == target[b]
<1>1. /\ t \in Client /\ received[b][t] = 0 /\ socket[t] # "none"
      /\ UNCHANGED <<hasKey, connections, socket, audience>>
  BY DEF CutOff, IInv, TypeOK, Walks, Ahead
<1>2. /\ received' \in [Broadcast -> [Client -> Nat]]
      /\ \A d \in Broadcast \ {b} : received'[d] = received[d]
      /\ \A c \in Client \ {t} : received'[b][c] = received[b][c]
      /\ received'[b][t] \in {0, 1}
  <2>1. received \in [Broadcast -> [Client -> Nat]]
    BY DEF IInv, TypeOK
  <2>2. CASE received' = received
    BY <1>1, <2>1, <2>2
  <2>3. CASE received' = [received EXCEPT ![b][t] = @ + 1]
    <3> DEFINE row == [received[b] EXCEPT ![t] = 1]
    <3>1. received' = [received EXCEPT ![b] = row]
      BY <1>1, <2>3
    <3>2. row \in [Client -> Nat] /\ row[t] = 1 /\ \A c \in Client \ {t} : row[c] = received[b][c]
      BY <1>1, <2>1
    <3> HIDE DEF row
    <3>3. received'[b] = row /\ \A d \in Broadcast \ {b} : received'[d] = received[d]
      BY <2>1, <3>1
    <3> QED
      BY <2>1, <3>1, <3>2, <3>3
  <2> QED
    BY <2>2, <2>3 DEF CutOff
<1>3. /\ status'[b] = "cut-off" /\ dead'[b] = <<>> /\ old'[b] = <<>>
      /\ \A d \in Broadcast \ {b} : /\ status'[d] = status[d] /\ shared'[d] = shared[d]
                                    /\ old'[d] = old[d] /\ index'[d] = index[d]
                                    /\ target'[d] = target[d] /\ dead'[d] = dead[d]
  BY DEF CutOff, IInv, TypeOK
<1>4. <<>> \in Seq(Client) /\ ToSet(<<>>) = {} /\ IsInjective(<<>>)
  BY DEF ToSet, IsInjective
<1>5. TypeOK'
  <2>1. dead' \in [Broadcast -> Seq(Client)] /\ old' \in [Broadcast -> Seq(Client)]
    BY <1>4 DEF CutOff, IInv, TypeOK
  <2>2. /\ index' \in [Broadcast -> Nat] /\ shared' \in [Broadcast -> BOOLEAN]
        /\ status' \in [Broadcast -> {"idle", "sending", "done", "raised", "cut-off"}]
    BY DEF CutOff, IInv, TypeOK
  <2>3. /\ target' \in [Broadcast -> Client \cup {NoTarget}]
        /\ \A d \in Broadcast : status'[d] = "sending" => target'[d] \in Client
    BY <1>3 DEF CutOff, IInv, TypeOK
  <2> QED
    BY <1>1, <1>2, <2>1, <2>2, <2>3 DEF IInv, TypeOK
<1>6. Listed' /\ OldListed' /\ DeadLeft' /\ KeyInUse'
  BY <1>1, <1>3, <1>4 DEF IInv, Listed, LiveClientsStay, OldListed, DeadLeft, KeyInUse
<1>7. AtMostOnce'
  BY <1>2 DEF IInv, AtMostOnce
<1>8. ASSUME NEW d \in Broadcast \ {b}
      PROVE  (Ahead(d) => Ahead(d)') /\ (Behind(d) => Behind(d)')
  <2>1. /\ received'[d] = received[d] /\ status'[d] = status[d] /\ shared'[d] = shared[d]
        /\ old'[d] = old[d] /\ index'[d] = index[d] /\ target'[d] = target[d]
        /\ dead'[d] = dead[d] /\ UNCHANGED <<connections, socket, audience>>
    BY <1>1, <1>2, <1>3
  <2>2. Walked(d)' = Walked(d)
    BY <2>1 DEF Walked
  <2>3. Ahead(d) => Ahead(d)'
    BY <2>1, <2>2 DEF Ahead
  <2>4. Behind(d) => Behind(d)'
    BY <2>1 DEF Behind
  <2> QED
    BY <2>3, <2>4
<1>9. Walks'
  <2>1. \A c \in Client : received'[b][c] > 0 => socket'[c] # "none"
    BY <1>1, <1>2 DEF IInv, Walks
  <2>2. ASSUME NEW d \in Broadcast \ {b}
        PROVE  /\ \A c \in Client : received'[d][c] > 0 => socket'[c] # "none"
               /\ status'[d] = "idle" => /\ \A c \in Client : received'[d][c] = 0
                                        /\ audience'[d] = {}
               /\ status'[d] = "sending" => Ahead(d)'
    <3>1. /\ received'[d] = received[d] /\ status'[d] = status[d]
          /\ UNCHANGED <<socket, audience>>
      BY <1>1, <1>2, <1>3
    <3>2. Ahead(d) => Ahead(d)'
      BY <1>8
    <3> QED
      BY <3>1, <3>2 DEF IInv, Walks
  <2> QED
    BY <1>3, <2>1, <2>2 DEF Walks
<1>10. Served'
  <2>1. ASSUME NobodyLeft, NEW d \in Broadcast \ {b}
        PROVE  /\ status'[d] # "raised"
               /\ status'[d] = "done" => \A c \in audience'[d] : received'[d][c] = 1
               /\ status'[d] \in {"idle", "done"} => dead'[d] = <<>>
               /\ status'[d] = "sending" => Behind(d)'
    <3>1. /\ received'[d] = received[d] /\ status'[d] = status[d]
          /\ dead'[d] = dead[d] /\ audience' = audience
      BY <1>1, <1>2, <1>3
    <3>2. Behind(d) => Behind(d)'
      BY <1>8
    <3> QED
      BY <2>1, <3>1, <3>2 DEF IInv, Served
  <2> QED
    BY <1>1, <1>3, <2>1 DEF Served, NobodyLeft
<1> QED
  BY <1>5, <1>6, <1>7, <1>9, <1>10 DEF IInv

-----------------------------------------------------------------------------
(* Every step keeps the invariant. *)
LEMMA NextIInv == IInv /\ [Next]_vars => IInv'
<1> SUFFICES ASSUME IInv, [Next]_vars PROVE IInv'
  OBVIOUS
<1>1. CASE UNCHANGED vars
  BY <1>1 DEF vars, IInv, TypeOK, Listed, LiveClientsStay, OldListed, KeyInUse, DeadLeft, Walks,
              Ahead, Walked, AtMostOnce, Served, NobodyLeft, Behind
<1>2. ASSUME NEW c \in Client, Register(c) \/ Disconnect(c) \/ Unregister(c) PROVE IInv'
  BY <1>2, RegisterStep, DisconnectStep, UnregisterStep
<1>3. ASSUME NEW b \in Broadcast, Begin(b) \/ Send(b) \/ CutOff(b) PROVE IInv'
  BY <1>3, BeginStep, SendStep, CutOffStep
<1> QED
  BY <1>1, <1>2, <1>3 DEF Next

(***************************************************************************)
(* IInv is an invariant of the specification: what the list, the sockets   *)
(* and the walks of the broadcasts have to do with each other.             *)
(***************************************************************************)
THEOREM Invariance == Spec => []IInv
BY InitIInv, NextIInv, PTL DEF Spec

(***************************************************************************)
(* The variables of the hub have their types.                              *)
(***************************************************************************)
THEOREM TypeCorrect == Spec => []TypeOK
<1>1. IInv => TypeOK
  BY DEF IInv
<1> QED
  BY <1>1, Invariance, PTL

(***************************************************************************)
(* No client gets an event twice: what a walk has ahead has not got it,    *)
(* and a list only grows at its end or loses items.                        *)
(***************************************************************************)
THEOREM EventsArriveOnce == Spec => []AtMostOnce
<1>1. IInv => AtMostOnce
  BY DEF IInv
<1> QED
  BY <1>1, Invariance, PTL

(***************************************************************************)
(* An open connection keeps its place in the list.                         *)
(***************************************************************************)
THEOREM OpenConnectionsAreListed == Spec => []LiveClientsStay
<1>1. IInv => LiveClientsStay
  BY DEF IInv, Listed
<1> QED
  BY <1>1, Invariance, PTL

(***************************************************************************)
(* Connections whose handlers have ended are not listed, and the last      *)
(* handler takes the key with it.                                          *)
(***************************************************************************)
THEOREM HandlersCleanUp == Spec => []NothingLeaks
<1>1. IInv => NothingLeaks
  BY DEF IInv, Listed, KeyInUse, NothingLeaks
<1> QED
  BY <1>1, Invariance, PTL

(***************************************************************************)
(* While no connection is closed, a broadcast that is not cut off ends     *)
(* without an exception and everybody who was there has its event.         *)
(***************************************************************************)
THEOREM StayingClientsAreServed == Spec => []ServedWhileNobodyLeaves
<1>1. IInv => ServedWhileNobodyLeaves
  BY DEF IInv, Served, NobodyLeft, ServedWhileNobodyLeaves
<1> QED
  BY <1>1, Invariance, PTL

=============================================================================
