------------------------- MODULE EventStream_proofs -------------------------
(***************************************************************************)
(* For any number of rows, clients and faults: types, that nothing is sent *)
(* that a rollback erases, that the bridge does not repeat publish, and    *)
(* that between replay and live stream there is no seam.                   *)
(*                                                                         *)
(* The invariant follows one subscription through its stages (Stage): the  *)
(* greeting, the request, the replay, the acknowledgement.  From the       *)
(* SELECT on the client is covered: every event above the number it asked  *)
(* from is seen, on its way, about to be replayed, or still to be          *)
(* broadcast to all; unless the page was full, when it will ask again.     *)
(***************************************************************************)
EXTENDS EventStream, FiniteSetTheorems, TLAPS

Controls(s) == {i \in 1..Len(s) : s[i].is # "event"}

\* One thing at a time is under way between a client and the server.
Stage(c) ==
    /\ request[c] # None => link[c] = "asked" /\ ~replay[c].on /\ Controls(frames[c]) = {}
    /\ replay[c].on => link[c] = "asked" /\ Controls(frames[c]) = {}
    /\ ~replay[c].on => replay[c] = NoReplay
    /\ replay[c].tail # None => replay[c].rows = {}
    /\ \A i, j \in Controls(frames[c]) :
          /\ i = j
          /\ frames[c][i].is = "connected" <=> link[c] = "hello"
          /\ frames[c][i].is = "subscribed" <=> link[c] = "asked"

\* What the log and the bridge know of each number.
Logged ==
    /\ \A e \in Number : /\ row[e] = "open" => writer[e] \in {"other", "publish"}
                         /\ writer[e] = "other" => e \notin local
                         /\ writer[e] = "announced" /\ e > last => e \in local
    /\ last \in Committed \cup {0} /\ local \subseteq Committed
    /\ \A d \in batch, e \in Committed : last < e /\ e < d /\ e \notin batch => e \in late

\* Every event above the number the client asked from is provided for.
Had(c) == seen[c] \cup OnItsWay(c) \cup replay[c].rows
Pending(e) == (e > last /\ writer[e] = "other") \/ writer[e] = "publish" \/ Orphan(e)
Covered(c) ==
    \A e \in Committed : e > asked[c] => e \in Had(c) \/ Pending(e)

Short(c) == replay[c].on /\ replay[c].sent + Cardinality(replay[c].rows) < MaxReplay
Acknowledged(c) == \E i \in Controls(frames[c]) : /\ frames[c][i].is = "subscribed"
                                                  /\ frames[c][i].n < MaxReplay
Catching(c) ==
    c \in registered /\ (link[c] = "synced" \/ Short(c) \/ Acknowledged(c)) => Covered(c)

Sent == \A c \in Client : Had(c) \subseteq Committed
IInv == TypeOK /\ Sent /\ Logged /\ \A c \in Client : Stage(c) /\ Catching(c)

-----------------------------------------------------------------------------
\* Frames: sending one, receiving one.

LEMMA EventFrame ==
  /\ Hello \in Frame /\ Hello.is = "connected"
  /\ \A e \in Number : Event(e) \in Frame /\ Event(e).is = "event" /\ Event(e).n = e
  /\ \A sent, tail \in Nat : /\ Subscribed(sent, tail) \in Frame
                             /\ Subscribed(sent, tail).is = "subscribed"
                             /\ Subscribed(sent, tail).n = sent
  BY EventAssumption DEF Hello, Event, Subscribed, Frame, Number

LEMMA AppendedFrame ==
  ASSUME NEW s \in Seq(Frame), NEW f \in Frame
  PROVE  /\ Append(s, f) \in Seq(Frame)
         /\ EventsIn(Append(s, f)) = EventsIn(s) \cup (IF f.is = "event" THEN {f.n} ELSE {})
         /\ Controls(Append(s, f)) =
                Controls(s) \cup (IF f.is = "event" THEN {} ELSE {Len(s) + 1})
         /\ \A i \in Controls(s) : Append(s, f)[i] = s[i]
         /\ Append(s, f)[Len(s) + 1] = f
<1> DEFINE t == Append(s, f)
<1>1. t \in Seq(Frame) /\ Len(t) = Len(s) + 1 /\ t[Len(s) + 1] = f /\ Len(s) \in Nat
  OBVIOUS
<1>2. \A i \in 1..Len(s) : t[i] = s[i]
  OBVIOUS
<1>3. 1..Len(t) = 1..Len(s) \cup {Len(s) + 1}
  BY <1>1
<1> HIDE DEF t
<1>4. EventsIn(t) = EventsIn(s) \cup (IF f.is = "event" THEN {f.n} ELSE {})
  BY <1>1, <1>2, <1>3 DEF EventsIn
<1>5. Controls(t) = Controls(s) \cup (IF f.is = "event" THEN {} ELSE {Len(s) + 1})
  BY <1>1, <1>2, <1>3 DEF Controls
<1>6. \A i \in Controls(s) : t[i] = s[i]
  BY <1>2 DEF Controls
<1>7. QED
  BY <1>1, <1>4, <1>5, <1>6 DEF t

LEMMA ReceivedFrame ==
  ASSUME NEW s \in Seq(Frame), s # <<>>
  PROVE  /\ Tail(s) \in Seq(Frame) /\ Head(s) \in Frame
         /\ EventsIn(s) =
                EventsIn(Tail(s)) \cup (IF Head(s).is = "event" THEN {Head(s).n} ELSE {})
         /\ \A i \in Controls(Tail(s)) : i + 1 \in Controls(s) /\ Tail(s)[i] = s[i + 1]
         /\ Head(s).is # "event" => 1 \in Controls(s)
         /\ Head(s) = s[1]
         /\ \A i \in Controls(Tail(s)) : i + 1 # 1
<1> DEFINE t == Tail(s)
<1>1. /\ t \in Seq(Frame) /\ Len(s) \in Nat /\ Len(s) >= 1 /\ Len(t) = Len(s) - 1
      /\ Head(s) = s[1] /\ s[1] \in Frame
  OBVIOUS
<1>2. \A i \in 1..Len(t) : t[i] = s[i + 1] /\ i + 1 \in 1..Len(s) /\ i + 1 # 1
  BY <1>1
<1>3. \A j \in 1..Len(s) : j = 1 \/ (j - 1 \in 1..Len(t) /\ t[j - 1] = s[j])
  BY <1>1
<1> HIDE DEF t
<1>4. EventsIn(s) \subseteq EventsIn(t) \cup (IF Head(s).is = "event" THEN {Head(s).n} ELSE {})
  <2> SUFFICES ASSUME NEW x \in EventsIn(s)
               PROVE  x \in EventsIn(t) \/ (Head(s).is = "event" /\ x = Head(s).n)
    OBVIOUS
  <2>1. PICK j \in 1..Len(s) : s[j].is = "event" /\ x = s[j].n
    BY DEF EventsIn
  <2>2. CASE j = 1
    BY <1>1, <2>1, <2>2
  <2>3. CASE j # 1
    BY <1>3, <2>1, <2>3 DEF EventsIn
  <2>4. QED
    BY <2>2, <2>3
<1>5. EventsIn(t) \cup (IF Head(s).is = "event" THEN {Head(s).n} ELSE {}) \subseteq EventsIn(s)
  BY <1>1, <1>2 DEF EventsIn
<1>6. \A i \in Controls(t) : i + 1 \in Controls(s) /\ t[i] = s[i + 1] /\ i + 1 # 1
  BY <1>2 DEF Controls
<1>7. Head(s).is # "event" => 1 \in Controls(s)
  BY <1>1 DEF Controls
<1>8. QED
  BY <1>1, <1>4, <1>5, <1>6, <1>7 DEF t

LEMMA AppendedEvent ==
  ASSUME NEW s \in Seq(Frame), NEW e \in Number
  PROVE  /\ Append(s, Event(e)) \in Seq(Frame)
         /\ EventsIn(Append(s, Event(e))) = EventsIn(s) \cup {e}
         /\ Controls(Append(s, Event(e))) = Controls(s)
         /\ \A i \in Controls(s) : Append(s, Event(e))[i] = s[i]
<1> DEFINE f == Event(e)
<1>1. f \in Frame /\ f.is = "event" /\ f.n = e
  BY EventFrame
<1> HIDE DEF f
<1>2. /\ Append(s, f) \in Seq(Frame)
      /\ EventsIn(Append(s, f)) = EventsIn(s) \cup (IF f.is = "event" THEN {f.n} ELSE {})
      /\ Controls(Append(s, f)) =
             Controls(s) \cup (IF f.is = "event" THEN {} ELSE {Len(s) + 1})
      /\ \A i \in Controls(s) : Append(s, f)[i] = s[i]
  BY <1>1, AppendedFrame
<1>3. /\ EventsIn(Append(s, f)) = EventsIn(s) \cup {e}
      /\ Controls(Append(s, f)) = Controls(s)
  BY <1>1, <1>2
<1>4. QED
  BY <1>2, <1>3 DEF f

\* A broadcast touches no greeting and no acknowledgement.
Same(c) == /\ Controls(frames'[c]) = Controls(frames[c])
           /\ \A i \in Controls(frames[c]) : frames'[c][i] = frames[c][i]

LEMMA Broadcasting ==
  ASSUME TypeOK, NEW e \in Number, Broadcast(e)
  PROVE  /\ frames' \in [Client -> Seq(Frame)]
         /\ \A c \in Client :
               /\ Same(c)
               /\ OnItsWay(c)' = OnItsWay(c) \cup (IF c \in registered THEN {e} ELSE {})
               /\ c \notin registered => frames'[c] = frames[c]
<1>2. ASSUME NEW c \in Client
      PROVE  /\ Append(frames[c], Event(e)) \in Seq(Frame)
             /\ EventsIn(Append(frames[c], Event(e))) = EventsIn(frames[c]) \cup {e}
             /\ Controls(Append(frames[c], Event(e))) = Controls(frames[c])
             /\ \A i \in Controls(frames[c]) : Append(frames[c], Event(e))[i] = frames[c][i]
  <2>1. frames[c] \in Seq(Frame)
    BY DEF TypeOK
  <2>2. QED
    BY <2>1, AppendedEvent
<1>3. frames' \in [Client -> Seq(Frame)]
  BY <1>2 DEF Broadcast, TypeOK
<1>4. \A c \in Client : frames'[c] = IF c \in registered THEN Append(frames[c], Event(e))
                                                        ELSE frames[c]
  BY DEF Broadcast
<1>5. QED
  BY <1>2, <1>3, <1>4 DEF Same, OnItsWay

-----------------------------------------------------------------------------
\* Types, one group of actions after the other.

LEMMA LogTypes == ASSUME IInv, NEW e \in Number, Log(e) PROVE TypeOK'
<1> USE DEF TypeOK, Committed, logVars, bridgeVars, serverVars, clientVars
<1>t. TypeOK
  BY DEF IInv
<1>1. CASE Insert(e, "publish") \/ Insert(e, "other")
  <2>0. row' = [row EXCEPT ![e] = "open"]
    BY <1>1 DEF Insert
  <2>1. row' \in [Number -> {"absent", "open", "committed", "undone"}]
    BY <1>t, <2>0
  <2>2. writer' \in [Number -> {"other", "publish", "announced", "past"}]
    BY <1>t, <1>1 DEF Insert
  <2>3. Committed' = Committed
    BY <1>t, <1>1 DEF Insert
  <2>4. QED
    BY <1>t, <1>1, <2>1, <2>2, <2>3 DEF Insert
<1>2. CASE Commit(e)
  <2>1. /\ row' \in [Number -> {"absent", "open", "committed", "undone"}]
        /\ Committed' = Committed \cup {e} /\ e \notin Committed
    BY <1>t, <1>2 DEF Commit
  <2>2. late' \subseteq Committed'
    BY <1>t, <1>2, <2>1 DEF Commit
  <2>3. batch' \subseteq {d \in Committed' : d > last'}
    BY <1>t, <1>2, <2>1 DEF Commit
  <2>4. QED
    BY <1>t, <1>2, <2>1, <2>2, <2>3 DEF Commit
<1>3. CASE Undo(e)
  BY <1>t, <1>3 DEF Undo
<1>4. CASE Announce(e)
  <2>1. frames' \in [Client -> Seq(Frame)] /\ \A c \in Client : c \notin registered => frames'[c] = frames[c]
    BY <1>t, <1>4, Broadcasting DEF Announce
  <2>2. QED
    BY <1>t, <1>4, <2>1 DEF Announce
<1>5. QED
  BY <1>1, <1>2, <1>3, <1>4 DEF Log

LEMMA BridgeTypes == ASSUME IInv, Bridge PROVE TypeOK'
<1> USE DEF TypeOK, Committed, logVars, bridgeVars, serverVars, clientVars
<1>t. TypeOK
  BY DEF IInv
<1>1. CASE Fetch
  BY <1>t, <1>1 DEF Fetch, Page
<1>2. CASE Deliver
  <2>1. PICK e \in batch : /\ IsLeast(e, batch) /\ batch' = batch \ {e} /\ last' = e
                          /\ local' = local \ {e}
                          /\ (UNCHANGED frames \/ Broadcast(e))
    BY <1>2 DEF Deliver
  <2>2. frames' \in [Client -> Seq(Frame)] /\ \A c \in Client : c \notin registered => frames'[c] = frames[c]
    BY <1>t, <2>1, Broadcasting
  <2>3. last' \in 0..MaxSeq /\ batch' \subseteq {d \in Committed : d > last'}
    <3> HIDE DEF TypeOK, Committed
    <3>1. batch \subseteq Committed /\ Committed \subseteq 1..MaxSeq
      BY <1>t DEF TypeOK, Committed, Number
    <3>2. \A d \in batch : d \in 1..MaxSeq /\ d \in Committed
      BY <3>1
    <3>3. \A d \in batch : e <= d
      BY <2>1 DEF IsLeast
    <3>4. \A d \in batch \ {e} : d > e
      BY <3>2, <3>3
    <3>5. e \in 0..MaxSeq
      BY <3>2
    <3>6. QED
      BY <2>1, <3>2, <3>4, <3>5
  <2>4. QED
    BY <1>t, <1>2, <2>1, <2>2, <2>3 DEF Deliver
<1>3. QED
  BY <1>1, <1>2 DEF Bridge

LEMMA BrokenTypes ==
  ASSUME TypeOK, NEW S \in SUBSET Client, Broken(S)
  PROVE  /\ registered' \subseteq Client
         /\ link' \in [Client -> {"down", "hello", "asked", "synced"}]
         /\ request' \in [Client -> Number \cup {0, None}]
         /\ replay' \in [Client -> [on : BOOLEAN, rows : SUBSET Number, sent : Nat,
                                    tail : Number \cup {0, None}]]
         /\ frames' \in [Client -> Seq(Frame)]
         /\ \A c \in Client :
               link'[c] = "down" => /\ c \notin registered' /\ frames'[c] = <<>>
                                    /\ request'[c] = None /\ ~replay'[c].on
<1>1. NoReplay \in [on : BOOLEAN, rows : SUBSET Number, sent : Nat, tail : Number \cup {0, None}]
      /\ ~NoReplay.on
  BY DEF NoReplay
<1>2. <<>> \in Seq(Frame)
  OBVIOUS
<1>3. QED
  BY <1>1, <1>2 DEF Broken, TypeOK

LEMMA SocketTypes == ASSUME IInv, NEW c \in Client, Socket(c) PROVE TypeOK'
<1> USE DEF TypeOK, Committed, logVars, bridgeVars, serverVars, clientVars
<1>t. TypeOK
  BY DEF IInv
<1>1. CASE Connect(c)
  <2>1. frames' \in [Client -> Seq(Frame)]
    BY <1>t, <1>1, EventFrame, AppendedFrame DEF Connect, Send
  <2>2. \A d \in Client : d # c => frames'[d] = frames[d]
    BY <1>t, <1>1 DEF Connect, Send
  <2>3. QED
    BY <1>t, <1>1, <2>1, <2>2 DEF Connect
<1>2. CASE Drop(c)
  BY <1>t, <1>2, BrokenTypes, EventAssumption DEF Drop
<1>3. CASE Forget(c)
  BY <1>t, <1>3, EventAssumption DEF Forget
<1>4. QED
  BY <1>1, <1>2, <1>3 DEF Socket

LEMMA RestartTypes == ASSUME IInv, Restart PROVE TypeOK'
<1> USE DEF TypeOK, Committed, logVars, bridgeVars
<1>t. TypeOK
  BY DEF IInv
<1>1. /\ row' \in [Number -> {"absent", "open", "committed", "undone"}]
      /\ writer' \in [Number -> {"other", "publish", "announced", "past"}]
      /\ Committed' = Committed
  BY <1>t DEF Restart
<1>2. QED
  BY <1>t, <1>1, BrokenTypes, EventAssumption DEF Restart

\* What the first frame of a client is, and what is left when it is taken.
LEMMA Receiving ==
  ASSUME IInv, NEW c \in Client, Received(c)
  PROVE  /\ frames' \in [Client -> Seq(Frame)]
         /\ \A d \in Client : d # c => frames'[d] = frames[d]
         /\ frames[c] # <<>> /\ frames[c] \in Seq(Frame) /\ frames'[c] = Tail(frames[c])
         /\ Head(frames[c]) \in Frame
         /\ OnItsWay(c) = OnItsWay(c)' \cup (IF Head(frames[c]).is = "event"
                                              THEN {Head(frames[c]).n} ELSE {})
         /\ Head(frames[c]).is = "event" => Head(frames[c]).n \in Committed
<1>1. frames \in [Client -> Seq(Frame)] /\ OnItsWay(c) \subseteq Committed
  BY DEF IInv, TypeOK, Sent, Had
<1>2. frames[c] # <<>> /\ frames' = [frames EXCEPT ![c] = Tail(@)]
  BY DEF Received
<1>3. frames[c] \in Seq(Frame) /\ frames'[c] = Tail(frames[c])
  BY <1>1, <1>2
<1>4. Tail(frames[c]) \in Seq(Frame) /\ Head(frames[c]) \in Frame
  BY <1>2, <1>3, ReceivedFrame
<1>5. EventsIn(frames[c]) =
        EventsIn(frames'[c]) \cup (IF Head(frames[c]).is = "event"
                                   THEN {Head(frames[c]).n} ELSE {})
  BY <1>2, <1>3, ReceivedFrame
<1>6. OnItsWay(c) = OnItsWay(c)' \cup (IF Head(frames[c]).is = "event"
                                       THEN {Head(frames[c]).n} ELSE {})
  BY <1>5 DEF OnItsWay
<1>7. Head(frames[c]).is = "event" => Head(frames[c]).n \in Committed
  BY <1>1, <1>6
<1>8. frames' \in [Client -> Seq(Frame)] /\ \A d \in Client : d # c => frames'[d] = frames[d]
  BY <1>1, <1>2, <1>4
<1>9. QED
  BY <1>2, <1>3, <1>4, <1>6, <1>7, <1>8

LEMMA ReceiveTypes == ASSUME IInv, NEW c \in Client, Receive(c) PROVE TypeOK'
<1> USE DEF TypeOK, logVars, bridgeVars, serverVars
<1>t. TypeOK /\ Committed \subseteq Number
  BY DEF IInv, Committed
<1>c. Committed' = Committed
  BY DEF Receive, OnConnected, OnEvent, OnSubscribed, Committed
<1>1. CASE OnConnected(c)
  BY <1>t, <1>c, <1>1, Receiving DEF OnConnected, Subscribe
<1>2. CASE OnEvent(c)
  <2>1. Head(frames[c]).n \in Number
    BY <1>t, <1>2, Receiving DEF OnEvent
  <2>2. QED
    BY <1>t, <1>c, <1>2, <2>1, Receiving DEF OnEvent
<1>3. CASE OnSubscribed(c)
  <2>0. \/ cursor' = [cursor EXCEPT ![c] = 0] /\ Subscribe(c, 0)
        \/ UNCHANGED cursor /\ Subscribe(c, cursor[c])
        \/ UNCHANGED <<cursor, request>> /\ link' = [link EXCEPT ![c] = "synced"]
    BY <1>3 DEF OnSubscribed
  <2>1. /\ cursor' \in [Client -> Number \cup {0}]
        /\ request' \in [Client -> Number \cup {0, None}]
        /\ link' \in [Client -> {"down", "hello", "asked", "synced"}]
        /\ link'[c] # "down"
        /\ \A d \in Client : d # c => link'[d] = link[d] /\ request'[d] = request[d]
    <3> HIDE DEF TypeOK
    <3>1. /\ cursor \in [Client -> Number \cup {0}] /\ cursor[c] \in Number \cup {0}
          /\ request \in [Client -> Number \cup {0, None}]
          /\ link \in [Client -> {"down", "hello", "asked", "synced"}]
      BY <1>t DEF TypeOK
    <3>2. CASE cursor' = [cursor EXCEPT ![c] = 0] /\ Subscribe(c, 0)
      BY <3>1, <3>2 DEF Subscribe
    <3>3. CASE UNCHANGED cursor /\ Subscribe(c, cursor[c])
      BY <3>1, <3>3 DEF Subscribe
    <3>4. CASE UNCHANGED <<cursor, request>> /\ link' = [link EXCEPT ![c] = "synced"]
      BY <3>1, <3>4
    <3>5. QED
      BY <2>0, <3>2, <3>3, <3>4
  <2>2. UNCHANGED <<row, writer, late, last, batch, local, registered, replay, seen, asked, faults>>
    BY <1>3 DEF OnSubscribed
  <2>3. Received(c)
    BY <1>3 DEF OnSubscribed
  <2>4. QED
    BY <1>t, <1>c, <2>1, <2>2, <2>3, Receiving
<1>4. QED
  BY <1>1, <1>2, <1>3 DEF Receive

Replays == [on : BOOLEAN, rows : SUBSET Number, sent : Nat, tail : Number \cup {0, None}]

LEMMA ReplayWritten ==
  ASSUME TypeOK, NEW c \in Client, NEW r \in Replays, replay' = [replay EXCEPT ![c] = r]
  PROVE  /\ replay' \in [Client -> Replays] /\ replay'[c] = r
         /\ \A d \in Client : d # c => replay'[d] = replay[d]
<1>1. replay \in [Client -> Replays]
  BY DEF TypeOK, Replays
<1>2. QED
  BY <1>1

\* Each step of the answer writes the client's replay, and sends it at most a frame.
LEMMA Answering ==
  ASSUME IInv, NEW c \in Client, Answer(c)
  PROVE  /\ replay' \in [Client -> Replays]
         /\ \A d \in Client : d # c => replay'[d] = replay[d] /\ frames'[d] = frames[d]
         /\ frames' \in [Client -> Seq(Frame)]
         /\ link[c] = "asked"
<1>t. TypeOK /\ Committed \subseteq Number /\ Stage(c)
  BY DEF IInv, Committed
<1>r. replay[c] \in Replays /\ frames \in [Client -> Seq(Frame)]
  BY <1>t DEF TypeOK, Replays
<1>0. /\ 0 \in Nat /\ None \in Number \cup {0, None} /\ 0 \in Number \cup {0, None}
      /\ \A n \in 0..MaxSeq : n \in Number \cup {0, None}
      /\ \A e \in SUBSET Number, n \in Nat, m \in Number \cup {0, None} : Replaying(e, n, m) \in Replays
  BY DEF Replaying, Replays, Number
<1>1. CASE ReplaySelect(c)
  <2>1. PICK rows \in Page({e \in Committed : e > request[c]}, MaxReplay) :
           replay' = [replay EXCEPT ![c] = Replaying(rows, 0, None)]
    BY <1>1 DEF ReplaySelect
  <2>2. rows \in SUBSET Number
    BY <1>t, <2>1 DEF Page
  <2>3. Replaying(rows, 0, None) \in Replays
    BY <1>0, <2>2
  <2>4. link[c] = "asked" /\ frames' = frames
    BY <1>t, <1>1 DEF ReplaySelect, Stage
  <2>5. QED
    BY <1>t, <1>r, <2>1, <2>3, <2>4, ReplayWritten
<1>2. CASE ReplayRow(c)
  <2>1. PICK e \in replay[c].rows :
           IF c \in registered
           THEN /\ Send(c, Event(e))
                /\ replay' = [replay EXCEPT ![c] =
                                 Replaying(replay[c].rows \ {e}, replay[c].sent + 1, None)]
           ELSE /\ UNCHANGED frames
                /\ replay' = [replay EXCEPT ![c] = Replaying({}, replay[c].sent, None)]
    BY <1>2 DEF ReplayRow
  <2>2. e \in Number /\ replay[c].rows \ {e} \in SUBSET Number /\ {} \in SUBSET Number
        /\ replay[c].sent \in Nat /\ replay[c].sent + 1 \in Nat
    BY <1>r, <2>1 DEF Replays
  <2>3. /\ Replaying(replay[c].rows \ {e}, replay[c].sent + 1, None) \in Replays
        /\ Replaying({}, replay[c].sent, None) \in Replays
    BY <1>0, <2>2
  <2>4. replay' \in [Client -> Replays] /\ \A d \in Client : d # c => replay'[d] = replay[d]
    <3>1. CASE c \in registered
      BY <1>t, <2>1, <2>3, <3>1, ReplayWritten
    <3>2. CASE c \notin registered
      BY <1>t, <2>1, <2>3, <3>2, ReplayWritten
    <3>3. QED
      BY <3>1, <3>2
  <2>5. Append(frames[c], Event(e)) \in Seq(Frame)
    BY <1>r, <2>2, AppendedEvent
  <2>6. frames' \in [Client -> Seq(Frame)] /\ \A d \in Client : d # c => frames'[d] = frames[d]
    BY <1>r, <2>1, <2>5 DEF Send
  <2>7. replay[c].on
    BY <1>t, <2>1 DEF Stage, NoReplay
  <2>8. QED
    BY <1>t, <2>4, <2>6, <2>7 DEF Stage
<1>3. CASE ReplayTail(c) \/ TailFails(c)
  <2>1. PICK n \in Nat : /\ n \in 0..MaxSeq
                         /\ replay' = [replay EXCEPT ![c] = Replaying({}, replay[c].sent, n)]
    BY <1>3, EventAssumption DEF ReplayTail, TailFails
  <2>2. Replaying({}, replay[c].sent, n) \in Replays
    BY <1>0, <1>r, <2>1 DEF Replays
  <2>3. frames' = frames /\ replay[c].on
    BY <1>3 DEF ReplayTail, TailFails
  <2>4. QED
    BY <1>t, <1>r, <2>1, <2>2, <2>3, ReplayWritten DEF Stage
<1>4. CASE ReplayEnds(c)
  <2>1. NoReplay \in Replays /\ NoReplay.tail = None
    BY DEF NoReplay, Replays
  <2>2. replay' \in [Client -> Replays] /\ \A d \in Client : d # c => replay'[d] = replay[d]
    BY <1>t, <1>4, <2>1, ReplayWritten DEF ReplayEnds
  <2>3. replay[c].sent \in Nat /\ replay[c].tail \in Nat
    BY <1>r, <1>4, EventAssumption DEF ReplayEnds, Number, Replays
  <2>4. Append(frames[c], Subscribed(replay[c].sent, replay[c].tail)) \in Seq(Frame)
    BY <1>r, <2>3, EventFrame, AppendedFrame
  <2>5. frames' \in [Client -> Seq(Frame)] /\ \A d \in Client : d # c => frames'[d] = frames[d]
    BY <1>r, <1>4, <2>4 DEF ReplayEnds, Send
  <2>6. replay[c].on
    BY <1>t, <1>4, <2>1 DEF ReplayEnds, Stage
  <2>7. QED
    BY <1>t, <2>2, <2>5, <2>6 DEF Stage
<1>5. QED
  BY <1>1, <1>2, <1>3, <1>4 DEF Answer

LEMMA AnswerTypes == ASSUME IInv, NEW c \in Client, Answer(c) PROVE TypeOK'
<1>t. TypeOK /\ Committed \subseteq Number
  BY DEF IInv, Committed
<1>1. UNCHANGED <<logVars, bridgeVars, registered, link, cursor, seen>>
  BY DEF Answer, ReplaySelect, ReplayRow, ReplayTail, TailFails, ReplayEnds, clientVars
<1>2. request' \in [Client -> Number \cup {0, None}]
      /\ \A d \in Client : d # c => request'[d] = request[d]
  BY <1>t DEF Answer, ReplaySelect, ReplayRow, ReplayTail, TailFails, ReplayEnds, clientVars, TypeOK
<1>3. asked' \in [Client -> Number \cup {0}]
  BY <1>t DEF Answer, ReplaySelect, ReplayRow, ReplayTail, TailFails, ReplayEnds, clientVars, TypeOK
<1>4. faults' \in 0..MaxFaults
  BY <1>t, EventAssumption
  DEF Answer, ReplaySelect, ReplayRow, ReplayTail, TailFails, ReplayEnds, TypeOK
<1>5. QED
  BY <1>t, <1>1, <1>2, <1>3, <1>4, Answering
  DEF TypeOK, Committed, logVars, bridgeVars, Replays

LEMMA NextTypes == ASSUME IInv, [Next]_vars PROVE TypeOK'
<1>1. CASE UNCHANGED vars
  BY <1>1 DEF IInv, TypeOK, Committed, vars, logVars, bridgeVars, serverVars, clientVars
<1>2. QED
  BY <1>1, LogTypes, BridgeTypes, SocketTypes, RestartTypes, ReceiveTypes, AnswerTypes DEF Next

-----------------------------------------------------------------------------
\* The log and the bridge.

LEMMA CommittedStays == ASSUME IInv, [Next]_vars PROVE Committed \subseteq Committed'
<1>t. TypeOK
  BY DEF IInv
<1>1. ASSUME NEW e \in Number, Log(e) PROVE Committed \subseteq Committed'
  BY <1>t, <1>1 DEF Log, Insert, Commit, Undo, Announce, Committed, TypeOK
<1>2. CASE Restart
  BY <1>t, <1>2 DEF Restart, Committed, TypeOK
<1>3. CASE UNCHANGED row
  BY <1>3 DEF Committed
<1>4. Bridge => UNCHANGED row
  BY DEF Bridge, Fetch, Deliver, logVars
<1>5. \A c \in Client : Socket(c) \/ Receive(c) \/ Answer(c) => UNCHANGED row
  BY DEF Socket, Receive, Answer, Connect, Drop, Forget, OnConnected, OnEvent, OnSubscribed,
         ReplaySelect, ReplayRow, ReplayTail, TailFails, ReplayEnds, logVars
<1>6. QED
  BY <1>1, <1>2, <1>3, <1>4, <1>5 DEF Next, vars, logVars

LEMMA LogLogged == ASSUME IInv, NEW e \in Number, Log(e) PROVE Logged'
<1>t. TypeOK /\ Logged /\ UNCHANGED <<last, batch>>
  BY DEF IInv, Log, Insert, Commit, Undo, Announce, bridgeVars
<1>n. Number \subseteq Nat /\ Committed \subseteq Number /\ batch \subseteq Committed
  BY <1>t DEF Number, Committed, TypeOK
<1>1. \A d \in Number : /\ row'[d] = "open" => writer'[d] \in {"other", "publish"}
                        /\ writer'[d] = "other" => d \notin local'
                        /\ writer'[d] = "announced" /\ d > last => d \in local'
  <2>1. CASE Insert(e, "publish") \/ Insert(e, "other")
    <3>1. PICK w \in {"publish", "other"} :
             /\ row' = [row EXCEPT ![e] = "open"] /\ writer' = [writer EXCEPT ![e] = w]
             /\ local' = local /\ row[e] = "absent"
      BY <2>1 DEF Insert, bridgeVars
    <3>2. e \notin local
      BY <1>t, <3>1 DEF Logged, Committed
    <3>3. QED
      BY <1>t, <3>1, <3>2 DEF Logged, TypeOK
  <2>2. CASE Commit(e)
    BY <1>t, <2>2 DEF Commit, Logged, TypeOK, bridgeVars
  <2>3. CASE Undo(e)
    BY <1>t, <2>3 DEF Undo, Logged, TypeOK, bridgeVars
  <2>4. CASE Announce(e)
    BY <1>t, <2>4 DEF Announce, Logged, TypeOK
  <2>5. QED
    BY <2>1, <2>2, <2>3, <2>4 DEF Log
<1>l. local' \subseteq Committed \cup {e} /\ (local' \subseteq Committed \/ e \in Committed)
  BY <1>t DEF Log, Insert, Commit, Undo, Announce, bridgeVars, Logged, Committed
<1>2. CASE Commit(e)
  <2>1. Committed' = Committed \cup {e} /\ e \notin Committed
    BY <1>t, <1>2 DEF Commit, Committed, TypeOK
  <2>2. \A d \in batch : e < d => e \in late'
    BY <1>n, <1>2 DEF Commit
  <2>3. late \subseteq late'
    BY <1>2 DEF Commit
  <2>4. QED
    BY <1>t, <1>l, <1>1, <2>1, <2>2, <2>3 DEF Logged
<1>3. CASE ~Commit(e)
  <2>1. Committed' = Committed /\ late' = late
    BY <1>t, <1>3 DEF Log, Insert, Undo, Announce, Committed, TypeOK
  <2>2. QED
    BY <1>t, <1>l, <1>1, <2>1 DEF Logged
<1>4. QED
  BY <1>2, <1>3

\* A row that is passed over by the watermark, and not delivered, committed late.
LEMMA Delivering ==
  ASSUME IInv, Deliver
  PROVE  \E e \in batch :
            /\ batch' = batch \ {e} /\ last' = e /\ local' = local \ {e}
            /\ UNCHANGED <<logVars, serverVars, clientVars, faults>>
            /\ e \in Committed /\ e \in Number /\ e > last
            /\ \A d \in batch : e <= d
            /\ \A d \in Committed : last < d /\ d < e => d \in late
            /\ IF e \in local THEN UNCHANGED frames ELSE Broadcast(e)
<1>t. TypeOK /\ Logged
  BY DEF IInv
<1>1. PICK e \in batch :
         /\ IsLeast(e, batch) /\ batch' = batch \ {e} /\ last' = e /\ local' = local \ {e}
         /\ IF e \in local THEN UNCHANGED frames ELSE Broadcast(e)
  BY DEF Deliver
<1>2. Committed \subseteq Number /\ Number \subseteq Nat /\ batch \subseteq Committed
      /\ \A d \in batch : d > last
  BY <1>t DEF TypeOK, Committed, Number
<1>3. \A d \in batch : e <= d
  BY <1>1 DEF IsLeast
<1>4. ASSUME NEW d \in Committed, last < d, d < e PROVE d \in late
  <2>1. d \notin batch
    BY <1>2, <1>3, <1>4
  <2>2. QED
    BY <1>t, <1>4, <2>1 DEF Logged
<1>5. UNCHANGED <<logVars, serverVars, clientVars, faults>>
  BY DEF Deliver
<1>6. QED
  BY <1>1, <1>2, <1>3, <1>4, <1>5

LEMMA BridgeLogged == ASSUME IInv, Bridge PROVE Logged'
<1>t. TypeOK /\ Logged
  BY DEF IInv
<1>n. Number \subseteq Nat /\ Committed \subseteq Number /\ batch \subseteq Committed /\ last \in Nat
  BY <1>t, EventAssumption DEF Number, Committed, TypeOK
<1>1. CASE Fetch
  <2>1. UNCHANGED <<row, writer, late, last, local>>
    BY <1>1 DEF Fetch, logVars
  <2>2. batch' \in Page({e \in Committed : e > last}, Batch)
    BY <1>1 DEF Fetch
  <2>3. \A d \in batch', e \in Committed : last < e /\ e < d => e \in batch'
    BY <2>2 DEF Page
  <2>4. Committed' = Committed
    BY <2>1 DEF Committed
  <2>5. QED
    BY <1>t, <2>1, <2>3, <2>4 DEF Logged
<1>2. CASE Deliver
  <2>1. PICK e \in batch :
           /\ batch' = batch \ {e} /\ last' = e /\ local' = local \ {e}
           /\ UNCHANGED <<logVars, serverVars, clientVars, faults>>
           /\ e \in Committed /\ e \in Number /\ e > last
           /\ \A d \in batch : e <= d
           /\ \A d \in Committed : last < d /\ d < e => d \in late
    BY <1>2, Delivering
  <2>2. UNCHANGED <<row, writer, late>> /\ Committed' = Committed
    BY <2>1 DEF logVars, Committed
  <2>3. \A d \in Number : /\ row'[d] = "open" => writer'[d] \in {"other", "publish"}
                          /\ writer'[d] = "other" => d \notin local'
    BY <1>t, <2>1, <2>2 DEF Logged
  <2>4. ASSUME NEW d \in Number, writer'[d] = "announced", d > last' PROVE d \in local'
    <3>1. d > last /\ d # e
      BY <1>n, <2>1, <2>4
    <3>2. QED
      BY <1>t, <2>1, <2>2, <2>4, <3>1 DEF Logged
  <2>5. ASSUME NEW d \in batch', NEW x \in Committed, last' < x, x < d, x \notin batch'
        PROVE  x \in late
    <3>1. last < x /\ x # e
      BY <1>n, <2>1, <2>5
    <3>2. QED
      BY <1>t, <2>1, <2>5, <3>1 DEF Logged
  <2>6. last' \in Committed' \cup {0} /\ local' \subseteq Committed'
    BY <1>t, <2>1, <2>2 DEF Logged
  <2>7. late' = late
    BY <2>2
  <2>8. QED
    BY <2>2, <2>3, <2>4, <2>5, <2>6, <2>7 DEF Logged
<1>3. QED
  BY <1>1, <1>2 DEF Bridge

LEMMA NextLogged == ASSUME IInv, [Next]_vars PROVE Logged'
<1>t. TypeOK /\ Logged
  BY DEF IInv
<1>1. CASE Restart
  <2>1. /\ \A e \in Number : /\ row'[e] = "open" => writer[e] = "other" /\ writer'[e] = "other"
                             /\ writer'[e] # "announced"
        /\ local' = {} /\ batch' = {}
    BY <1>t, <1>1 DEF Restart, Logged, TypeOK
  <2>2. Committed' = Committed
    BY <1>t, <1>1 DEF Restart, Committed, TypeOK
  <2>3. last' \in Committed \cup {0}
    BY <1>1 DEF Restart, IsTail
  <2>4. QED
    BY <2>1, <2>2, <2>3 DEF Logged
<1>2. ASSUME UNCHANGED <<logVars, bridgeVars>> PROVE Logged'
  BY <1>t, <1>2 DEF logVars, bridgeVars, Logged, Committed
<1>3. \A c \in Client : Socket(c) \/ Receive(c) \/ Answer(c) => UNCHANGED <<logVars, bridgeVars>>
  BY DEF Socket, Receive, Answer, Connect, Drop, Forget, OnConnected, OnEvent, OnSubscribed,
         ReplaySelect, ReplayRow, ReplayTail, TailFails, ReplayEnds
<1>4. QED
  BY <1>1, <1>2, <1>3, LogLogged, BridgeLogged DEF Next, vars

\* What the invariant says of one client.
Flow(c) == Had(c) \subseteq Committed /\ Stage(c) /\ Catching(c)

\* A step of the log or of the bridge leaves a client where it is, unless its
\* broadcast adds an event to what is on its way.
LEMMA Quiet ==
  ASSUME IInv, NEW c \in Client, UNCHANGED <<registered, replay, link, request, seen, asked>>,
         Same(c), OnItsWay(c) \subseteq OnItsWay(c)', OnItsWay(c)' \subseteq OnItsWay(c) \cup Committed,
         Committed \subseteq Committed',
         c \in registered /\ Covered(c) => Covered(c)'
  PROVE  Flow(c)'
<1>t. Had(c) \subseteq Committed /\ Stage(c) /\ Catching(c)
  BY DEF IInv, Sent
<1>1. Had(c)' \subseteq Committed'
  BY <1>t DEF Had
<1>2. Stage(c)'
  BY <1>t DEF Stage, Same
<1>3. Acknowledged(c)' => Acknowledged(c)
  BY DEF Acknowledged, Same
<1>4. Catching(c)'
  BY <1>t, <1>3 DEF Catching, Short
<1>5. QED
  BY <1>1, <1>2, <1>4 DEF Flow

LEMMA LogFlow == ASSUME IInv, NEW e \in Number, Log(e), NEW c \in Client PROVE Flow(c)'
<1>t. TypeOK /\ Logged
  BY DEF IInv
<1>g. Committed \subseteq Committed'
  BY CommittedStays DEF Next
<1>0. UNCHANGED <<registered, replay, link, request, seen, asked, last>>
  BY DEF Log, Insert, Commit, Undo, Announce, serverVars, clientVars, bridgeVars
<1>n. last \in Nat /\ Number \subseteq Nat /\ 0 \notin Number
  BY <1>t, EventAssumption DEF TypeOK, Number
<1>1. CASE Insert(e, "publish") \/ Insert(e, "other") \/ Undo(e)
  <2>1. UNCHANGED <<late, frames>>
    BY <1>1 DEF Insert, Undo
  <2>2. Committed' = Committed /\ \A d \in Committed : writer'[d] = writer[d]
    BY <1>t, <1>1 DEF Insert, Undo, Committed, TypeOK
  <2>3. Covered(c) => Covered(c)'
    BY <1>0, <2>1, <2>2 DEF Covered, Had, Pending, Orphan, OnItsWay
  <2>4. QED
    BY <1>0, <1>g, <2>1, <2>3, Quiet DEF Same, OnItsWay
<1>2. CASE Commit(e)
  <2>1. Committed' = Committed \cup {e} /\ e \notin Committed /\ row[e] = "open"
    BY <1>t, <1>2 DEF Commit, Committed, TypeOK
  <2>2. UNCHANGED <<writer, frames>> /\ late \subseteq late'
    BY <1>2 DEF Commit
  <2>3. Pending(e)'
    <3>1. writer[e] \in {"other", "publish"}
      BY <1>t, <2>1 DEF Logged
    <3>2. CASE e > last
      BY <1>0, <2>2, <3>1, <3>2 DEF Pending
    <3>3. CASE ~(e > last)
      <4>1. last \in Committed /\ last > e
        BY <1>t, <1>n, <2>1, <3>3 DEF Logged
      <4>2. e \in late'
        BY <1>2, <4>1 DEF Commit
      <4>3. QED
        BY <2>2, <3>1, <4>2 DEF Pending, Orphan
    <3>4. QED
      BY <3>2, <3>3
  <2>4. \A d \in Committed : Pending(d) => Pending(d)'
    BY <1>0, <2>2 DEF Pending, Orphan
  <2>5. Had(c)' = Had(c)
    BY <1>0, <2>2 DEF Had, OnItsWay
  <2>6. Covered(c) => Covered(c)'
    BY <1>0, <2>1, <2>3, <2>4, <2>5 DEF Covered
  <2>7. QED
    BY <1>0, <1>g, <2>2, <2>6, Quiet DEF Same, OnItsWay
<1>3. CASE Announce(e)
  <2>1. /\ Broadcast(e) /\ row' = row /\ late' = late /\ e \in Committed
        /\ writer' = [writer EXCEPT ![e] = "announced"]
    BY <1>3 DEF Announce, Committed
  <2>2. Same(c) /\ OnItsWay(c)' = OnItsWay(c) \cup (IF c \in registered THEN {e} ELSE {})
    BY <1>t, <2>1, Broadcasting
  <2>3. Committed' = Committed /\ \A d \in Number : d # e => writer'[d] = writer[d]
    BY <1>t, <2>1 DEF Committed, TypeOK
  <2>4. \A d \in Committed : d # e /\ Pending(d) => Pending(d)'
    BY <1>0, <2>1, <2>3 DEF Pending, Orphan, Committed
  <2>5. Had(c) \subseteq Had(c)' /\ (c \in registered => e \in Had(c)')
    BY <1>0, <2>2 DEF Had
  <2>6. c \in registered /\ Covered(c) => Covered(c)'
    BY <1>0, <2>3, <2>4, <2>5 DEF Covered
  <2>7. QED
    BY <1>0, <1>g, <2>1, <2>2, <2>6, Quiet
<1>4. QED
  BY <1>1, <1>2, <1>3 DEF Log

LEMMA BridgeFlow == ASSUME IInv, Bridge, NEW c \in Client PROVE Flow(c)'
<1>t. TypeOK /\ Logged
  BY DEF IInv
<1>0. UNCHANGED <<row, writer, late, registered, replay, link, request, seen, asked>>
  BY DEF Bridge, Fetch, Deliver, logVars, serverVars, clientVars
<1>g. Committed' = Committed
  BY <1>0 DEF Committed
<1>1. CASE Fetch
  <2>1. UNCHANGED <<frames, last>>
    BY <1>1 DEF Fetch
  <2>2. Covered(c) => Covered(c)'
    BY <1>0, <1>g, <2>1 DEF Covered, Had, Pending, Orphan, OnItsWay
  <2>3. QED
    BY <1>0, <1>g, <2>1, <2>2, Quiet DEF Same, OnItsWay
<1>2. CASE Deliver
  <2>1. PICK e \in batch :
           /\ last' = e /\ e \in Committed /\ e \in Number
           /\ \A d \in Committed : last < d /\ d < e => d \in late
           /\ IF e \in local THEN UNCHANGED frames ELSE Broadcast(e)
    BY <1>2, Delivering
  <2>2. /\ Same(c) /\ OnItsWay(c) \subseteq OnItsWay(c)'
        /\ OnItsWay(c)' \subseteq OnItsWay(c) \cup {e}
        /\ e \notin local /\ c \in registered => e \in OnItsWay(c)'
    <3>1. CASE e \in local
      BY <2>1, <3>1 DEF Same, OnItsWay
    <3>2. CASE e \notin local
      BY <1>t, <2>1, <3>2, Broadcasting
    <3>3. QED
      BY <3>1, <3>2
  <2>3. ASSUME NEW d \in Committed, c \in registered, Pending(d), ~Pending(d)' PROVE d \in OnItsWay(c)'
    <3>1. d > last /\ writer[d] = "other" /\ ~(d > e) /\ d \notin late
      BY <1>0, <2>1, <2>3 DEF Pending, Orphan
    <3>2. d \in Nat /\ e \in Nat /\ last \in Nat
      BY <1>t, <2>1, EventAssumption DEF Committed, Number, TypeOK
    <3>3. d = e
      BY <2>1, <3>1, <3>2
    <3>4. e \notin local
      BY <1>t, <2>1, <3>1, <3>3 DEF Logged
    <3>5. QED
      BY <2>2, <2>3, <3>3, <3>4
  <2>4. Had(c) \subseteq Had(c)' /\ OnItsWay(c)' \subseteq Had(c)'
    BY <1>0, <2>2 DEF Had
  <2>5. c \in registered /\ Covered(c) => Covered(c)'
    BY <1>0, <1>g, <2>3, <2>4 DEF Covered
  <2>6. QED
    BY <1>0, <1>g, <2>1, <2>2, <2>5, Quiet
<1>3. QED
  BY <1>1, <1>2 DEF Bridge

\* A step that is not about the client leaves it where it is.
LEMMA Apart ==
  ASSUME IInv, NEW c \in Client, UNCHANGED <<logVars, bridgeVars>>,
         frames'[c] = frames[c], link'[c] = link[c], request'[c] = request[c],
         replay'[c] = replay[c], seen'[c] = seen[c], asked'[c] = asked[c],
         c \in registered' => c \in registered
  PROVE  Flow(c)'
<1>t. Had(c) \subseteq Committed /\ Stage(c) /\ Catching(c)
  BY DEF IInv, Sent
<1>0. UNCHANGED <<row, writer, late, last>> /\ Committed' = Committed
  BY DEF logVars, bridgeVars, Committed
<1>1. OnItsWay(c)' = OnItsWay(c) /\ Had(c)' = Had(c)
  BY DEF OnItsWay, Had
<1>2. Covered(c)' <=> Covered(c)
  BY <1>0, <1>1 DEF Covered, Pending, Orphan
<1>3. (Acknowledged(c)' <=> Acknowledged(c)) /\ (Short(c)' <=> Short(c))
  BY DEF Acknowledged, Short
<1>4. Stage(c)'
  BY <1>t DEF Stage
<1>5. Catching(c)'
  BY <1>t, <1>2, <1>3 DEF Catching
<1>6. QED
  BY <1>t, <1>0, <1>1, <1>4, <1>5 DEF Flow

LEMMA NoFrames == EventsIn(<<>>) = {} /\ Controls(<<>>) = {}
  BY DEF EventsIn, Controls

\* A client whose socket is broken has what it has seen.
LEMMA BrokenFlow ==
  ASSUME IInv, NEW S \in SUBSET Client, Broken(S), seen' = seen, Committed' = Committed,
         NEW c \in S
  PROVE  Flow(c)'
<1>t. seen[c] \subseteq Committed
  BY DEF IInv, Sent, Had
<1>1. /\ c \notin registered' /\ link'[c] = "down" /\ frames'[c] = <<>>
      /\ request'[c] = None /\ replay'[c] = NoReplay
  BY DEF Broken
<1>2. NoReplay.rows = {} /\ ~NoReplay.on /\ NoReplay.tail = None
  BY DEF NoReplay
<1>3. Had(c)' \subseteq Committed'
  BY <1>t, <1>1, <1>2, NoFrames DEF Had, OnItsWay
<1>4. Stage(c)'
  BY <1>1, <1>2, NoFrames DEF Stage
<1>5. Catching(c)'
  BY <1>1 DEF Catching
<1>6. QED
  BY <1>3, <1>4, <1>5 DEF Flow

\* The only control frame of a socket that had none.
LEMMA OnlyControl ==
  ASSUME NEW s \in Seq(Frame), Controls(s) = {}, NEW f \in Frame, f.is # "event"
  PROVE  /\ EventsIn(Append(s, f)) = EventsIn(s)
         /\ \A i \in Controls(Append(s, f)) : i = Len(s) + 1 /\ Append(s, f)[i] = f
<1>1. /\ EventsIn(Append(s, f)) = EventsIn(s) \cup (IF f.is = "event" THEN {f.n} ELSE {})
      /\ Controls(Append(s, f)) =
             Controls(s) \cup (IF f.is = "event" THEN {} ELSE {Len(s) + 1})
      /\ Append(s, f)[Len(s) + 1] = f
  BY AppendedFrame
<1>2. Controls(Append(s, f)) = {Len(s) + 1}
  BY <1>1
<1>3. QED
  BY <1>1, <1>2

LEMMA RestartFlow == ASSUME IInv, Restart, NEW c \in Client PROVE Flow(c)'
<1>t. TypeOK
  BY DEF IInv
<1>1. Committed' = Committed /\ seen' = seen /\ Broken(Client)
  BY <1>t DEF Restart, Committed, TypeOK
<1>2. QED
  BY <1>1, BrokenFlow

LEMMA SocketFlow == ASSUME IInv, NEW c \in Client, Socket(c), NEW d \in Client PROVE Flow(d)'
<1>t. TypeOK /\ Had(c) \subseteq Committed /\ Stage(c) /\ Catching(c)
  BY DEF IInv, Sent
<1>0. UNCHANGED <<logVars, bridgeVars, seen, asked>> /\ Committed' = Committed
  BY DEF Socket, Connect, Drop, Forget, logVars, clientVars, Committed
<1>1. CASE d # c
  <2>1. /\ frames'[d] = frames[d] /\ link'[d] = link[d] /\ request'[d] = request[d]
        /\ replay'[d] = replay[d] /\ (d \in registered' => d \in registered)
    BY <1>t, <1>1 DEF Socket, Connect, Drop, Forget, Broken, Send, clientVars, TypeOK
  <2>2. QED
    BY <1>0, <2>1, Apart
<1>2. CASE Connect(c) /\ d = c
  <2>1. link[c] = "down" /\ frames[c] = <<>> /\ request[c] = None /\ ~replay[c].on
    BY <1>t, <1>2 DEF Connect, TypeOK
  <2>2. /\ link'[c] = "hello" /\ frames'[c] = Append(frames[c], Hello)
        /\ request'[c] = None /\ replay'[c] = replay[c]
    BY <1>t, <1>2, <2>1 DEF Connect, Send, TypeOK
  <2>3. frames[c] \in Seq(Frame) /\ Controls(frames[c]) = {} /\ Hello \in Frame
        /\ Hello.is = "connected"
    BY <1>t, <2>1, NoFrames, EventFrame DEF TypeOK
  <2>4. /\ EventsIn(frames'[c]) = EventsIn(frames[c])
        /\ \A i \in Controls(frames'[c]) : i = Len(frames[c]) + 1 /\ frames'[c][i] = Hello
    BY <2>2, <2>3, OnlyControl
  <2>5. Had(c)' = Had(c)
    BY <1>0, <2>2, <2>4 DEF Had, OnItsWay
  <2>6. Stage(c)'
    BY <1>t, <2>1, <2>2, <2>3, <2>4 DEF Stage
  <2>7. Catching(c)'
    BY <2>1, <2>2, <2>3, <2>4 DEF Catching, Short, Acknowledged
  <2>8. QED
    BY <1>t, <1>0, <1>2, <2>5, <2>6, <2>7 DEF Flow
<1>3. CASE Drop(c) /\ d = c
  <2>1. Broken({c}) /\ {c} \in SUBSET Client /\ c \in {c}
    BY <1>3 DEF Drop
  <2>2. QED
    BY <1>0, <1>3, <2>1, BrokenFlow
<1>4. CASE Forget(c) /\ d = c
  <2>1. UNCHANGED <<replay, link, request, seen, asked, frames>> /\ registered' \subseteq registered
    BY <1>4 DEF Forget, clientVars
  <2>2. QED
    BY <1>0, <2>1, Apart
<1>5. QED
  BY <1>1, <1>2, <1>3, <1>4 DEF Socket

\* When a control frame is received nothing else was under way.
LEMMA ControlTaken ==
  ASSUME IInv, NEW c \in Client, Received(c), Head(frames[c]).is # "event"
  PROVE  /\ Controls(frames'[c]) = {} /\ request[c] = None /\ replay[c] = NoReplay
         /\ 1 \in Controls(frames[c]) /\ Head(frames[c]) = frames[c][1]
<1>t. Stage(c)
  BY DEF IInv
<1>1. frames[c] # <<>> /\ frames[c] \in Seq(Frame) /\ frames'[c] = Tail(frames[c])
  BY Receiving
<1>2. /\ \A i \in Controls(Tail(frames[c])) : i + 1 \in Controls(frames[c]) /\ i + 1 # 1
      /\ 1 \in Controls(frames[c]) /\ Head(frames[c]) = frames[c][1]
  BY <1>1, ReceivedFrame
<1>3. \A i \in Controls(frames[c]) : i = 1
  BY <1>t, <1>2 DEF Stage
<1>4. Controls(frames'[c]) = {}
  BY <1>1, <1>2, <1>3
<1>5. QED
  BY <1>t, <1>2, <1>4 DEF Stage

LEMMA ReceiveFlow == ASSUME IInv, NEW c \in Client, Receive(c), NEW d \in Client PROVE Flow(d)'
<1>t. TypeOK /\ Had(c) \subseteq Committed /\ Stage(c) /\ Catching(c)
  BY DEF IInv, Sent
<1>0. UNCHANGED <<logVars, bridgeVars, serverVars, asked>> /\ Committed' = Committed
      /\ UNCHANGED <<row, writer, late, last, registered, replay>> /\ Received(c)
  BY DEF Receive, OnConnected, OnEvent, OnSubscribed, logVars, bridgeVars, serverVars, Committed
<1>w. UNCHANGED <<seen, OnItsWay(c)>> => Had(c)' = Had(c) /\ (Covered(c) => Covered(c)')
  BY <1>0 DEF Had, Covered, Pending, Orphan
<1>1. CASE d # c
  <2>1. frames'[d] = frames[d]
    BY <1>0, <1>1, Receiving
  <2>2. link'[d] = link[d] /\ request'[d] = request[d] /\ seen'[d] = seen[d]
    BY <1>t, <1>1 DEF Receive, OnConnected, OnEvent, OnSubscribed, Subscribe, TypeOK
  <2>3. QED
    BY <1>0, <2>1, <2>2, Apart
<1>2. CASE OnConnected(c) /\ d = c
  <2>1. /\ Controls(frames'[c]) = {} /\ replay[c] = NoReplay /\ seen' = seen
        /\ Head(frames[c]).is = "connected"
    BY <1>0, <1>2, ControlTaken DEF OnConnected
  <2>2. OnItsWay(c)' = OnItsWay(c)
    BY <1>0, <2>1, Receiving
  <2>3. link'[c] = "asked"
    BY <1>t, <1>2 DEF OnConnected, Subscribe, TypeOK
  <2>4. Had(c)' \subseteq Committed'
    BY <1>t, <1>0, <1>w, <2>1, <2>2
  <2>5. Stage(c)'
    BY <1>0, <2>1, <2>3 DEF Stage, NoReplay
  <2>6. Catching(c)'
    BY <1>0, <2>1, <2>3 DEF Catching, Short, Acknowledged, NoReplay
  <2>7. QED
    BY <1>2, <2>4, <2>5, <2>6 DEF Flow
<1>3. CASE OnEvent(c) /\ d = c
  <2>1. /\ UNCHANGED <<link, request>> /\ Head(frames[c]).is = "event"
        /\ seen'[c] = seen[c] \cup {Head(frames[c]).n}
    BY <1>t, <1>3 DEF OnEvent, TypeOK
  <2>2. OnItsWay(c) = OnItsWay(c)' \cup {Head(frames[c]).n}
    BY <1>0, <2>1, Receiving
  <2>3. Had(c)' = Had(c)
    BY <1>0, <2>1, <2>2 DEF Had
  <2>4. Covered(c) => Covered(c)'
    BY <1>0, <2>3 DEF Covered, Pending, Orphan
  <2>5. frames[c] # <<>> /\ frames[c] \in Seq(Frame) /\ frames'[c] = Tail(frames[c])
    BY <1>0, Receiving
  <2>6. \A i \in Controls(frames'[c]) : i + 1 \in Controls(frames[c]) /\ frames'[c][i] = frames[c][i + 1]
    BY <2>5, ReceivedFrame
  <2>7. \A i \in Controls(frames'[c]) : i \in Int
    BY DEF Controls
  <2>8. Stage(c)'
    <3>1. Controls(frames[c]) = {} => Controls(frames'[c]) = {}
      BY <2>6
    <3>2. \A i, j \in Controls(frames'[c]) :
             /\ i = j
             /\ frames'[c][i].is = "connected" <=> link[c] = "hello"
             /\ frames'[c][i].is = "subscribed" <=> link[c] = "asked"
      BY <1>t, <2>6, <2>7 DEF Stage
    <3>3. QED
      BY <1>t, <1>0, <2>1, <3>1, <3>2 DEF Stage
  <2>9. Acknowledged(c)' => Acknowledged(c)
    BY <2>6 DEF Acknowledged
  <2>10. Catching(c)'
    BY <1>t, <1>0, <2>1, <2>4, <2>9 DEF Catching, Short
  <2>11. QED
    BY <1>t, <1>0, <1>3, <2>3, <2>8, <2>10 DEF Flow
<1>4. CASE OnSubscribed(c) /\ d = c
  <2>1. /\ Controls(frames'[c]) = {} /\ replay[c] = NoReplay /\ request[c] = None /\ seen' = seen
        /\ Head(frames[c]).is = "subscribed"
        /\ 1 \in Controls(frames[c]) /\ Head(frames[c]) = frames[c][1]
    BY <1>0, <1>4, ControlTaken DEF OnSubscribed
  <2>2. OnItsWay(c)' = OnItsWay(c)
    BY <1>0, <2>1, Receiving
  <2>3. \/ link'[c] = "asked"
        \/ link'[c] = "synced" /\ request'[c] = None /\ ~(Head(frames[c]).n >= MaxReplay)
    <3>1. \/ Subscribe(c, 0) \/ Subscribe(c, cursor[c])
          \/ /\ ~(Head(frames[c]).n >= MaxReplay)
             /\ link' = [link EXCEPT ![c] = "synced"] /\ UNCHANGED request
      BY <1>4 DEF OnSubscribed
    <3>2. QED
      BY <1>t, <2>1, <3>1 DEF Subscribe, TypeOK
  <2>4. Had(c)' \subseteq Committed'
    BY <1>t, <1>0, <1>w, <2>1, <2>2
  <2>5. Stage(c)'
    BY <1>0, <2>1, <2>3 DEF Stage, NoReplay
  <2>6. Catching(c)'
    <3>1. CASE link'[c] = "asked"
      BY <1>0, <2>1, <3>1 DEF Catching, Short, Acknowledged, NoReplay
    <3>2. CASE ~(Head(frames[c]).n >= MaxReplay)
      <4>1. Head(frames[c]).n \in Nat /\ MaxReplay \in Nat
        BY <1>0, Receiving, EventAssumption DEF Frame
      <4>2. Acknowledged(c)
        BY <2>1, <3>2, <4>1 DEF Acknowledged
      <4>3. QED
        BY <1>t, <1>0, <1>w, <2>1, <2>2, <4>2 DEF Catching
    <3>3. QED
      BY <2>3, <3>1, <3>2
  <2>7. QED
    BY <1>4, <2>4, <2>5, <2>6 DEF Flow
<1>5. QED
  BY <1>1, <1>2, <1>3, <1>4 DEF Receive

LEMMA RowSent ==
  ASSUME NEW S \in SUBSET Number, NEW e \in S
  PROVE  Cardinality(S) \in Nat /\ Cardinality(S \ {e}) \in Nat
         /\ Cardinality(S) = 1 + Cardinality(S \ {e})
<1>1. IsFiniteSet(Number)
  BY FS_Interval, EventAssumption DEF Number
<1>2. IsFiniteSet(S)
  BY <1>1, FS_Subset
<1>3. IsFiniteSet(S \ {e}) /\ Cardinality(S \ {e}) = Cardinality(S) - 1
  BY <1>2, FS_RemoveElement
<1>4. Cardinality(S) \in Nat /\ Cardinality(S \ {e}) \in Nat
  BY <1>2, <1>3, FS_CardinalityType
<1>5. QED
  BY <1>3, <1>4

\* What a replay in the making says of its client.
LEMMA Answers ==
  ASSUME IInv, NEW c \in Client, Answer(c)
  PROVE  /\ UNCHANGED <<logVars, bridgeVars, registered, link, cursor, seen>>
         /\ UNCHANGED <<row, writer, late, last>> /\ Committed' = Committed
         /\ Controls(frames[c]) = {} /\ link[c] = "asked"
         /\ replay[c].on \/ (ReplaySelect(c) /\ replay[c] = NoReplay)
<1>t. Stage(c)
  BY DEF IInv
<1>1. UNCHANGED <<logVars, bridgeVars, registered, link, cursor, seen>>
  BY DEF Answer, ReplaySelect, ReplayRow, ReplayTail, TailFails, ReplayEnds, clientVars
<1>2. NoReplay.rows = {} /\ NoReplay.tail = None
  BY DEF NoReplay
<1>3. replay[c].on \/ (ReplaySelect(c) /\ replay[c] = NoReplay)
  BY <1>t, <1>2 DEF Stage, Answer, ReplaySelect, ReplayRow, ReplayTail, TailFails, ReplayEnds
<1>4. ReplaySelect(c) => request[c] # None
  BY DEF ReplaySelect
<1>5. Controls(frames[c]) = {} /\ link[c] = "asked"
  BY <1>t, <1>3, <1>4 DEF Stage
<1>6. QED
  BY <1>1, <1>3, <1>5 DEF logVars, bridgeVars, Committed

LEMMA SelectFlow == ASSUME IInv, NEW c \in Client, ReplaySelect(c) PROVE Flow(c)'
<1>t. TypeOK /\ Had(c) \subseteq Committed
  BY DEF IInv, Sent
<1>0. /\ UNCHANGED <<row, writer, late, last, registered, link, seen, frames>>
      /\ Committed' = Committed
      /\ Controls(frames[c]) = {} /\ link[c] = "asked" /\ request[c] # None
  BY Answers DEF Answer, ReplaySelect
<1>1. PICK rows \in Page({e \in Committed : e > request[c]}, MaxReplay) :
         replay' = [replay EXCEPT ![c] = Replaying(rows, 0, None)]
  BY DEF ReplaySelect
<1>2. /\ replay'[c] = Replaying(rows, 0, None) /\ request'[c] = None
      /\ asked'[c] = request[c]
  BY <1>t, <1>1 DEF ReplaySelect, TypeOK
<1>3. /\ replay'[c].rows = rows /\ replay'[c].on /\ replay'[c].sent = 0
      /\ replay'[c].tail = None
  BY <1>2 DEF Replaying
<1>4. /\ rows \subseteq Committed
      /\ Cardinality(rows) = MaxReplay \/ \A e \in Committed : e > request[c] => e \in rows
  BY <1>1 DEF Page
<1>5. Had(c)' \subseteq Committed'
  BY <1>t, <1>0, <1>3, <1>4 DEF Had, OnItsWay
<1>6. Stage(c)'
  BY <1>0, <1>2, <1>3 DEF Stage
<1>7. Catching(c)'
  <2>1. link'[c] # "synced" /\ ~Acknowledged(c)'
    BY <1>0 DEF Acknowledged
  <2>2. ASSUME Short(c)' PROVE Covered(c)'
    <3>1. Cardinality(rows) # MaxReplay
      BY <1>3, <2>2, EventAssumption DEF Short
    <3>2. QED
      BY <1>0, <1>2, <1>3, <1>4, <3>1 DEF Covered, Had
  <2>3. QED
    BY <2>1, <2>2 DEF Catching
<1>8. QED
  BY <1>5, <1>6, <1>7 DEF Flow

LEMMA RowFlow == ASSUME IInv, NEW c \in Client, ReplayRow(c) PROVE Flow(c)'
<1>t. TypeOK /\ Had(c) \subseteq Committed /\ Stage(c) /\ Catching(c)
  BY DEF IInv, Sent
<1>0. /\ UNCHANGED <<row, writer, late, last, registered, link, request, seen, asked>>
      /\ Committed' = Committed
      /\ Controls(frames[c]) = {} /\ link[c] = "asked"
  BY Answers DEF Answer, ReplayRow, clientVars
<1>r. replay[c].rows \in SUBSET Number /\ replay[c].sent \in Nat /\ frames[c] \in Seq(Frame)
  BY <1>t DEF TypeOK
<1>1. PICK e \in replay[c].rows :
         IF c \in registered
         THEN /\ Send(c, Event(e))
              /\ replay' = [replay EXCEPT ![c] =
                               Replaying(replay[c].rows \ {e}, replay[c].sent + 1, None)]
         ELSE /\ UNCHANGED frames
              /\ replay' = [replay EXCEPT ![c] = Replaying({}, replay[c].sent, None)]
  BY DEF ReplayRow
<1>o. replay[c].on /\ request[c] = None
  BY <1>t, <1>1 DEF Stage, NoReplay
<1>2. CASE c \in registered
  <2>1. /\ frames'[c] = Append(frames[c], Event(e))
        /\ replay'[c] = Replaying(replay[c].rows \ {e}, replay[c].sent + 1, None)
    BY <1>t, <1>1, <1>2 DEF Send, TypeOK
  <2>2. /\ replay'[c].rows = replay[c].rows \ {e} /\ replay'[c].sent = replay[c].sent + 1
        /\ replay'[c].on /\ replay'[c].tail = None
    BY <2>1 DEF Replaying
  <2>3. EventsIn(frames'[c]) = EventsIn(frames[c]) \cup {e} /\ Controls(frames'[c]) = {}
    BY <1>0, <1>r, <1>1, <2>1, AppendedEvent
  <2>4. Had(c)' = Had(c)
    BY <1>0, <1>1, <2>2, <2>3 DEF Had, OnItsWay
  <2>5. Stage(c)'
    BY <1>0, <1>o, <2>2, <2>3 DEF Stage
  <2>6. Short(c)' => Short(c)
    <3>1. /\ Cardinality(replay[c].rows) = 1 + Cardinality(replay[c].rows \ {e})
          /\ Cardinality(replay[c].rows \ {e}) \in Nat
      BY <1>r, <1>1, RowSent
    <3>2. replay[c].sent + 1 + Cardinality(replay[c].rows \ {e})
            = replay[c].sent + Cardinality(replay[c].rows)
      BY <1>r, <3>1
    <3>3. QED
      BY <1>o, <2>2, <3>2 DEF Short
  <2>7. Covered(c) => Covered(c)'
    BY <1>0, <2>4 DEF Covered, Pending, Orphan
  <2>8. Catching(c)'
    BY <1>t, <1>0, <2>3, <2>6, <2>7 DEF Catching, Acknowledged
  <2>9. QED
    BY <1>t, <1>0, <2>4, <2>5, <2>8 DEF Flow
<1>3. CASE c \notin registered
  <2>1. frames' = frames /\ replay'[c] = Replaying({}, replay[c].sent, None)
    BY <1>t, <1>1, <1>3 DEF TypeOK
  <2>2. replay'[c].rows = {} /\ replay'[c].on /\ replay'[c].tail = None
    BY <2>1 DEF Replaying
  <2>3. Had(c)' \subseteq Committed'
    BY <1>t, <1>0, <2>1, <2>2 DEF Had, OnItsWay
  <2>4. Stage(c)'
    BY <1>0, <1>o, <2>1, <2>2 DEF Stage
  <2>5. Catching(c)'
    BY <1>0, <1>3 DEF Catching
  <2>6. QED
    BY <2>3, <2>4, <2>5 DEF Flow
<1>4. QED
  BY <1>2, <1>3

LEMMA TailFlow ==
  ASSUME IInv, NEW c \in Client, ReplayTail(c) \/ TailFails(c) PROVE Flow(c)'
<1>t. TypeOK /\ Had(c) \subseteq Committed /\ Stage(c) /\ Catching(c)
  BY DEF IInv, Sent
<1>0. /\ UNCHANGED <<row, writer, late, last, registered, link, request, seen, asked, frames>>
      /\ Committed' = Committed /\ link[c] = "asked" /\ Controls(frames[c]) = {}
  BY Answers DEF Answer, ReplayTail, TailFails, clientVars
<1>1. PICK n : replay' = [replay EXCEPT ![c] = Replaying({}, replay[c].sent, n)]
  BY DEF ReplayTail, TailFails
<1>2. replay[c].on /\ replay[c].rows = {} /\ request[c] = None
  BY <1>t DEF ReplayTail, TailFails, Stage
<1>3. replay'[c] = Replaying({}, replay[c].sent, n)
  BY <1>t, <1>1 DEF TypeOK
<1>4. replay'[c].rows = {} /\ replay'[c].on /\ replay'[c].sent = replay[c].sent
  BY <1>3 DEF Replaying
<1>5. Had(c)' = Had(c)
  BY <1>0, <1>2, <1>4 DEF Had, OnItsWay
<1>6. Stage(c)'
  BY <1>0, <1>2, <1>4 DEF Stage
<1>7. Short(c)' <=> Short(c)
  BY <1>2, <1>4 DEF Short
<1>8. Covered(c) => Covered(c)'
  BY <1>0, <1>5 DEF Covered, Pending, Orphan
<1>9. Catching(c)'
  BY <1>t, <1>0, <1>7, <1>8 DEF Catching, Acknowledged
<1>10. QED
  BY <1>t, <1>0, <1>5, <1>6, <1>9 DEF Flow

LEMMA EndsFlow == ASSUME IInv, NEW c \in Client, ReplayEnds(c) PROVE Flow(c)'
<1>t. TypeOK /\ Had(c) \subseteq Committed /\ Stage(c) /\ Catching(c)
  BY DEF IInv, Sent
<1>0. /\ UNCHANGED <<row, writer, late, last, registered, link, request, seen, asked>>
      /\ Committed' = Committed /\ link[c] = "asked" /\ Controls(frames[c]) = {}
  BY Answers DEF Answer, ReplayEnds, clientVars
<1>1. replay'[c] = NoReplay /\ replay[c].tail # None
  BY <1>t DEF ReplayEnds, TypeOK
<1>2. replay[c].on /\ replay[c].rows = {} /\ request[c] = None
  BY <1>t, <1>1 DEF Stage, NoReplay
<1>3. NoReplay.rows = {} /\ ~NoReplay.on /\ NoReplay.tail = None
  BY DEF NoReplay
<1>r. /\ replay[c].sent \in Nat /\ replay[c].tail \in Number \cup {0, None}
      /\ frames[c] \in Seq(Frame) /\ c \in DOMAIN frames
  BY <1>t DEF TypeOK
<1>4. CASE c \in registered
  <2> DEFINE f == Subscribed(replay[c].sent, replay[c].tail)
  <2>1. frames'[c] = Append(frames[c], f)
    BY <1>r, <1>4 DEF ReplayEnds, Send
  <2>2. replay[c].tail \in Nat
    BY <1>r, <1>1, EventAssumption DEF Number
  <2>3. f \in Frame /\ f.is = "subscribed" /\ f.n = replay[c].sent
    BY <1>r, <2>2, EventFrame
  <2> HIDE DEF f
  <2>4. /\ EventsIn(frames'[c]) = EventsIn(frames[c])
        /\ \A i \in Controls(frames'[c]) : i = Len(frames[c]) + 1 /\ frames'[c][i] = f
    BY <1>0, <1>r, <2>1, <2>3, OnlyControl
  <2>5. Had(c)' = Had(c)
    BY <1>0, <1>1, <1>2, <1>3, <2>4 DEF Had, OnItsWay
  <2>6. Stage(c)'
    BY <1>0, <1>1, <1>2, <1>3, <2>3, <2>4 DEF Stage
  <2>7. Acknowledged(c)' => Short(c)
    <3>1. Cardinality(replay[c].rows) = 0
      BY <1>2, FS_EmptySet
    <3>2. QED
      BY <1>r, <1>2, <2>3, <2>4, <3>1 DEF Acknowledged, Short
  <2>8. Covered(c) => Covered(c)'
    BY <1>0, <2>5 DEF Covered, Pending, Orphan
  <2>9. Catching(c)'
    BY <1>t, <1>0, <1>1, <1>3, <2>7, <2>8 DEF Catching, Short
  <2>10. QED
    BY <1>t, <1>0, <2>5, <2>6, <2>9 DEF Flow
<1>5. CASE c \notin registered
  <2>1. frames' = frames
    BY <1>5 DEF ReplayEnds
  <2>2. Had(c)' \subseteq Committed'
    BY <1>t, <1>0, <1>1, <1>3, <2>1 DEF Had, OnItsWay
  <2>3. Stage(c)'
    BY <1>0, <1>1, <1>2, <1>3, <2>1 DEF Stage
  <2>4. Catching(c)'
    BY <1>0, <1>5 DEF Catching
  <2>5. QED
    BY <2>2, <2>3, <2>4 DEF Flow
<1>6. QED
  BY <1>4, <1>5

LEMMA AnswerFlow == ASSUME IInv, NEW c \in Client, Answer(c), NEW d \in Client PROVE Flow(d)'
<1>1. CASE d = c
  BY <1>1, SelectFlow, RowFlow, TailFlow, EndsFlow DEF Answer
<1>2. CASE d # c
  <2>1. TypeOK
    BY DEF IInv
  <2>2. UNCHANGED <<logVars, bridgeVars, registered, link, cursor, seen>>
    BY Answers
  <2>3. replay'[d] = replay[d] /\ frames'[d] = frames[d]
    BY <1>2, Answering
  <2>4. request'[d] = request[d] /\ asked'[d] = asked[d]
    BY <1>2, <2>1
    DEF Answer, ReplaySelect, ReplayRow, ReplayTail, TailFails, ReplayEnds, clientVars, TypeOK
  <2>5. QED
    BY <2>2, <2>3, <2>4, Apart
<1>3. QED
  BY <1>1, <1>2

-----------------------------------------------------------------------------
LEMMA InitIInv == Init => IInv
<1> SUFFICES ASSUME Init PROVE IInv
  OBVIOUS
<1>1. Committed = {}
  BY DEF Init, Committed
<1>2. NoReplay \in Replays /\ NoReplay.rows = {} /\ ~NoReplay.on /\ NoReplay.tail = None
  BY DEF NoReplay, Replays
<1>3. TypeOK
  <2>1. replay \in [Client -> Replays] /\ \A c \in Client : ~replay[c].on
    BY <1>2 DEF Init
  <2>2. frames \in [Client -> Seq(Frame)]
    BY DEF Init
  <2>3. last \in 0..MaxSeq /\ faults \in 0..MaxFaults
    BY EventAssumption DEF Init
  <2>4. QED
    BY <1>1, <2>1, <2>2, <2>3 DEF Init, TypeOK, Replays
<1>4. Sent
  BY <1>2, NoFrames DEF Init, Sent, Had, OnItsWay
<1>5. Logged
  BY <1>1 DEF Init, Logged
<1>6. \A c \in Client : Stage(c) /\ Catching(c)
  BY <1>2, NoFrames DEF Init, Stage, Catching
<1>7. QED
  BY <1>3, <1>4, <1>5, <1>6 DEF IInv

LEMMA NextIInv == IInv /\ [Next]_vars => IInv'
<1> SUFFICES ASSUME IInv, [Next]_vars PROVE IInv'
  OBVIOUS
<1>1. TypeOK' /\ Logged'
  BY NextTypes, NextLogged
<1>2. ASSUME NEW c \in Client PROVE Flow(c)'
  <2>1. CASE UNCHANGED vars
    BY <2>1, Apart DEF vars, serverVars, clientVars
  <2>2. QED
    BY <2>1, LogFlow, BridgeFlow, SocketFlow, ReceiveFlow, AnswerFlow, RestartFlow DEF Next
<1>3. QED
  BY <1>1, <1>2 DEF IInv, Sent, Flow

LEMMA Invariance == Spec => []IInv
  BY InitIInv, NextIInv, PTL DEF Spec

\* The variables have their types, a client that is down has nothing on its way,
\* and the bridge's batch lies above its watermark (bridge.py, ws.py).
THEOREM TypeCorrect == Spec => []TypeOK
<1>1. IInv => TypeOK
  BY DEF IInv
<1>2. QED
  BY <1>1, Invariance, PTL

\* publish announces after its commit, the bridge and the replay read committed
\* rows: no client is sent an event that a rollback erases.
THEOREM NoPhantomHolds == Spec => []NoPhantom
<1>1. IInv => NoPhantom
  BY DEF IInv, Sent, Had, NoPhantom
<1>2. QED
  BY <1>1, Invariance, PTL

\* A socket is registered before it is greeted, and the greeting comes before the
\* SELECT of the replay: what the replay does not bring, the live stream does.
THEOREM SeamlessHolds == Spec => []Seamless
<1>1. IInv => Seamless
  <2> SUFFICES ASSUME IInv, NEW c \in registered, link[c] = "synced",
                      NEW e \in Committed, e > asked[c]
               PROVE  e \in seen[c] \cup OnItsWay(c) \/ ToCome(e) \/ Orphan(e)
    BY DEF Seamless
  <2>1. c \in Client /\ Stage(c) /\ Catching(c)
    BY DEF IInv, TypeOK
  <2>2. replay[c].rows = {}
    BY <2>1 DEF Stage, NoReplay
  <2>3. Covered(c)
    BY <2>1 DEF Catching
  <2>4. e \in Had(c) \/ Pending(e)
    BY <2>3 DEF Covered
  <2>5. QED
    BY <2>2, <2>4 DEF Had, Pending, ToCome
<1>2. QED
  BY <1>1, Invariance, PTL

\* mark_local precedes the broadcast and the bridge asks at each row, so that what
\* publish has broadcast the bridge passes over.
THEOREM NoEchoHolds == Spec => NoEcho
<1> DEFINE Quietly == \A e \in batch \ batch' :
                         writer[e] = "announced" /\ faults' = faults => frames' = frames
<1>1. ASSUME IInv, [Next]_vars PROVE [Quietly]_vars
  <2> SUFFICES ASSUME Next, NEW e \in batch \ batch', writer[e] = "announced", faults' = faults
               PROVE  frames' = frames
    BY <1>1
  <2>t. TypeOK /\ Logged /\ batch # {}
    BY <1>1 DEF IInv
  <2>1. Deliver
    <3>1. \A d \in Number : ~Log(d)
      BY DEF Log, Insert, Commit, Undo, Announce, bridgeVars
    <3>2. ~Fetch
      BY <2>t DEF Fetch
    <3>3. \A c \in Client : ~(Socket(c) \/ Receive(c) \/ Answer(c))
      BY DEF Socket, Receive, Answer, Connect, Drop, Forget, OnConnected, OnEvent, OnSubscribed,
             ReplaySelect, ReplayRow, ReplayTail, TailFails, ReplayEnds, bridgeVars
    <3>4. ~Restart
      BY <2>t DEF Restart, TypeOK
    <3>5. QED
      BY <3>1, <3>2, <3>3, <3>4 DEF Next, Bridge
  <2>2. PICK d \in batch :
           /\ batch' = batch \ {d}
           /\ d \in Number /\ d > last
           /\ IF d \in local THEN UNCHANGED frames ELSE Broadcast(d)
    BY <1>1, <2>1, Delivering
  <2>3. d = e
    BY <2>2
  <2>4. e \in local
    BY <2>t, <2>2, <2>3 DEF Logged
  <2>5. QED
    BY <2>2, <2>3, <2>4
<1>2. QED
  BY <1>1, Invariance, PTL DEF Spec, NoEcho
=============================================================================
