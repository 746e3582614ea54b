----------------------------- MODULE EventStream -----------------------------
(***************************************************************************)
(* From the durable log to a client: events/publisher.py, events/bridge.py *)
(* and api/ws.py in the API process, WebSocketClient.swift on the phone.   *)
(*                                                                         *)
(* The event table numbers a row when it is inserted and shows it when its *)
(* transaction commits.  publish inserts a row and then broadcasts it to   *)
(* the sockets itself; whatever other code and other processes insert, the *)
(* bridge fetches and broadcasts.  A client that connects asks for all     *)
(* after the highest number it has seen, and meanwhile hears the live      *)
(* stream.  Token frames, which have no row, are left out.                 *)
(***************************************************************************)
EXTENDS Integers, Sequences, FiniteSets

CONSTANTS
    Client,
    MaxSeq,       \* bound: how many rows are inserted
    MaxReplay,    \* MAX_REPLAY, and replayBatchCap of the client
    Batch,        \* the LIMIT of the bridge's fetch
    MaxFaults      \* bound: sockets that break or stall, failed queries, restarts

ASSUME EventAssumption ==
    /\ MaxSeq \in Nat
    /\ MaxReplay \in Nat \ {0} /\ Batch \in Nat \ {0}
    /\ MaxFaults \in Nat

VARIABLES
    row,          \* the row of each number: "absent", "open", "committed", "undone"
    writer,       \* who inserts it: "publish", "other"; "announced" when publish
                  \* has broadcast it, "past" when its process has died
    late,         \* history: rows that committed after a row of a higher number
    last,         \* _last_seq of the bridge
    batch,        \* the rows it fetched and has not passed
    local,        \* _local_seqs
    registered,   \* the clients in _connections
    link,         \* where each client is: "down", "hello", "asked", "synced"
    frames,       \* what was sent to it on the present socket and not received
    request,      \* its subscribe on the way to the server, as the number asked
    replay,       \* the server's answer to it, in the making
    cursor,       \* its lastSequence
    seen,         \* history: the events it has received
    asked,        \* history: the number of its last subscribe
    faults

logVars == <<row, writer, late>>
bridgeVars == <<last, batch, local>>
serverVars == <<registered, replay>>
clientVars == <<link, request, cursor, seen, asked>>
vars == <<logVars, bridgeVars, serverVars, clientVars, frames, faults>>

Number == 1..MaxSeq
Committed == {e \in Number : row[e] = "committed"}
\* ORDER BY seq LIMIT n: all of S, or its n lowest.
Page(S, n) ==
    {R \in SUBSET S : /\ \A e \in R, d \in S : d < e => d \in R
                      /\ Cardinality(R) = n \/ (R = S /\ Cardinality(R) < n)}
IsLeast(e, S) == e \in S /\ \A d \in S : e <= d
\* SELECT coalesce(max(seq), 0).
IsTail(n) == n \in Committed \cup {0} /\ \A e \in Committed : e <= n

None == -1
NoReplay == [on |-> FALSE, rows |-> {}, sent |-> 0, tail |-> None]
Replaying(rows, sent, tail) == [on |-> TRUE, rows |-> rows, sent |-> sent, tail |-> tail]

Frame == [is : {"connected", "event", "subscribed"}, n : Nat, max : Nat]
Hello == [is |-> "connected", n |-> 0, max |-> 0]
Event(e) == [is |-> "event", n |-> e, max |-> 0]
EventsIn(s) == {s[i].n : i \in {j \in 1..Len(s) : s[j].is = "event"}}
Subscribed(sent, tail) == [is |-> "subscribed", n |-> sent, max |-> tail]

Init ==
    /\ row = [e \in Number |-> "absent"]
    /\ writer = [e \in Number |-> "other"]
    /\ late = {}
    /\ last = 0 /\ batch = {} /\ local = {}
    /\ registered = {}
    /\ replay = [c \in Client |-> NoReplay]
    /\ link = [c \in Client |-> "down"]
    /\ request = [c \in Client |-> None]
    /\ cursor = [c \in Client |-> 0]
    /\ seen = [c \in Client |-> {}]
    /\ asked = [c \in Client |-> 0]
    /\ frames = [c \in Client |-> <<>>]
    /\ faults = 0

Send(c, f) == frames' = [frames EXCEPT ![c] = Append(@, f)]
Broadcast(e) ==
    frames' = [c \in Client |-> IF c \in registered THEN Append(frames[c], Event(e))
                                                    ELSE frames[c]]

-----------------------------------------------------------------------------
\* The log.

Insert(e, w) ==
    /\ row[e] = "absent"
    /\ \A d \in Number : d < e => row[d] # "absent"
    /\ row' = [row EXCEPT ![e] = "open"]
    /\ writer' = [writer EXCEPT ![e] = w]
    /\ UNCHANGED <<late, bridgeVars, serverVars, clientVars, frames, faults>>

Commit(e) ==
    /\ row[e] = "open"
    /\ row' = [row EXCEPT ![e] = "committed"]
    /\ late' = IF \E d \in Committed : d > e THEN late \cup {e} ELSE late
    /\ UNCHANGED <<writer, bridgeVars, serverVars, clientVars, frames, faults>>

\* The transaction rolls back.
Undo(e) ==
    /\ row[e] = "open"
    /\ row' = [row EXCEPT ![e] = "undone"]
    /\ UNCHANGED <<writer, late, bridgeVars, serverVars, clientVars, frames, faults>>

-----------------------------------------------------------------------------
\* publish, when its INSERT has returned: mark_local, then the broadcast.  (Marking
\* inside a caller's transaction and broadcasting after it, publish_on_conn with
\* publish_committed, has no caller and is left out.)

Announce(e) ==
    /\ writer[e] = "publish"
    /\ row[e] = "committed"
    /\ local' = local \cup {e}
    /\ writer' = [writer EXCEPT ![e] = "announced"]
    /\ Broadcast(e)
    /\ UNCHANGED <<row, late, last, batch, serverVars, clientVars, faults>>

-----------------------------------------------------------------------------
\* The bridge, woken by NOTIFY or by its heartbeat.

\* Faulty variant: it waits for the number after its watermark.
FetchNext ==
    /\ batch = {}
    /\ batch' \in Page({e \in Committed : e = last + 1}, Batch)
    /\ batch' # {}
    /\ UNCHANGED <<logVars, last, local, serverVars, clientVars, frames, faults>>

Fetch ==
    /\ batch = {}
    /\ batch' \in Page({e \in Committed : e > last}, Batch)
    /\ batch' # {}
    /\ UNCHANGED <<logVars, last, local, serverVars, clientVars, frames, faults>>

\* Faulty variants: events of publish are not told from the others, and the
\* watermark goes to the end of the log.
DeliverAll ==
    /\ \E e \in batch :
          /\ IsLeast(e, batch)
          /\ batch' = batch \ {e}
          /\ last' = e
          /\ Broadcast(e)
          /\ local' = local \ {e}
    /\ UNCHANGED <<logVars, serverVars, clientVars, faults>>
DeliverToTail ==
    /\ \E e \in batch, tail \in Committed :
          /\ IsLeast(e, batch) /\ IsTail(tail)
          /\ batch' = batch \ {e}
          /\ last' = IF batch' = {} THEN tail ELSE e
          /\ IF e \in local THEN UNCHANGED frames ELSE Broadcast(e)
          /\ local' = local \ {e}
    /\ UNCHANGED <<logVars, serverVars, clientVars, faults>>

\* One row of what was fetched: passed over if publish has marked it by now.
Deliver ==
    /\ \E e \in batch :
          /\ IsLeast(e, batch)
          /\ batch' = batch \ {e}
          /\ last' = e
          /\ IF e \in local THEN UNCHANGED frames ELSE Broadcast(e)
          /\ local' = local \ {e}
    /\ UNCHANGED <<logVars, serverVars, clientVars, faults>>

-----------------------------------------------------------------------------
\* A socket: accepted, dropped, or forgotten.

Connect(c) ==
    /\ link[c] = "down"
    /\ registered' = registered \cup {c}
    /\ Send(c, Hello)
    /\ link' = [link EXCEPT ![c] = "hello"]
    /\ UNCHANGED <<logVars, bridgeVars, replay, request, cursor, seen, asked, faults>>

\* What happens to the sockets of the clients in S when they break.
Broken(S) ==
    /\ registered' = registered \ S
    /\ link' = [c \in Client |-> IF c \in S THEN "down" ELSE link[c]]
    /\ frames' = [c \in Client |-> IF c \in S THEN <<>> ELSE frames[c]]
    /\ request' = [c \in Client |-> IF c \in S THEN None ELSE request[c]]
    /\ replay' = [c \in Client |-> IF c \in S THEN NoReplay ELSE replay[c]]

Drop(c) ==
    /\ link[c] # "down"
    /\ faults < MaxFaults /\ faults' = faults + 1
    /\ Broken({c})
    /\ UNCHANGED <<logVars, bridgeVars, cursor, seen, asked>>

\* A broadcast to a stalled client times out: disconnect takes it out of
\* _connections and leaves its socket open.
Forget(c) ==
    /\ c \in registered
    /\ EventsIn(frames[c]) # {}
    /\ faults < MaxFaults /\ faults' = faults + 1
    /\ registered' = registered \ {c}
    /\ UNCHANGED <<logVars, bridgeVars, replay, clientVars, frames>>

\* The process dies, its transactions with it; at the next start the bridge
\* begins at the end of the log, or at 0 if it cannot ask where that is.
Restart ==
    /\ faults < MaxFaults /\ faults' = faults + 1
    /\ row' = [e \in Number |-> IF row[e] = "open" /\ writer[e] = "publish"
                                THEN "undone" ELSE row[e]]
    /\ writer' = [e \in Number |-> IF writer[e] = "other" THEN "other" ELSE "past"]
    /\ \E n \in 0..MaxSeq : (n = 0 \/ IsTail(n)) /\ last' = n
    /\ batch' = {} /\ local' = {}
    /\ Broken(Client)
    /\ UNCHANGED <<late, cursor, seen, asked>>

-----------------------------------------------------------------------------
\* The client.

Received(c) == frames[c] # <<>> /\ frames' = [frames EXCEPT ![c] = Tail(@)]

Subscribe(c, n) ==
    /\ request' = [request EXCEPT ![c] = n]
    /\ link' = [link EXCEPT ![c] = "asked"]

OnConnected(c) ==
    /\ Received(c)
    /\ Head(frames[c]).is = "connected"
    /\ Subscribe(c, cursor[c])
    /\ UNCHANGED <<logVars, bridgeVars, serverVars, cursor, seen, asked, faults>>

OnEvent(c) ==
    /\ Received(c)
    /\ Head(frames[c]).is = "event"
    /\ LET e == Head(frames[c]).n
       IN  /\ seen' = [seen EXCEPT ![c] = @ \cup {e}]
           /\ cursor' = [cursor EXCEPT ![c] = IF e > @ THEN e ELSE @]
    /\ UNCHANGED <<logVars, bridgeVars, serverVars, link, request, asked, faults>>

\* The end of a replay: a cursor beyond the end of the log starts again at 0, a
\* full batch asks for more.
OnSubscribed(c) ==
    /\ Received(c)
    /\ Head(frames[c]).is = "subscribed"
    /\ LET f == Head(frames[c])
       IN  IF cursor[c] > f.max
           THEN cursor' = [cursor EXCEPT ![c] = 0] /\ Subscribe(c, 0)
           ELSE /\ UNCHANGED cursor
                /\ IF f.n >= MaxReplay
                   THEN Subscribe(c, cursor[c])
                   ELSE /\ link' = [link EXCEPT ![c] = "synced"]
                        /\ UNCHANGED request
    /\ UNCHANGED <<logVars, bridgeVars, serverVars, seen, asked, faults>>

-----------------------------------------------------------------------------
\* The server's answer to subscribe: replay_since, the tail, the acknowledgement.

ReplaySelect(c) ==
    /\ request[c] # None
    /\ \E rows \in Page({e \in Committed : e > request[c]}, MaxReplay) :
          replay' = [replay EXCEPT ![c] = Replaying(rows, 0, None)]
    /\ request' = [request EXCEPT ![c] = None]
    /\ asked' = [asked EXCEPT ![c] = request[c]]
    /\ UNCHANGED <<logVars, bridgeVars, registered, link, cursor, seen, frames, faults>>

\* send_to a client that was forgotten fails and ends the replay.
ReplayRow(c) ==
    /\ \E e \in replay[c].rows :
          /\ IsLeast(e, replay[c].rows)
          /\ IF c \in registered
             THEN /\ Send(c, Event(e))
                  /\ replay' = [replay EXCEPT ![c] =
                               Replaying(replay[c].rows \ {e}, replay[c].sent + 1, None)]
             ELSE /\ UNCHANGED frames
                  /\ replay' = [replay EXCEPT ![c] = Replaying({}, replay[c].sent, None)]
    /\ UNCHANGED <<logVars, bridgeVars, registered, clientVars, faults>>

ReplayTail(c) ==
    /\ replay[c].on /\ replay[c].rows = {} /\ replay[c].tail = None
    /\ \E n \in 0..MaxSeq :
          IsTail(n) /\ replay' = [replay EXCEPT ![c] = Replaying({}, replay[c].sent, n)]
    /\ UNCHANGED <<logVars, bridgeVars, registered, clientVars, frames, faults>>

\* The query for max_seq fails: 0.
TailFails(c) ==
    /\ replay[c].on /\ replay[c].rows = {} /\ replay[c].tail = None
    /\ faults < MaxFaults /\ faults' = faults + 1
    /\ replay' = [replay EXCEPT ![c] = Replaying({}, replay[c].sent, 0)]
    /\ UNCHANGED <<logVars, bridgeVars, registered, clientVars, frames>>

ReplayEnds(c) ==
    /\ replay[c].tail # None
    /\ IF c \in registered
       THEN Send(c, Subscribed(replay[c].sent, replay[c].tail))
       ELSE UNCHANGED frames
    /\ replay' = [replay EXCEPT ![c] = NoReplay]
    /\ UNCHANGED <<logVars, bridgeVars, registered, clientVars, faults>>

-----------------------------------------------------------------------------
Log(e) == Insert(e, "publish") \/ Insert(e, "other") \/ Commit(e) \/ Undo(e) \/ Announce(e)
Bridge == Fetch \/ Deliver
Receive(c) == OnConnected(c) \/ OnEvent(c) \/ OnSubscribed(c)
Answer(c) == ReplaySelect(c) \/ ReplayRow(c) \/ ReplayTail(c) \/ TailFails(c) \/ ReplayEnds(c)
Socket(c) == Connect(c) \/ Drop(c) \/ Forget(c)

Next == \/ \E e \in Number : Log(e)
        \/ Bridge
        \/ \E c \in Client : Socket(c) \/ Receive(c) \/ Answer(c)
        \/ Restart

Spec == Init /\ [][Next]_vars

\* The event loop runs what is ready, the bridge has a heartbeat of five seconds, a
\* connected phone reads its socket.  Nobody has to connect, or to commit.
Fairness ==
    /\ \A e \in Number : WF_vars(Announce(e))
    /\ WF_vars(Bridge)
    /\ \A c \in Client : WF_vars(Receive(c)) /\ WF_vars(Answer(c))

FairSpec == Spec /\ Fairness

-----------------------------------------------------------------------------
\* Only a client that is connected has anything on its way, and what the bridge
\* has fetched lies above its watermark.
TypeOK ==
    /\ row \in [Number -> {"absent", "open", "committed", "undone"}]
    /\ writer \in [Number -> {"other", "publish", "announced", "past"}]
    /\ late \subseteq Committed
    /\ last \in 0..MaxSeq /\ local \subseteq Number
    /\ batch \subseteq {e \in Committed : e > last}
    /\ registered \subseteq Client
    /\ link \in [Client -> {"down", "hello", "asked", "synced"}]
    /\ request \in [Client -> Number \cup {0, None}]
    /\ replay \in [Client -> [on : BOOLEAN, rows : SUBSET Number, sent : Nat,
                              tail : Number \cup {0, None}]]
    /\ frames \in [Client -> Seq(Frame)]
    /\ cursor \in [Client -> Number \cup {0}]
    /\ seen \in [Client -> SUBSET Number]
    /\ asked \in [Client -> Number \cup {0}]
    /\ faults \in 0..MaxFaults
    /\ \A c \in Client :
          link[c] = "down" => /\ c \notin registered /\ frames[c] = <<>>
                              /\ request[c] = None /\ ~replay[c].on

OnItsWay(c) == EventsIn(frames[c])

\* "a phantom event" (publish_on_conn's comment): no client is sent an event that
\* a rollback erases from the log.
NoPhantom == \A c \in Client : seen[c] \cup OnItsWay(c) \subseteq Committed

\* What publish or the bridge is still to broadcast; a row that committed out of
\* order is nobody's.
ToCome(e) == e > last \/ writer[e] = "publish"
Orphan(e) == e \in late /\ writer[e] = "other"

\* Between what was replayed and what is live there is no seam: a client whose
\* catch-up has ended has, or is being sent, or will be, every event above the
\* number it asked from, orphans apart.
Seamless ==
    \A c \in registered : link[c] = "synced" =>
        \A e \in Committed : e > asked[c] =>
            e \in seen[c] \cup OnItsWay(c) \/ ToCome(e) \/ Orphan(e)

\* What publish has broadcast the bridge does not broadcast again, though it may
\* have fetched the row before the broadcast.
NoEcho ==
    [][\A e \in batch \ batch' :
          writer[e] = "announced" /\ faults' = faults => frames' = frames]_vars

\* An event that commits, in order, while a client is connected and has caught up
\* reaches it, unless its socket breaks or is forgotten.
Heard ==
    \A c \in Client, e \in Number :
        (row[e] = "committed" /\ e \notin late /\ e > asked[c] /\ link[c] = "synced")
            ~> (e \in seen[c] \/ link[c] # "synced" \/ c \notin registered)

\* "closing any gap opened by a disconnect" (the protocol's description): a client
\* that has caught up misses nothing, orphans apart.
NoGap ==
    \A c \in registered : link[c] = "synced" =>
        \A e \in Committed :
            e \in seen[c] \cup OnItsWay(c) \/ ToCome(e) \/ Orphan(e)
=============================================================================
