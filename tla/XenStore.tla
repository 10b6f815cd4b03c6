------------------------------ MODULE XenStore ------------------------------
(***************************************************************************)
(* The XenStore client of XenBusDxe (XenStore.c) and the XenStore service. *)
(* Requests, replies and watch events are byte streams over two small      *)
(* shared rings; replies are matched to requests by their order alone, and *)
(* watch events come in between.                                           *)
(*                                                                         *)
(* A message is a record; on a ring it is the sequence of its units: two   *)
(* for the header (so that a header can be split), then Header.len of the  *)
(* body.  Waiting for the event channel always has a timeout, after which  *)
(* the indices are read again: it is a stuttering step.                    *)
(***************************************************************************)
EXTENDS Integers, Sequences, FiniteSets

CONSTANTS
    RING_SIZE,      \* XENSTORE_RING_SIZE
    IdxMod,         \* 2^32: the ring indices are UINT32
    Watches,        \* addresses of XENSTORE_WATCH objects
    MaxEvents,      \* bound: events of a watch that are not delivered yet
    Features        \* the values of XENSTORE_SERVER_FEATURE_RECONNECTION to check

ASSUME XenStoreAssumption ==
    /\ RING_SIZE \in Nat \ {0} /\ IdxMod \in Nat /\ IdxMod > RING_SIZE
    /\ IdxMod % RING_SIZE = 0
    /\ MaxEvents \in Nat \ {0} /\ Features \subseteq BOOLEAN

VARIABLES
    pc,                 \* the client: what it is doing
    call,               \* the request of the call in progress
    Data,               \* XenStoreWriteStore(): the parts still to write
    Message,            \* XenStoreProcessMessage(): the units read so far
    Token,              \* XenStoreWaitWatch(): the watch waited for
    closing,            \* the TPL of the XenStoreDeinit() in progress, or "none"
    live,               \* XENSTORE_WATCH objects allocated
    RegisteredWatches, WatchEvents, ReplyList,
    matched,            \* FALSE iff a call got another call's reply, or a broken message
    EventChannelEvent,  \* "open" or "closed"
    req, rsp,           \* the rings: storage and the two indices
    connection,         \* XenStore->connection = XENSTORE_RECONNECT
    server,             \* the service: input, output, watches, awake
    undelivered         \* events fired for a watch that WaitWatch() has not consumed

lists  == <<live, RegisteredWatches, WatchEvents, ReplyList>>
client == <<pc, call, Data, Message, Token, closing>>
vars   == <<client, lists, matched, EventChannelEvent, req, rsp, connection, server, undelivered>>

-----------------------------------------------------------------------------
(* Messages.                                                               *)

None == "none"
HeaderLen == 2
Msg(type, watch, id, len) == [type |-> type, watch |-> watch, id |-> id, len |-> len]
NoCall  == Msg(None, None, 0, 0)
Garbage == <<Msg("XS_INVALID", None, 0, 0), 0>>
Units(m) == [k \in 1 .. HeaderLen + m.len |-> <<m, k>>]
Slice(s, n)  == SubSeq(s, 1, n)
Kept(s, x) ==
    LET kept[n \in 0 .. Len(s)] == IF n = 0 THEN <<>>
                                   ELSE IF s[n] = x THEN kept[n - 1]
                                                    ELSE Append(kept[n - 1], s[n])
    IN  kept
Remove(s, x) == Kept(s, x)[Len(s)]
RemoveAt(s, i) == SubSeq(s, 1, i - 1) \o SubSeq(s, i + 1, Len(s))

\* What XenStoreProcessMessage() still has to read: the rest of the header, or what the
\* header's len says.
Wanted(units) ==
    IF Len(units) < HeaderLen THEN HeaderLen - Len(units)
                              ELSE HeaderLen + units[1][1].len - Len(units)
Complete(units) == Len(units) >= HeaderLen /\ Wanted(units) = 0
WellFormed(units) == units = Units(units[1][1])

(* The rings, with free-running indices.                                   *)

EmptyRing == [data |-> [i \in 0 .. RING_SIZE - 1 |-> Garbage], prod |-> 0, cons |-> 0]
Filled(ring) == (ring.prod - ring.cons) % IdxMod
CheckIndexes(ring) == Filled(ring) <= RING_SIZE
Smaller(a, b) == IF a < b THEN a ELSE b
GetOutputChunk(ring) ==
    Smaller(RING_SIZE - (ring.prod % RING_SIZE), RING_SIZE - Filled(ring))

\* Mutant: what has not been written yet is read too.
InputChunkToEnd(ring) == RING_SIZE - (ring.cons % RING_SIZE)

GetInputChunk(ring) == Smaller(RING_SIZE - (ring.cons % RING_SIZE), Filled(ring))

Produce(ring, units) ==
    [ring EXCEPT !.data = [i \in DOMAIN @ |->
                              LET k == ((i - ring.prod) % RING_SIZE) + 1
                              IN  IF k <= Len(units) THEN units[k] ELSE @[i]],
                 !.prod = (@ + Len(units)) % IdxMod]

\* What has been consumed is not valid any more.
Peek(ring, n)    == [k \in 1 .. n |-> ring.data[(ring.cons + k - 1) % RING_SIZE]]
Consume(ring, n) ==
    [ring EXCEPT !.data = [i \in DOMAIN @ |->
                              IF (i - ring.cons) % RING_SIZE < n THEN Garbage ELSE @[i]],
                 !.cons = (@ + n) % IdxMod]

-----------------------------------------------------------------------------
\* The response ring may hold a reply to whoever used it before the firmware.
Init ==
    /\ pc = "down" /\ call = NoCall /\ Data = <<>> /\ Message = <<>> /\ Token = None
    /\ closing = None
    /\ live = {} /\ RegisteredWatches = {} /\ WatchEvents = <<>> /\ ReplyList = <<>>
    /\ matched = TRUE /\ EventChannelEvent = "closed"
    /\ req = EmptyRing /\ rsp \in {EmptyRing, Produce(EmptyRing, <<Garbage>>)}
    /\ connection = FALSE
    /\ \E f \in Features :
          server = [in |-> <<>>, out |-> <<>>, watches |-> {}, awake |-> FALSE,
                    reconnects |-> f, broken |-> FALSE]
    /\ undelivered = [w \in Watches |-> 0]

Notify == [server EXCEPT !.awake = TRUE]

\* XenStoreInit() and XenStoreInitComms(): what is left on the response ring is dropped.
XenStoreInit ==
    /\ pc = "down" /\ pc' = "idle" /\ EventChannelEvent' = "open"
    /\ rsp' = [rsp EXCEPT !.cons = rsp.prod]
    /\ WatchEvents' = <<>> /\ ReplyList' = <<>> /\ RegisteredWatches' = {}
    /\ UNCHANGED <<call, Data, Message, Token, closing, live, matched, req, connection, server,
                   undelivered>>

\* XenStoreTalkv(): the header, then the parts of the body.  "id" tells a request from the
\* one before it; on the ring req_id is always 0.
XenStoreTalkv(type, watch, parts) ==
    LET m == Msg(type, watch, 1 - call.id, parts)
        u == Units(m)
    IN  /\ pc' = "write"
        /\ call' = m
        /\ Data' = <<Slice(u, HeaderLen)>> \o [k \in 1 .. parts |-> <<u[HeaderLen + k]>>]

\* Read, Write, Remove, ListDirectory, TransactionStart and TransactionEnd.
XenStoreSingle ==
    /\ pc = "idle" /\ closing = None
    /\ XenStoreTalkv("XS_READ", None, 1)
    /\ UNCHANGED <<Message, Token, closing, lists, matched, EventChannelEvent, req, rsp, connection,
                   server, undelivered>>

\* The watch is on the list before the service knows of it.
XenStoreRegisterWatch(w) ==
    /\ pc = "idle" /\ closing = None
    /\ w \notin live
    /\ live' = live \cup {w}
    /\ RegisteredWatches' = RegisteredWatches \cup {w}
    /\ XenStoreTalkv("XS_WATCH", w, 2)
    /\ UNCHANGED <<Message, Token, closing, WatchEvents, ReplyList, matched, EventChannelEvent, req,
                   rsp, connection, server, undelivered>>

\* Called by a driver, or by XenStoreDeinit() for what the drivers left.
XenStoreUnregisterWatch(w) ==
    /\ pc = "idle"
    /\ w \in RegisteredWatches
    /\ RegisteredWatches' = RegisteredWatches \ {w}
    /\ XenStoreTalkv("XS_UNWATCH", w, 2)
    /\ UNCHANGED <<Message, Token, closing, live, WatchEvents, ReplyList, matched, EventChannelEvent,
                   req, rsp, connection, server, undelivered>>

\* One turn of the loop of XenStoreWriteStore(); n is less than what the chunk has room for
\* when the index read first was old.
XenStoreWriteStore ==
    /\ pc = "write"
    /\ Filled(req) < RING_SIZE
    /\ \E n \in 1 .. Smaller(GetOutputChunk(req), Len(Data[1])) :
          /\ req' = Produce(req, Slice(Data[1], n))
          /\ LET rest == SubSeq(Data[1], n + 1, Len(Data[1]))
             IN  Data' = IF rest = <<>> THEN Tail(Data) ELSE <<rest>> \o Tail(Data)
    /\ pc' = IF Data' = <<>> THEN "reply" ELSE "write"
    /\ server' = Notify
    /\ UNCHANGED <<call, Message, Token, closing, lists, matched, EventChannelEvent, rsp, connection,
                   undelivered>>

\* Mutant: an event whose watch is not known is taken for a reply.
UnknownEventIsReply(units) ==
    LET m == units[1][1]
    IN  IF m.type = "XS_WATCH_EVENT" /\ m.watch \in RegisteredWatches
        THEN WatchEvents' = <<m.watch>> \o WatchEvents /\ UNCHANGED ReplyList
        ELSE ReplyList' = Append(ReplyList, m) /\ UNCHANGED WatchEvents

\* The end of XenStoreProcessMessage(): an event goes to the head of its list if its watch is
\* registered, and is dropped otherwise; anything else is a reply.
FileMessage(units) ==
    LET m == units[1][1]
    IN  IF m.type = "XS_WATCH_EVENT"
        THEN /\ WatchEvents' = IF m.watch \in RegisteredWatches THEN <<m.watch>> \o WatchEvents
                                                                ELSE WatchEvents
             /\ UNCHANGED ReplyList
        ELSE ReplyList' = Append(ReplyList, m) /\ UNCHANGED WatchEvents

ReadsRing ==
    \/ pc = "reply" /\ ReplyList = <<>>
    \/ pc = "waitwatch" /\ \A i \in DOMAIN WatchEvents : WatchEvents[i] # Token

\* Mutant: the service is not told that the ring has space again.
ReadWithoutNotify ==
    /\ ReadsRing
    /\ Filled(rsp) > 0
    /\ \E n \in 1 .. Smaller(GetInputChunk(rsp), Wanted(Message)) :
          LET units == Message \o Peek(rsp, n)
          IN  /\ rsp' = Consume(rsp, n)
              /\ IF Complete(units)
                 THEN /\ FileMessage(units) /\ Message' = <<>>
                      /\ matched' = (matched /\ WellFormed(units))
                 ELSE Message' = units /\ UNCHANGED <<WatchEvents, ReplyList, matched>>
    /\ UNCHANGED <<pc, call, Data, Token, closing, live, RegisteredWatches, EventChannelEvent, req,
                   connection, server, undelivered>>

\* One turn of the loop of XenStoreReadStore(), within XenStoreProcessMessage().
XenStoreReadStore ==
    /\ ReadsRing
    /\ Filled(rsp) > 0
    /\ \E n \in 1 .. Smaller(GetInputChunk(rsp), Wanted(Message)) :
          LET units == Message \o Peek(rsp, n)
          IN  /\ rsp' = Consume(rsp, n)
              /\ IF Complete(units)
                 THEN /\ FileMessage(units) /\ Message' = <<>>
                      /\ matched' = (matched /\ WellFormed(units))
                 ELSE Message' = units /\ UNCHANGED <<WatchEvents, ReplyList, matched>>
    /\ server' = Notify
    /\ UNCHANGED <<pc, call, Data, Token, closing, live, RegisteredWatches, EventChannelEvent, req,
                   connection, undelivered>>

\* Mutant: the events of the watch that goes are left on the list.
EventsNotCancelled(reply) ==
    CASE call.type = "XS_WATCH" /\ reply.type = "XS_ERROR" ->
             /\ RegisteredWatches' = RegisteredWatches \ {call.watch}
             /\ live' = live \ {call.watch}
             /\ UNCHANGED <<WatchEvents, undelivered>>
      [] call.type = "XS_UNWATCH" ->
             /\ live' = live \ {call.watch}
             /\ undelivered' = [undelivered EXCEPT ![call.watch] = 0]
             /\ UNCHANGED <<RegisteredWatches, WatchEvents>>
      [] OTHER -> UNCHANGED <<RegisteredWatches, live, WatchEvents, undelivered>>

\* What RegisterWatch() and UnregisterWatch() do after the reply: a failed registration is
\* undone; the pending events of a watch are cancelled whatever the service answered.
\* (EEXIST, which the code takes as success, does not arise: tokens are unique.)
AfterReply(reply) ==
    CASE call.type = "XS_WATCH" /\ reply.type = "XS_ERROR" ->
             /\ RegisteredWatches' = RegisteredWatches \ {call.watch}
             /\ live' = live \ {call.watch}
             /\ UNCHANGED <<WatchEvents, undelivered>>
      [] call.type = "XS_UNWATCH" ->
             /\ WatchEvents' = Remove(WatchEvents, call.watch)
             /\ live' = live \ {call.watch}
             /\ undelivered' = [undelivered EXCEPT ![call.watch] = 0]
             /\ UNCHANGED RegisteredWatches
      [] OTHER -> UNCHANGED <<RegisteredWatches, live, WatchEvents, undelivered>>

\* XenStoreReadReply() takes the first reply; the end of XenStoreTalkv().
XenStoreReadReply ==
    /\ pc = "reply" /\ ReplyList # <<>>
    /\ ReplyList' = Tail(ReplyList)
    /\ LET reply == ReplyList[1]
       IN  /\ matched' = (matched /\ reply.type \in {"XS_ERROR", call.type}
                                  /\ reply.watch = call.watch /\ reply.id = call.id)
           /\ AfterReply(reply)
    /\ pc' = "idle" /\ call' = [NoCall EXCEPT !.id = call.id]
    /\ UNCHANGED <<Data, Message, Token, closing, EventChannelEvent, req, rsp, connection, server>>

XenStoreWaitWatch(w) ==
    /\ pc = "idle" /\ closing = None
    /\ w \in RegisteredWatches
    /\ pc' = "waitwatch" /\ Token' = w
    /\ UNCHANGED <<call, Data, Message, closing, lists, matched, EventChannelEvent, req, rsp,
                   connection, server, undelivered>>

\* The first event of the watch, from the head, is removed.
WaitWatchReturns ==
    /\ pc = "waitwatch"
    /\ \E i \in DOMAIN WatchEvents :
          /\ WatchEvents[i] = Token /\ \A j \in 1 .. i - 1 : WatchEvents[j] # Token
          /\ WatchEvents' = RemoveAt(WatchEvents, i)
    /\ undelivered' = [undelivered EXCEPT ![Token] = @ - 1]
    /\ pc' = "idle" /\ Token' = None
    /\ UNCHANGED <<call, Data, Message, closing, live, RegisteredWatches, ReplyList, matched,
                   EventChannelEvent, req, rsp, connection, server>>

-----------------------------------------------------------------------------
(* XenStoreDeinit().                                                       *)

XenStoreDeinit ==
    /\ pc = "idle" /\ closing = None
    /\ closing' \in {"TPL_APPLICATION", "TPL_CALLBACK"}
    /\ UNCHANGED <<pc, call, Data, Message, Token, lists, matched, EventChannelEvent, req, rsp,
                   connection, server, undelivered>>

\* The lists are emptied, the event is closed; the service is asked to start over, or its
\* rings are filled with XS_INVALID and the indices cleared, one after the other.
DeinitLists ==
    /\ pc = "idle" /\ closing # None
    /\ RegisteredWatches = {}
    /\ WatchEvents' = <<>> /\ ReplyList' = <<>> /\ EventChannelEvent' = "closed"
    /\ IF server.reconnects
       THEN /\ pc' = "reconnect" /\ connection' = TRUE /\ server' = Notify
            /\ UNCHANGED <<req, rsp>>
       ELSE /\ pc' = "erase"
            /\ req' = [req EXCEPT !.data = EmptyRing.data, !.prod = 0]
            /\ rsp' = [rsp EXCEPT !.data = EmptyRing.data]
            /\ UNCHANGED <<connection, server>>
    /\ UNCHANGED <<call, Data, Message, Token, closing, live, RegisteredWatches, matched,
                   undelivered>>

DeinitErase ==
    /\ \/ pc = "erase" /\ pc' = "erase2" /\ req' = [req EXCEPT !.cons = 0] /\ UNCHANGED rsp
       \/ pc = "erase2" /\ pc' = "erase3" /\ rsp' = [rsp EXCEPT !.prod = 0] /\ UNCHANGED req
       \/ pc = "erase3" /\ pc' = "down" /\ rsp' = [rsp EXCEPT !.cons = 0] /\ UNCHANGED req
    /\ closing' = IF pc' = "down" THEN None ELSE closing
    /\ UNCHANGED <<call, Data, Message, Token, lists, matched, EventChannelEvent, connection, server,
                   undelivered>>

\* The loop, with its call of XenStoreWaitForEvent().
DeinitWait ==
    /\ \/ pc = "reconnect" /\ connection /\ pc' = "wait"
       \/ pc = "wait" /\ pc' = "reconnect"
    /\ UNCHANGED <<call, Data, Message, Token, closing, lists, matched, EventChannelEvent, req, rsp,
                   connection, server, undelivered>>

DeinitDone ==
    /\ pc = "reconnect" /\ ~connection
    /\ pc' = "down" /\ closing' = None
    /\ UNCHANGED <<call, Data, Message, Token, lists, matched, EventChannelEvent, req, rsp, connection,
                   server, undelivered>>

-----------------------------------------------------------------------------
(* The XenStore service (external).  It sleeps until it is notified or has *)
(* an event to send, and queues its output without bound.                  *)

Send(out, m) == out \o Units(m)
EventFor(w)  == Msg("XS_WATCH_EVENT", w, 0, 1)

CanRead  == Filled(req) > 0 /\ CheckIndexes(req) /\ ~Complete(server.in)
CanWrite == server.out # <<>> /\ Filled(rsp) < RING_SIZE

ServerRead ==
    /\ server.awake /\ ~server.broken /\ CanRead
    /\ LET n == Smaller(Filled(req), Wanted(server.in))
       IN  /\ req' = Consume(req, n)
           /\ server' = [server EXCEPT !.in = @ \o Peek(req, n),
                                       !.broken = \E k \in 1 .. n : Peek(req, n)[k] = Garbage]
    /\ UNCHANGED <<client, lists, matched, EventChannelEvent, rsp, connection, undelivered>>

\* A complete request is executed and answered; a new watch fires at once.
ServerReply ==
    /\ Complete(server.in) /\ ~server.broken
    /\ LET m      == server.in[1][1]
           answer == Msg(m.type, m.watch, m.id, 1)
           error  == Msg("XS_ERROR", m.watch, m.id, 1)
       IN  \/ /\ m.type = "XS_READ"
              /\ \E r \in {answer, error} :
                    server' = [server EXCEPT !.in = <<>>, !.out = Send(@, r)]
              /\ UNCHANGED undelivered
           \/ /\ m.type = "XS_WATCH"
              /\ \/ /\ server' = [server EXCEPT !.in = <<>>, !.watches = @ \cup {m.watch},
                                     !.out = Send(Send(@, answer), EventFor(m.watch))]
                    /\ undelivered' = [undelivered EXCEPT ![m.watch] = 1]
                 \/ /\ server' = [server EXCEPT !.in = <<>>, !.out = Send(@, error)]
                    /\ UNCHANGED undelivered
           \/ /\ m.type = "XS_UNWATCH"
              /\ server' = [server EXCEPT !.in = <<>>, !.watches = @ \ {m.watch},
                                          !.out = Send(@, answer)]
              /\ UNCHANGED undelivered
    /\ UNCHANGED <<client, lists, matched, EventChannelEvent, req, rsp, connection>>

\* Another domain changes a watched node.
ServerFire(w) ==
    /\ w \in server.watches
    /\ undelivered[w] < MaxEvents
    /\ undelivered' = [undelivered EXCEPT ![w] = @ + 1]
    /\ server' = [server EXCEPT !.out = Send(@, EventFor(w)), !.awake = TRUE]
    /\ UNCHANGED <<client, lists, matched, EventChannelEvent, req, rsp, connection>>

ServerWrite ==
    /\ server.awake /\ ~server.broken /\ CanWrite
    /\ LET n == Smaller(RING_SIZE - Filled(rsp), Len(server.out))
       IN  /\ rsp' = Produce(rsp, Slice(server.out, n))
           /\ server' = [server EXCEPT !.out = SubSeq(@, n + 1, Len(@))]
    /\ UNCHANGED <<client, lists, matched, EventChannelEvent, req, connection, undelivered>>

ServerReconnect ==
    /\ server.awake /\ connection
    /\ connection' = FALSE
    /\ req' = EmptyRing /\ rsp' = EmptyRing
    /\ server' = [server EXCEPT !.in = <<>>, !.out = <<>>, !.watches = {}]
    /\ UNCHANGED <<client, lists, matched, EventChannelEvent, undelivered>>

ServerSleep ==
    /\ server.awake
    /\ ~CanRead /\ ~CanWrite /\ ~connection /\ ~Complete(server.in)
    /\ server' = [server EXCEPT !.awake = FALSE]
    /\ UNCHANGED <<client, lists, matched, EventChannelEvent, req, rsp, connection, undelivered>>

\* It meets indices that are out of range.
ServerBreaks ==
    /\ server.awake /\ ~server.broken
    /\ ~CheckIndexes(req)
    /\ server' = [server EXCEPT !.broken = TRUE]
    /\ UNCHANGED <<client, lists, matched, EventChannelEvent, req, rsp, connection, undelivered>>

-----------------------------------------------------------------------------
Calls ==
    \/ XenStoreInit \/ XenStoreSingle \/ XenStoreDeinit
    \/ \E w \in Watches : XenStoreRegisterWatch(w) \/ XenStoreWaitWatch(w)
                          \/ XenStoreUnregisterWatch(w)

Steps ==
    \/ XenStoreWriteStore \/ XenStoreReadStore \/ XenStoreReadReply \/ WaitWatchReturns
    \/ DeinitLists \/ DeinitErase \/ DeinitWait \/ DeinitDone
    \/ closing # None /\ \E w \in Watches : XenStoreUnregisterWatch(w)

ServerSteps ==
    \/ ServerRead \/ ServerReply \/ ServerWrite \/ ServerReconnect \/ ServerSleep
    \/ ServerBreaks

Next == Calls \/ Steps \/ ServerSteps \/ \E w \in Watches : ServerFire(w)

Spec == Init /\ [][Next]_vars

\* The client polls its rings; the service handles what it is notified of.
FairSpec ==
    /\ Spec
    /\ WF_vars(Steps)
    /\ WF_vars(ServerRead \/ ServerReply \/ ServerWrite \/ ServerReconnect)

-----------------------------------------------------------------------------
(* Properties.                                                             *)

RingOK(ring) == {ring.prod, ring.cons} \subseteq 0 .. IdxMod - 1

TypeOK ==
    /\ pc \in {"down", "idle", "write", "reply", "waitwatch", "reconnect", "wait", "erase",
               "erase2", "erase3"}
    /\ Token \in Watches \cup {None} /\ closing \in {None, "TPL_APPLICATION", "TPL_CALLBACK"}
    /\ RegisteredWatches \subseteq live /\ live \subseteq Watches
    /\ WatchEvents \in Seq(Watches)
    /\ {matched, connection} \subseteq BOOLEAN /\ EventChannelEvent \in {"open", "closed"}
    /\ RingOK(req) /\ RingOK(rsp)
    /\ server.watches \subseteq Watches
    /\ undelivered \in [Watches -> 0 .. MaxEvents]

\* Every call gets its own reply, in one piece, although requests carry no id, watch events
\* come in between and messages are split at the end of the ring: the ASSERT() of
\* XenStoreTalkv() holds, and no reply is left behind for the next call.
RepliesMatched ==
    /\ matched
    /\ pc = "idle" => ReplyList = <<>>

\* Where the client reads the indices of a ring to use it they are in range: neither it nor the
\* service overruns a ring, whatever is split and wherever a ring wraps, and nothing is left
\* of an earlier Init().  XENSTORE_STATUS_EIO is not met.
IndexesInRange ==
    /\ pc = "write" => CheckIndexes(req)
    /\ ReadsRing => CheckIndexes(rsp)

\* The units at the end of an event of w.
EventsOf(w, units) ==
    Cardinality({i \in DOMAIN units : units[i] = <<EventFor(w), HeaderLen + 1>>})
InRing(ring) == Peek(ring, Smaller(Filled(ring), RING_SIZE))

\* No event of a registered watch is lost, whatever call of the client reads it from the
\* ring, and none outlives its watch: the list holds no handle of a freed XENSTORE_WATCH,
\* so it is empty once XenStoreDeinit() has emptied RegisteredWatches.
EventsAccounted ==
    /\ \A i \in DOMAIN WatchEvents : WatchEvents[i] \in live
    /\ pc = "idle" => \A i \in DOMAIN WatchEvents : WatchEvents[i] \in RegisteredWatches
    /\ \A w \in RegisteredWatches :
          undelivered[w] = EventsOf(w, server.out) + EventsOf(w, InRing(rsp))
                           + Cardinality({i \in DOMAIN WatchEvents : WatchEvents[i] = w})

Answerable ==
    \/ pc \in {"write", "reply", "reconnect", "wait"}
    \/ pc = "waitwatch" /\ undelivered[Token] > 0

\* A request is answered, a Deinit() ends, and WaitWatch() returns when its watch has fired,
\* unless the service met the rings while they were being erased.
CallsReturn == Answerable ~> (pc \in {"idle", "down"} \/ server.broken)

\* ASSERT (Status != EFI_INVALID_PARAMETER) in XenStoreWaitForEvent(): gBS->WaitForEvent()
\* refuses an event that is not open, unless it refuses the TPL first.
WaitsOnOpenEvent ==
    pc = "wait" /\ closing = "TPL_APPLICATION" => EventChannelEvent = "open"
=============================================================================
