------------------------------- MODULE KVWorker -------------------------------
(***************************************************************************)
(* One KVWorker (kvstore/kvworker.hpp) with its WorkerCustomer             *)
(* (kvstore/workercustomer.cpp): the application thread that issues        *)
(* requests and waits for them, the receiving thread that collects the     *)
(* answers of the servers and runs the callbacks, and the state the two    *)
(* share.                                                                  *)
(*                                                                         *)
(* A request goes to every server whose key range it touches (its slices), *)
(* and each of these answers once, whenever its consistency control lets   *)
(* it: the answers of one request, and of different requests, arrive in    *)
(* any order.  The values a server returns for its slice are represented   *)
(* by the server's number; servers are numbered in key order.              *)
(***************************************************************************)
EXTENDS Integers, Sequences, FiniteSets, Functions, FiniteSetsExt

CONSTANTS
  NumServers,    \* RangeManager::GetNumServers()
  LocalServers,  \* info_.local_server_ids
  Kvs,           \* the ids of the key-value stores
  MaxRequests,   \* bound: requests of one key-value store
  Offered,       \* bound: per timestamp, the calls the application may make
  MinClocks      \* bound: the min_clock_ values of the servers

Servers == 1 .. NumServers

AllOps == {"Init", "Push", "Pull", "PullChunks", "PullChunksWithMinClock",
           "PushLocal", "PullLocal"}

Call == [op : AllOps, slices : SUBSET Servers, send_all : BOOLEAN,
         local_zero_copy : BOOLEAN, consistency_control : BOOLEAN, cb : BOOLEAN]

\* The calls the signatures allow: Init addresses every server, the *Local
\* calls one, and neither has the other two arguments; PullChunksWithMinClock
\* always has consistency control.
Calls ==
  {c \in Call :
     /\ c.op = "Init" => c.slices = Servers /\ c.send_all /\ ~c.cb
     /\ c.op \in {"PushLocal", "PullLocal"} =>
          Cardinality(c.slices) = 1 /\ ~c.send_all
     /\ c.op \in {"Init", "PushLocal", "PullLocal"} =>
          c.local_zero_copy /\ c.consistency_control
     /\ c.op = "PullChunksWithMinClock" => c.consistency_control}

ASSUME KVWorkerAssumption ==
  /\ NumServers \in Nat \ {0}
  /\ LocalServers \subseteq Servers
  /\ Kvs # {} /\ IsFiniteSet(Kvs)
  /\ MaxRequests \in Nat \ {0}
  /\ Offered \in [1 .. MaxRequests -> SUBSET Calls]
  /\ MinClocks \in (SUBSET Nat) \ {{}} /\ IsFiniteSet(MinClocks)

VARIABLES
  tracker_,    \* per kv_id and ts: answers expected (first), counted (second)
  callbacks_,  \* the requests whose callback is registered
  recv_kvs_,   \* the answers collected for each request (<<>>: no entry)
  app,         \* the application thread: where it is, and in which request
  recv,        \* the receiving thread: where it is, and its message
  servers,     \* request messages the servers hold
  mailbox,     \* answers on their way to the receiving thread
  requests,    \* history: the call each timestamp stands for
  vals,        \* history: what each request's callback handed to the caller
  ran,         \* history: runs of the callback the caller supplied
  returned     \* history: the requests Wait has returned for

shared == <<tracker_, callbacks_, recv_kvs_>>
vars == <<shared, app, recv, servers, mailbox, requests, vals, ran, returned>>

Ids == Kvs \X (1 .. MaxRequests)   \* {kv_id, ts}, ts counted from 1

------------------------------------------------------------------------------
(* Commands and formats.                                                   *)

local_zero_copy_magic_ == 2
with_min_clock_magic_ == 10
consistency_control_off_magic_ == 100

IsPush(op) == op \in {"Init", "Push", "PushLocal"}

\* The cmd that Send_ and SendChunks_ put into the message for server s.
Cmd(call, s) ==
  CASE call.op = "Init" -> 4
    [] call.op \in {"PushLocal", "PullLocal"} -> 0
    [] OTHER ->
        (IF call.op \in {"PullChunks", "PullChunksWithMinClock"} THEN 1 ELSE 0)
        + (IF call.local_zero_copy /\ s \in LocalServers
             THEN local_zero_copy_magic_ ELSE 0)
        + (IF call.op = "PullChunksWithMinClock" THEN with_min_clock_magic_ ELSE 0)
        + (IF call.consistency_control THEN 0 ELSE consistency_control_off_magic_)

\* The server drops the control bit before it answers (ssp_server.hpp:82).
EchoedCmd(cmd) == cmd
ServerCmd(cmd) == cmd % consistency_control_off_magic_

\* ServerBase::Response: how the answer to a pull is laid out.
Encoded(cmd) ==
  CASE cmd = 2                    -> "pointer"
    [] cmd > with_min_clock_magic_ -> "keys, vals, min_clock"
    [] OTHER                      -> "keys, vals"

\* UniqueProcess: how the receiving thread reads it.
Decoded(cmd) ==
  LET c == cmd % consistency_control_off_magic_
  IN  CASE c = 2         -> "pointer"
        [] c \in {11, 13} -> "keys, vals, min_clock"
        [] OTHER         -> "keys, vals"

------------------------------------------------------------------------------
(* The application thread.                                                 *)

Stop == [stop |-> TRUE]   \* the empty BinStream

At(pc) == [pc |-> pc]   \* a thread outside any request

ThisId == <<app.kv, app.ts>>
ThisCall == requests[app.kv][app.ts]

\* NewRequest: expect one answer from each server that gets a slice.
NewRequestToAll(kv, c) ==
  tracker_' = [tracker_ EXCEPT ![kv] =
                 Append(@, [first |-> NumServers, second |-> 0])]
NewRequest(kv, c) ==
  tracker_' = [tracker_ EXCEPT ![kv] =
                 Append(@, [first |-> Cardinality(c.slices), second |-> 0])]

\* Where a call goes once it has its timestamp.
AfterNewRequest(op) == IF op \in {"Init", "Push"} THEN "send" ELSE "callback"

Start(kv, c) ==
  /\ app.pc = "idle"
  /\ Len(tracker_[kv]) < MaxRequests /\ c \in Offered[Len(tracker_[kv]) + 1]
  /\ NewRequest(kv, c)
  /\ requests' = [requests EXCEPT ![kv] = Append(@, c)]
  /\ app' = [pc |-> AfterNewRequest(c.op), kv |-> kv, ts |-> Len(tracker_[kv]) + 1,
             next |-> 1]
  /\ UNCHANGED <<callbacks_, recv_kvs_, recv, servers, mailbox, vals, ran, returned>>

\* AddCallback: pulls always register one, PushLocal if the caller gave one.
AddCallback ==
  /\ app.pc = "callback"
  /\ callbacks_' = IF IsPush(ThisCall.op) /\ ~ThisCall.cb
                     THEN callbacks_ ELSE callbacks_ \cup {ThisId}
  /\ app' = [app EXCEPT !.pc = "send"]
  /\ UNCHANGED <<tracker_, recv_kvs_, recv, servers, mailbox, requests, vals, ran,
                 returned>>

\* Send_, SendChunks_: one message after the other, in server order; a server
\* without a slice gets an empty message, or none without send_all.
SendNext ==
  /\ app.pc = "send"
  /\ servers' = IF app.next \in ThisCall.slices \/ ThisCall.send_all
                  THEN servers \cup {[id |-> ThisId, server |-> app.next,
                                      cmd |-> Cmd(ThisCall, app.next),
                                      push |-> IsPush(ThisCall.op),
                                      data |-> app.next \in ThisCall.slices]}
                  ELSE servers
  /\ app' = IF app.next = NumServers
              THEN At("idle")
              ELSE [app EXCEPT !.next = @ + 1]
  /\ UNCHANGED <<shared, recv, mailbox, requests, vals, ran, returned>>

\* Wait, for any request made so far.
Wait(kv, ts) ==
  /\ app.pc = "idle"
  /\ ts \in DOMAIN tracker_[kv]
  /\ <<kv, ts>> \notin returned
  /\ app' = [pc |-> "wait", kv |-> kv, ts |-> ts, next |-> 1]
  /\ UNCHANGED <<shared, recv, servers, mailbox, requests, vals, ran, returned>>

\* WaitRequest: the condition on which the caller is let go.
Finished(kv, ts) == tracker_[kv][ts].first = tracker_[kv][ts].second

WaitReturns ==
  /\ app.pc = "wait"
  /\ Finished(app.kv, app.ts)
  /\ returned' = returned \cup {<<app.kv, app.ts>>}
  /\ app' = At("idle")
  /\ UNCHANGED <<shared, recv, servers, mailbox, requests, vals, ran>>

\* ~KVWorker: Stop() sends the empty message to its own mailbox and joins.
Destroy ==
  /\ app.pc = "idle"
  /\ mailbox' = Append(mailbox, Stop)
  /\ app' = At("join")
  /\ UNCHANGED <<shared, recv, servers, requests, vals, ran, returned>>

Joined ==
  /\ app.pc = "join"
  /\ recv.pc = "stopped"
  /\ app' = At("stopped")
  /\ UNCHANGED <<shared, recv, servers, mailbox, requests, vals, ran, returned>>

------------------------------------------------------------------------------
(* The servers.                                                            *)

\* Process() of the server and ServerBase::Response.  A message with a slice
\* is answered once, at a time the server chooses; an empty one never is.
Answers(m) == m.data

ServerAnswers(m) ==
  /\ m \in servers
  /\ servers' = servers \ {m}
  /\ IF Answers(m)
       THEN \E clock \in MinClocks :
              mailbox' = Append(mailbox,
                [stop |-> FALSE, id |-> m.id, server |-> m.server,
                 cmd |-> ServerCmd(m.cmd), push |-> m.push,
                 form |-> Encoded(ServerCmd(m.cmd)), min_clock |-> clock])
       ELSE UNCHANGED mailbox
  /\ UNCHANGED <<shared, app, recv, requests, vals, ran, returned>>

------------------------------------------------------------------------------
(* The receiving thread.                                                   *)

\* Receiving: this answer is the last one missing.
IsLast(t) == t.second = t.first - 1

\* Receiving, under tracker_mu_: take a message and decide whether its
\* arrival completes the request.  The empty message ends the thread.
Receive ==
  /\ recv.pc = "poll"
  /\ mailbox # <<>>
  /\ mailbox' = Tail(mailbox)
  /\ recv' = IF Head(mailbox).stop
               THEN At("stopped")
               ELSE LET m == Head(mailbox)
                    IN  [pc |-> "store", m |-> m,
                         runCallback |-> IsLast(tracker_[m.id[1]][m.id[2]])]
  /\ UNCHANGED <<shared, app, servers, requests, vals, ran, returned>>

\* UniqueProcess, under mu_: keep the values of a pull.
Store ==
  /\ recv.pc = "store"
  /\ recv_kvs_' = IF recv.m.push THEN recv_kvs_
                    ELSE [recv_kvs_ EXCEPT ![recv.m.id] =
                            Append(@, [server |-> recv.m.server,
                                       min_clock |-> recv.m.min_clock])]
  /\ recv' = [recv EXCEPT !.pc = IF recv.runCallback THEN "run" ELSE "count"]
  /\ UNCHANGED <<tracker_, callbacks_, app, servers, mailbox, requests, vals, ran,
                 returned>>

\* The callbacks of the pulls order the answers by their first key.
InArrivalOrder(kvs) == kvs
InKeyOrder(kvs) ==
  LET order == CHOOSE p \in Bijection(DOMAIN kvs, DOMAIN kvs) :
                 \A i, j \in DOMAIN kvs : i < j => kvs[p[i]].server <= kvs[p[j]].server
  IN  [i \in DOMAIN kvs |-> kvs[order[i]]]

NoVals == [slices |-> <<>>, min_clock |-> -1]

\* What the callback hands to the caller: the values of all slices in key
\* order and, for PullChunksWithMinClock, the smallest min_clock.
Assembled(op, kvs) ==
  LET sorted == InKeyOrder(kvs)
  IN  [slices |-> [i \in DOMAIN sorted |-> sorted[i].server],
       min_clock |-> IF op = "PullChunksWithMinClock"
                       THEN Min({kvs[i].min_clock : i \in DOMAIN kvs}) ELSE -1]

\* RunCallback: a pull assembles its values and drops the collected answers;
\* then the caller's callback runs, and the entry is erased.
RunCallback ==
  /\ recv.pc = "run"
  /\ LET id == recv.m.id
         call == requests[id[1]][id[2]]
     IN  IF id \in callbacks_
           THEN /\ IF IsPush(call.op)
                     THEN UNCHANGED <<vals, recv_kvs_>>
                     ELSE /\ vals' = [vals EXCEPT ![id] =
                                        Assembled(call.op, recv_kvs_[id])]
                          /\ recv_kvs_' = [recv_kvs_ EXCEPT ![id] = <<>>]
                /\ ran' = IF call.cb THEN [ran EXCEPT ![id] = @ + 1] ELSE ran
                /\ callbacks_' = callbacks_ \ {id}
           ELSE UNCHANGED <<vals, recv_kvs_, ran, callbacks_>>
  /\ recv' = [recv EXCEPT !.pc = "count"]
  /\ UNCHANGED <<tracker_, app, servers, mailbox, requests, returned>>

\* Receiving, under tracker_mu_: count the answer and wake the caller.
Count ==
  /\ recv.pc = "count"
  /\ tracker_' = [tracker_ EXCEPT ![recv.m.id[1]][recv.m.id[2]].second = @ + 1]
  /\ recv' = At("poll")
  /\ UNCHANGED <<callbacks_, recv_kvs_, app, servers, mailbox, requests, vals, ran,
                 returned>>

------------------------------------------------------------------------------
Init ==
  /\ tracker_ = [kv \in Kvs |-> <<>>]
  /\ callbacks_ = {}
  /\ recv_kvs_ = [id \in Ids |-> <<>>]
  /\ app = At("idle")
  /\ recv = At("poll")
  /\ servers = {}
  /\ mailbox = <<>>
  /\ requests = [kv \in Kvs |-> <<>>]
  /\ vals = [id \in Ids |-> NoVals]
  /\ ran = [id \in Ids |-> 0]
  /\ returned = {}

Receiving == Receive \/ Store \/ RunCallback \/ Count

Next ==
  \/ \E kv \in Kvs, c \in Calls : Start(kv, c)
  \/ AddCallback
  \/ SendNext
  \/ \E id \in Ids : Wait(id[1], id[2])
  \/ WaitReturns
  \/ Destroy
  \/ Joined
  \/ \E m \in servers : ServerAnswers(m)
  \/ Receiving

Spec == Init /\ [][Next]_vars

\* A running thread goes on; each server answers what it holds in the end
\* (PullAnswered of SSPServer, RequestAnswered of BSPServer).
Fairness ==
  /\ WF_vars(AddCallback \/ SendNext \/ WaitReturns \/ Joined)
  /\ WF_vars(Receiving)
  /\ \A id \in Ids, s \in Servers :
       WF_vars(\E m \in servers :
                 m.id = id /\ m.server = s /\ ServerAnswers(m))

FairSpec == Spec /\ Fairness

------------------------------------------------------------------------------
(* Properties.                                                             *)

IdsInUse == {id \in Ids : id[2] \in DOMAIN tracker_[id[1]]}

\* When Wait returns, the caller's buffer is filled: every slice of the pull
\* is in it, once, and in the order of the keys, whatever order the servers
\* answered in (the callbacks in Pull_, PullChunks, PullChunksWithMinClock).
Ordered(slices, S) ==
  /\ Range(slices) = S
  /\ \A i, j \in DOMAIN slices : i < j => slices[i] < slices[j]
BufferFilled ==
  \A id \in returned :
    LET call == requests[id[1]][id[2]]
    IN  ~IsPush(call.op) => Ordered(vals[id].slices, call.slices)

\* The caller's callback runs exactly once for a request with slices that
\* Wait has returned for, and never more than once (RunCallback); Push is
\* excepted: ZPush takes a callback and never registers it.
CallbackOnce ==
  \A id \in IdsInUse :
    LET call == requests[id[1]][id[2]]
    IN  /\ ran[id] <= 1
        /\ (id \in returned /\ call.cb /\ call.slices # {} /\ call.op # "Push")
             => ran[id] = 1

\* What the caller of Wait relies on.
WaitDelivers == BufferFilled /\ CallbackOnce

\* UniqueProcess reads an answer in the format Response wrote it in, and
\* keeps it as the type the callback will cast it to (RecvKVPairs or
\* RecvKVPairsWithMinClock).
AnswersUnderstood ==
  (recv.pc = "store" /\ ~recv.m.push) =>
     /\ Decoded(recv.m.cmd) = recv.m.form
     /\ (Decoded(recv.m.cmd) = "keys, vals, min_clock") <=>
          (requests[recv.m.id[1]][recv.m.id[2]].op = "PullChunksWithMinClock")

\* Every Wait returns, and the destructor's join does too.
WaitEnds == app.pc \in {"wait", "join"} ~> app.pc \in {"idle", "stopped"}

------------------------------------------------------------------------------
(* The inductive invariant behind WaitDelivers and AnswersUnderstood: where *)
(* each answer of a request is, from the moment the request is made.        *)

Forms == {"pointer", "keys, vals", "keys, vals, min_clock"}
Request == [id : Ids, server : Servers, cmd : Nat, push : BOOLEAN, data : BOOLEAN]
Answer == [stop : {FALSE}, id : Ids, server : Servers, cmd : Nat, push : BOOLEAN,
           form : Forms, min_clock : MinClocks]
Collected == [server : Servers, min_clock : MinClocks]
Counter == [first : Nat, second : Nat]

\* The types of the state; every request has a counter.
TypeOK ==
  /\ tracker_ \in [Kvs -> Seq(Counter)]
  /\ requests \in [Kvs -> Seq(Calls)]
  /\ \A kv \in Kvs : Len(tracker_[kv]) = Len(requests[kv]) /\ Len(requests[kv]) <= MaxRequests
  /\ callbacks_ \in SUBSET Ids
  /\ recv_kvs_ \in [Ids -> Seq(Collected)]
  /\ \/ app \in {At("idle"), At("join"), At("stopped")}
     \/ /\ app \in [pc : {"callback", "send", "wait"}, kv : Kvs, ts : 1 .. MaxRequests,
                     next : Servers]
        /\ ThisId \in IdsInUse
  /\ \/ recv \in {At("poll"), At("stopped")}
     \/ recv \in [pc : {"store", "run", "count"}, m : Answer, runCallback : BOOLEAN]
  /\ servers \in SUBSET Request
  /\ mailbox \in Seq(Answer \cup {Stop})
  /\ vals \in [Ids -> [slices : Seq(Servers), min_clock : Int]]
  /\ ran \in [Ids -> Nat]
  /\ returned \in SUBSET IdsInUse

CallOf(id) == requests[id[1]][id[2]]
CounterOf(id) == tracker_[id[1]][id[2]]

\* The slices of a request that are not sent yet, that a server holds, whose
\* answer is in the mailbox, and that the receiving thread is handling.
InHand(id) == recv.pc \in {"store", "run", "count"} /\ recv.m.id = id
ToSend(id) == IF app.pc \in {"callback", "send"} /\ ThisId = id
                THEN {s \in CallOf(id).slices : s >= app.next} ELSE {}
Held(id) == {s \in Servers : \E m \in servers : m.id = id /\ m.server = s /\ m.data}
Arriving(id) == {s \in Servers : \E i \in DOMAIN mailbox :
                   ~mailbox[i].stop /\ mailbox[i].id = id /\ mailbox[i].server = s}
Handling(id) == IF InHand(id) THEN {recv.m.server} ELSE {}

\* Not counted yet; not stored yet; not past the callback yet.
Open(id) == ToSend(id) \cup Held(id) \cup Arriving(id) \cup Handling(id)
NotStored(id) == ToSend(id) \cup Held(id) \cup Arriving(id)
                   \cup (IF recv.pc = "store" THEN Handling(id) ELSE {})
Pending(id) == ToSend(id) \cup Held(id) \cup Arriving(id)
                 \cup (IF recv.pc \in {"store", "run"} THEN Handling(id) ELSE {})

\* The callback of a request has been looked up, after its last answer.
Over(id) == CallOf(id).slices # {} /\ Pending(id) = {}

\* A message belongs to a request and says what the call says.
Genuine(m) ==
  /\ m.id \in IdsInUse
  /\ m.push = IsPush(CallOf(m.id).op)
Addressed(m) ==
  Genuine(m) /\ m.cmd = Cmd(CallOf(m.id), m.server) /\ m.data = (m.server \in CallOf(m.id).slices)
Replies(m) ==
  /\ Genuine(m) /\ m.server \in CallOf(m.id).slices
  /\ m.cmd = ServerCmd(Cmd(CallOf(m.id), m.server)) /\ m.form = Encoded(m.cmd)
MessagesGenuine ==
  /\ \A m \in servers : Addressed(m)
  /\ \A i \in DOMAIN mailbox : ~mailbox[i].stop => Replies(mailbox[i])
  /\ recv.pc \in {"store", "run", "count"} => Replies(recv.m)

\* Every answer is in one place.
OnePlace ==
  /\ \A i, j \in DOMAIN mailbox :
       (~mailbox[i].stop /\ ~mailbox[j].stop /\ mailbox[i].id = mailbox[j].id
          /\ mailbox[i].server = mailbox[j].server) => i = j
  /\ \A id \in IdsInUse :
       /\ ToSend(id) \cap (Held(id) \cup Arriving(id) \cup Handling(id)) = {}
       /\ Held(id) \cap (Arriving(id) \cup Handling(id)) = {}
       /\ Arriving(id) \cap Handling(id) = {}

\* The counters count the slices, and those that are no longer open.
CountersExact ==
  \A id \in IdsInUse :
    /\ CounterOf(id).first = Cardinality(CallOf(id).slices)
    /\ CounterOf(id).second = Cardinality(CallOf(id).slices \ Open(id))

\* The receiving thread was right about the last answer, and still is.
LastKnown ==
  /\ recv.pc \in {"store", "run"} => recv.runCallback = IsLast(CounterOf(recv.m.id))
  /\ recv.pc = "run" => recv.runCallback

\* The requests whose callback is registered in callbacks_.
Registers(call) == call.op \notin {"Init", "Push"} /\ (call.cb \/ ~IsPush(call.op))

\* The callback of a request is registered, before anything is sent, until it
\* has run, once.
Registering(id) == app.pc = "callback" /\ ThisId = id
CallbackTracked ==
  /\ app.pc = "callback" => app.next = 1 /\ ThisCall.op \notin {"Init", "Push"}
  /\ \A id \in Ids :
       IF id \in IdsInUse /\ Registers(CallOf(id))
         THEN /\ id \in callbacks_ <=> ~Over(id) /\ ~Registering(id)
              /\ ran[id] = IF CallOf(id).cb /\ Over(id) THEN 1 ELSE 0
         ELSE id \notin callbacks_ /\ ran[id] = 0

\* The answers kept for a pull are the slices that have been stored, once each;
\* the callback hands all of them over.
Lists(kvs, S) ==
  /\ \A i \in DOMAIN kvs : kvs[i].server \in S
  /\ \A s \in S : \E i \in DOMAIN kvs : kvs[i].server = s
  /\ \A i, j \in DOMAIN kvs : kvs[i].server = kvs[j].server => i = j
PullsCollected ==
  \A id \in Ids :
    IF id \in IdsInUse /\ ~IsPush(CallOf(id).op)
      THEN IF Over(id) THEN Ordered(vals[id].slices, CallOf(id).slices)
           ELSE Lists(recv_kvs_[id], CallOf(id).slices \ NotStored(id)) /\ vals[id] = NoVals
      ELSE recv_kvs_[id] = <<>> /\ vals[id] = NoVals

\* Wait has returned for finished requests only.
ReturnedFinished == \A id \in returned : Finished(id[1], id[2])

Inv ==
  /\ TypeOK /\ MessagesGenuine /\ OnePlace /\ CountersExact /\ LastKnown
  /\ CallbackTracked /\ PullsCollected /\ ReturnedFinished

------------------------------------------------------------------------------
(* What KVWorker.cfg offers: the first request is any call; while it is    *)
(* under way a pull from all servers with the default arguments may follow *)
(* it.                                                                     *)
MCOffered ==
  << Calls,
     {c \in Calls : /\ c.op = "Pull" /\ c.slices = Servers /\ c.cb
                    /\ ~c.send_all /\ c.local_zero_copy /\ c.consistency_control} >>
==============================================================================
