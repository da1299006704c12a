------------------------------ MODULE Delivery ------------------------------
(***************************************************************************)
(* A message's way from its source to the store, across crashes: what a     *)
(* source has been told, what the process still holds, what was stored.     *)
(* The receiver is one of four kinds:                                       *)
(*   kafka    receivers/kafka, jsonlogs.KafkaReceiver: commit, then forward *)
(*   pulsar   receivers/pulsar: forward or drop, then acknowledge           *)
(*   drop     receivers/otlphttp, promrw: forward or drop, then answer      *)
(*   wait     receivers/otlpgrpc, jsonlogs over HTTP: forward, then answer  *)
(*                                                                          *)
(* Behind its channel (Pipelines.tla) there is one window of one service    *)
(* (Summarizer.tla) and the Weaviate exporter, one Aggregate each.  A stop  *)
(* on a signal loses the same things as a crash and is not told apart.      *)
(***************************************************************************)
EXTENDS Integers, Sequences, FiniteSets

CONSTANTS
  Kinds,       \* the kinds of receivers to look at
  MaxMsgs,     \* bound: messages at the source
  MaxLoose,    \* bound: how many of them come from Pulsar or in requests
  Cap,         \* capacity of the receiver's channel
  MaxCrashes,  \* bound: ends of the process
  MaxFaults    \* bound: failed commits, lost acknowledgements and connections,
               \* rebalances, impatient clients, broken bodies

ASSUME DeliveryAssumption ==
  /\ Kinds \subseteq {"kafka", "pulsar", "drop", "wait"}
  /\ MaxMsgs \in Nat
  /\ MaxLoose \in Nat
  /\ Cap \in Nat \ {0}
  /\ MaxCrashes \in Nat
  /\ MaxFaults \in Nat

VARIABLES
  kind,       \* the receiver's kind
  up,         \* the process runs
  crashes, faults,
  committed,  \* kafka: next offset of the consumer group, at the broker
  told,       \* messages acknowledged at the broker, or answered with success
  waiting,    \* requests whose client waits for an answer
  tries,      \* requests sent with a message
  pos,        \* kafka: next offset of the reader
  due,        \* pulsar: copies of each message that this consumer may be given
  hands,      \* what the receiver's goroutines hold
  chan,       \* the receiver's channel
  window,     \* items summarised in the open window
  flushing,   \* the window loop is blocked in its send
  post,       \* items of the Aggregate the exporter is sending, {} when idle
  store,      \* objects in the store, as sets of items
  puts,       \* history: how often a message was put into the channel
  order,      \* history: messages in the order they were put
  dropped,    \* history: messages that found the channel full
  again       \* history: how often the source gave, or may give, the message
              \* again to a process that had it

source == <<committed, told, waiting, tries>>
receiver == <<pos, due, hands>>
line == <<chan, puts, order, dropped>>
sink == <<window, flushing, post, store>>
process == <<kind, up, crashes, faults>>
vars == <<source, receiver, line, sink, process, again>>

Msgs == 1 .. MaxMsgs
Tries == 1 .. 1 + MaxCrashes + MaxFaults
Item == Msgs \X Tries            \* a message, and which of its puts it is

(* A message, which request brought it (1 for a broker), what comes next    *)
Hand == [msg : Msgs, try : Tries, next : {"commit", "send", "offer", "tell"}]

(* One copy of each message that is not acknowledged, for a new consumer    *)
Unacked == [m \in Msgs |-> IF kind = "pulsar" /\ m <= MaxLoose /\ m \notin told THEN 1 ELSE 0]

Init ==
  /\ kind \in Kinds
  /\ up = TRUE
  /\ crashes = 0 /\ faults = 0
  /\ committed = 1 /\ pos = 1
  /\ told = {} /\ waiting = {}
  /\ tries = [m \in Msgs |-> 0]
  /\ due = Unacked /\ hands = {}
  /\ chan = <<>>
  /\ window = {} /\ flushing = FALSE
  /\ post = {} /\ store = {}
  /\ puts = [m \in Msgs |-> 0]
  /\ order = <<>>
  /\ dropped = {}
  /\ again = [m \in Msgs |-> 0]

Fault == faults < MaxFaults /\ faults' = faults + 1 /\ UNCHANGED <<kind, up, crashes>>

Again(ms) == again' = [m \in Msgs |-> IF m \in ms THEN again[m] + 1 ELSE again[m]]

At(h, step) == h \in hands /\ h.next = step
GoOn(h, step) == hands' = (hands \ {h}) \cup {[h EXCEPT !.next = step]}
LetGo(h) == hands' = hands \ {h}

Room == Len(chan) < Cap

(* out <- env *)
Put(m) ==
  /\ chan' = Append(chan, <<m, puts[m] + 1>>)
  /\ puts' = [puts EXCEPT ![m] = @ + 1]
  /\ order' = Append(order, m)
  /\ UNCHANGED dropped

(* select { case out <- env: default: } *)
PutOrDrop(m) ==
  IF Room THEN Put(m) ELSE dropped' = dropped \cup {m} /\ UNCHANGED <<chan, puts, order>>

-----------------------------------------------------------------------------
(* Kafka: ReadMessage fetches and, with a group, commits before it returns. *)

\* variant: the offset is never committed
FetchOnly ==
  /\ kind = "kafka" /\ up
  /\ hands = {}
  /\ pos \in Msgs
  /\ hands' = {[msg |-> pos, try |-> 1, next |-> "send"]}
  /\ pos' = pos + 1
  /\ UNCHANGED <<due, again>>
  /\ UNCHANGED source /\ UNCHANGED line /\ UNCHANGED sink /\ UNCHANGED process

Fetch ==
  /\ kind = "kafka" /\ up
  /\ hands = {}
  /\ pos \in Msgs
  /\ hands' = {[msg |-> pos, try |-> 1, next |-> "commit"]}
  /\ pos' = pos + 1
  /\ UNCHANGED <<due, again>>
  /\ UNCHANGED source /\ UNCHANGED line /\ UNCHANGED sink /\ UNCHANGED process

\* variant: the offset after the next one is committed
CommitPastNext(h) ==
  /\ At(h, "commit")
  /\ committed' = h.msg + 2
  /\ GoOn(h, "send")
  /\ UNCHANGED <<pos, due, told, waiting, tries, again>>
  /\ UNCHANGED line /\ UNCHANGED sink /\ UNCHANGED process

Commit(h) ==
  /\ At(h, "commit")
  /\ committed' = h.msg + 1
  /\ GoOn(h, "send")
  /\ UNCHANGED <<pos, due, told, waiting, tries, again>>
  /\ UNCHANGED line /\ UNCHANGED sink /\ UNCHANGED process

(* The loop logs the error and reads on: the message is skipped.  The broker *)
(* may have taken the commit all the same.                                  *)
CommitFails(h) ==
  /\ At(h, "commit")
  /\ committed' \in {committed, h.msg + 1}
  /\ LetGo(h)
  /\ Fault
  /\ UNCHANGED <<pos, due, told, waiting, tries, again>>
  /\ UNCHANGED line /\ UNCHANGED sink

(* The group's generation changes: the reader starts again at the committed *)
(* offset.  What ReadMessage or the loop holds stays there, and is committed *)
(* and forwarded all the same.                                              *)
Rebalance ==
  /\ kind = "kafka" /\ up
  /\ pos' = committed
  /\ Again(committed .. pos - 1)
  /\ Fault
  /\ UNCHANGED <<due, hands>>
  /\ UNCHANGED source /\ UNCHANGED line /\ UNCHANGED sink

-----------------------------------------------------------------------------
(* Pulsar: a consumer is given every message that is not acknowledged, once  *)
(* for each connection it has had.                                           *)

\* variant: the message is acknowledged before it is offered
ReceiveAndAck(m) ==
  /\ kind = "pulsar" /\ up
  /\ hands = {}
  /\ due[m] > 0
  /\ due' = [due EXCEPT ![m] = @ - 1]
  /\ told' = told \cup {m}
  /\ hands' = {[msg |-> m, try |-> 1, next |-> "offer"]}
  /\ UNCHANGED <<pos, committed, waiting, tries, again>>
  /\ UNCHANGED line /\ UNCHANGED sink /\ UNCHANGED process

Receive(m) ==
  /\ kind = "pulsar" /\ up
  /\ hands = {}
  /\ due[m] > 0
  /\ due' = [due EXCEPT ![m] = @ - 1]
  /\ hands' = {[msg |-> m, try |-> 1, next |-> "offer"]}
  /\ UNCHANGED <<pos, again>>
  /\ UNCHANGED source /\ UNCHANGED line /\ UNCHANGED sink /\ UNCHANGED process

(* The connection is lost and made again, and the broker sends once more    *)
(* what is not acknowledged, also what the receiver holds.  Some of what the *)
(* client has queued may still come.                                        *)
Reconnect ==
  /\ kind = "pulsar" /\ up
  /\ \E kept \in SUBSET Msgs :
       due' = [m \in Msgs |-> (IF m \in kept THEN due[m] ELSE 0) + Unacked[m]]
  /\ Again(Msgs \ told)
  /\ Fault
  /\ UNCHANGED <<pos, hands>>
  /\ UNCHANGED source /\ UNCHANGED line /\ UNCHANGED sink

(* consumer.Ack, whatever came of the offer; its error is ignored *)
Ack(h) ==
  /\ kind = "pulsar"
  /\ At(h, "tell")
  /\ LetGo(h)
  /\ \/ told' = told \cup {h.msg} /\ UNCHANGED process
     \/ Fault /\ UNCHANGED told
  /\ UNCHANGED <<pos, due, committed, waiting, tries, again>>
  /\ UNCHANGED line /\ UNCHANGED sink

-----------------------------------------------------------------------------
(* Requests: one goroutine for each.                                        *)

(* A client that has no answer yet, or has given up on one, sends.          *)
Arrive(m) ==
  /\ kind \in {"drop", "wait"} /\ up
  /\ m \notin told /\ m <= MaxLoose
  /\ \A k \in Tries : <<m, k>> \notin waiting
  /\ tries' = [tries EXCEPT ![m] = @ + 1]
  /\ waiting' = waiting \cup {<<m, tries'[m]>>}
  /\ hands' = hands \cup {[msg |-> m, try |-> tries'[m],
                           next |-> IF kind = "drop" THEN "offer" ELSE "send"]}
  /\ UNCHANGED <<committed, told, pos, due, again>>
  /\ UNCHANGED line /\ UNCHANGED sink /\ UNCHANGED process

(* The deadline of the client passes; the handler does not look at it. *)
GiveUp(m) ==
  /\ \E k \in Tries : <<m, k>> \in waiting /\ waiting' = waiting \ {<<m, k>>}
  /\ Again({m})
  /\ Fault
  /\ UNCHANGED <<committed, told, tries>>
  /\ UNCHANGED receiver /\ UNCHANGED line /\ UNCHANGED sink

Answer(h) ==
  /\ kind \in {"drop", "wait"}
  /\ At(h, "tell")
  /\ LetGo(h)
  /\ waiting' = waiting \ {<<h.msg, h.try>>}
  /\ told' = IF <<h.msg, h.try>> \in waiting THEN told \cup {h.msg} ELSE told
  /\ UNCHANGED <<pos, due, committed, tries, again>>
  /\ UNCHANGED line /\ UNCHANGED sink /\ UNCHANGED process

(* The body breaks off, or has a line beyond the scanner's limit, after its *)
(* first lines were sent: the answer is 400, and the client may send it all  *)
(* again (jsonlogs over HTTP).                                              *)
Refuse(h) ==
  /\ kind = "wait"
  /\ At(h, "tell")
  /\ LetGo(h)
  /\ waiting' = waiting \ {<<h.msg, h.try>>}
  /\ Again({m \in Msgs : m = h.msg /\ <<h.msg, h.try>> \in waiting})
  /\ Fault
  /\ UNCHANGED <<pos, due, committed, told, tries>>
  /\ UNCHANGED line /\ UNCHANGED sink

-----------------------------------------------------------------------------
(* The hand-over to the channel                                             *)

\* variant: every receiver drops when the channel is full
SendOrDrop(h) ==
  /\ At(h, "send")
  /\ PutOrDrop(h.msg)
  /\ IF kind = "kafka" THEN LetGo(h) ELSE GoOn(h, "tell")
  /\ UNCHANGED <<pos, due, again>>
  /\ UNCHANGED source /\ UNCHANGED sink /\ UNCHANGED process

(* kafka, wait: the send waits for room, whatever became of the context *)
Send(h) ==
  /\ At(h, "send")
  /\ Room
  /\ Put(h.msg)
  /\ IF kind = "kafka" THEN LetGo(h) ELSE GoOn(h, "tell")
  /\ UNCHANGED <<pos, due, again>>
  /\ UNCHANGED source /\ UNCHANGED sink /\ UNCHANGED process

\* variant: what a case of the switch has offered is offered again after it
OfferTwice(h) ==
  /\ At(h, "offer")
  /\ PutOrDrop(h.msg)
  /\ IF puts[h.msg] = 0 THEN UNCHANGED hands ELSE GoOn(h, "tell")
  /\ UNCHANGED <<pos, due, again>>
  /\ UNCHANGED source /\ UNCHANGED sink /\ UNCHANGED process

(* pulsar, drop *)
Offer(h) ==
  /\ At(h, "offer")
  /\ PutOrDrop(h.msg)
  /\ GoOn(h, "tell")
  /\ UNCHANGED <<pos, due, again>>
  /\ UNCHANGED source /\ UNCHANGED sink /\ UNCHANGED process

-----------------------------------------------------------------------------
(* Behind the channel                                                       *)

(* The window loop takes an item. *)
Take ==
  /\ chan # <<>>
  /\ ~flushing
  /\ window' = window \cup {Head(chan)}
  /\ chan' = Tail(chan)
  /\ UNCHANGED <<flushing, post, store, puts, order, dropped>>
  /\ UNCHANGED source /\ UNCHANGED receiver /\ UNCHANGED process /\ UNCHANGED again

(* A tick at the end of the window: flush has an Aggregate to send. *)
Close ==
  /\ window # {} /\ ~flushing
  /\ flushing' = TRUE
  /\ UNCHANGED <<window, post, store>>
  /\ UNCHANGED source /\ UNCHANGED receiver /\ UNCHANGED line /\ UNCHANGED process /\ UNCHANGED again

\* variant: the window is not reset
HandOverKeeping ==
  /\ flushing /\ post = {}
  /\ post' = window
  /\ flushing' = FALSE
  /\ UNCHANGED <<window, store>>
  /\ UNCHANGED source /\ UNCHANGED receiver /\ UNCHANGED line /\ UNCHANGED process /\ UNCHANGED again

\* variant: the loop does not leave flush
HandOverAndStay ==
  /\ flushing /\ post = {}
  /\ post' = window
  /\ window' = {}
  /\ UNCHANGED <<flushing, store>>
  /\ UNCHANGED source /\ UNCHANGED receiver /\ UNCHANGED line /\ UNCHANGED process /\ UNCHANGED again

(* The exporter is back at its select and takes the Aggregate. *)
HandOver ==
  /\ flushing /\ post = {}
  /\ post' = window
  /\ window' = {}
  /\ flushing' = FALSE
  /\ UNCHANGED store
  /\ UNCHANGED source /\ UNCHANGED receiver /\ UNCHANGED line /\ UNCHANGED process /\ UNCHANGED again

(* upsert sends one POST.  An error, which includes a timeout after the     *)
(* store has taken the object, is logged; 409 and 422 count as success.     *)
(* Either way the exporter goes on to the next Aggregate.                   *)
Upsert ==
  /\ post # {}
  /\ store' \in {store, store \cup {post}}
  /\ post' = {}
  /\ UNCHANGED <<window, flushing>>
  /\ UNCHANGED source /\ UNCHANGED receiver /\ UNCHANGED line /\ UNCHANGED process /\ UNCHANGED again

-----------------------------------------------------------------------------
(* The process ends and comes back                                          *)

(* What is in memory is gone; a POST on the wire may still be served, and   *)
(* clients lose their connection.                                           *)
Crash ==
  /\ up
  /\ crashes < MaxCrashes
  /\ crashes' = crashes + 1
  /\ up' = FALSE
  /\ hands' = {} /\ chan' = <<>> /\ window' = {} /\ flushing' = FALSE
  /\ store' \in {store, store \cup ({post} \ {{}})}
  /\ post' = {}
  /\ waiting' = {}
  /\ UNCHANGED <<kind, faults, committed, told, tries, pos, due, puts, order, dropped, again>>

Restart ==
  /\ ~up
  /\ up' = TRUE
  /\ pos' = committed
  /\ due' = Unacked
  /\ UNCHANGED <<kind, crashes, faults, hands, again>>
  /\ UNCHANGED source /\ UNCHANGED line /\ UNCHANGED sink

-----------------------------------------------------------------------------
Receiver(h) ==
  \/ Commit(h) \/ CommitFails(h) \/ Send(h) \/ Offer(h) \/ Ack(h) \/ Answer(h) \/ Refuse(h)

Next ==
  \/ Fetch \/ Rebalance \/ Reconnect
  \/ \E m \in Msgs : Receive(m) \/ Arrive(m) \/ GiveUp(m)
  \/ \E h \in hands : Receiver(h)
  \/ Take \/ Close \/ HandOver \/ Upsert
  \/ Crash \/ Restart

Spec == Init /\ [][Next]_vars

(* The stages behind the channel run, time closes windows, and the client   *)
(* of the exporter has a timeout.  Sources and receivers owe nothing.       *)
Fairness ==
  /\ WF_vars(Take)
  /\ WF_vars(Close)
  /\ WF_vars(HandOver)
  /\ WF_vars(Upsert)

FairSpec == Spec /\ Fairness

-----------------------------------------------------------------------------
(* Properties                                                               *)

(* Every variable keeps its shape, and a channel its capacity.              *)
TypeOK ==
  /\ kind \in Kinds
  /\ {up, flushing} \subseteq BOOLEAN
  /\ crashes \in 0 .. MaxCrashes
  /\ faults \in 0 .. MaxFaults
  /\ {committed, pos} \subseteq 1 .. MaxMsgs + 1
  /\ {told, dropped} \subseteq SUBSET Msgs
  /\ waiting \subseteq Item
  /\ hands \subseteq Hand
  /\ {tries, puts, due} \subseteq [Msgs -> 0 .. 1 + MaxCrashes + MaxFaults]
  /\ again \in [Msgs -> 0 .. MaxFaults]
  /\ chan \in Seq(Item)
  /\ Len(chan) <= Cap
  /\ {window, post} \cup store \subseteq SUBSET Item
  /\ order \in Seq(Msgs)

(* Kafka messages enter the aggregator in the order of the topic and at     *)
(* most once, over any number of crashes and failed commits: the offset is  *)
(* committed before the message is forwarded (kafka.go:68-150).  Only one   *)
(* that a rebalance has the reader fetch again may come late or twice.      *)
KafkaOnceInOrder ==
  kind = "kafka" =>
    \A i, j \in DOMAIN order : i < j => order[i] < order[j] \/ again[order[j]] > 0

(* The price of it is at most one message per crash and per failed commit:  *)
(* an offset the group is past belongs to a message that was forwarded, is  *)
(* being forwarded, or was in hand when that happened.                      *)
KafkaSkipsAtMostOnePerFault ==
  kind = "kafka" =>
    Cardinality({m \in 1 .. committed - 1 :
                   puts[m] = 0 /\ \A h \in hands : h.msg # m}) <= crashes + faults

(* A source is told that a message is done only after the message is in the *)
(* channel or was dropped at a full one, and never dropped by the receivers *)
(* that wait (pulsar.go:263, otlphttp.go:241-258, otlpgrpc.go:66-70).       *)
ToldIsAccounted ==
  \A m \in told : puts[m] > 0 \/ (m \in dropped /\ kind # "wait")

(* A message is counted again only after a crash, which Kafka's is not a    *)
(* reason for, or when its source had a reason to send it, that message, a  *)
(* second time: its client gave up on an answer or got a 400, a Pulsar      *)
(* connection was lost before it was acknowledged, or the group was         *)
(* rebalanced before it was committed.                                      *)
RepeatsHaveACause ==
  \A m \in Msgs :
    puts[m] <= 1 + (IF kind = "kafka" THEN 0 ELSE crashes) + again[m]

(* What was put into the channel once is in one stored object at most,      *)
(* though an upsert may be served after the exporter has given it up.       *)
StoredOnce ==
  \A a, b \in store : a # b => a \cap b = {}

(* What is in the channel leaves the process again: a store that refuses or *)
(* does not answer costs Aggregates and time, but does not stop the line.   *)
NothingStuck ==
  \A m \in Msgs :
    (\E i \in DOMAIN chan : chan[i][1] = m)
      ~> (/\ \A i \in DOMAIN chan : chan[i][1] # m
          /\ \A x \in window \cup post : x[1] # m)
=============================================================================
