------------------------------- MODULE PubSub -------------------------------
(***************************************************************************)
(* Publication of incoming records to the customers whose subscription     *)
(* selects them.  The writer threads push records into a bounded queue, a  *)
(* publisher thread takes them out, collects the customers and publishes.  *)
(* The thread of Subscriptions also keeps the link to redis and starts one *)
(* more publisher each time it has connected.  There is no lock.           *)
(*                                                                         *)
(* A push that overlaps another push may be lost.  A pop of the empty      *)
(* queue makes its size negative, and pushes then only make up for it.     *)
(* (A fault these may cause is a Kill.)  Between the end of a connection   *)
(* and the next one lie 3 seconds: a publisher that is not blocked in a    *)
(* redis command has seen the link down by then.                           *)
(***************************************************************************)
EXTENDS Subscriptions, Sequences, FiniteSets

CONSTANTS
  Producers,   (* the writer threads *)
  Publishers,  (* slots for the publisher threads that may run at a time *)
  MaxBuffer,   (* max_buffer_size *)
  MaxLosses    (* bound: how often a connection to redis is lost *)

ASSUME PubSubAssumption ==
  /\ IsFiniteSet(Customers)   \* ids are of type int
  /\ IsFiniteSet(Producers) /\ Producers # {}
  /\ IsFiniteSet(Publishers) /\ Publishers # {}
  /\ MaxBuffer \in Nat \ {0}
  /\ MaxLosses \in Nat

VARIABLES
  queue,      \* m_pgps_list
  missing,    \* pops of the empty queue that are not made up for
  ppc, prec,  \* each producer: next step, record
  link,       \* m_link_state
  conn,       \* the event loop: connect, connected, serve
  pubok,      \* the connection of m_pconnect_pub works
  wpc,        \* each publisher: next step
  inhand,     \* gpsdata
  ahead,      \* the customers the iteration has not passed
  ids,        \* the customers collected
  disturbed,  \* the table was changed under the iteration
  \* history
  offered,    \* records that came in
  published,  \* what was published, in order
  losses

producers  == <<ppc, prec>>
connection == <<link, conn, pubok, losses>>
publishers == <<wpc, inhand, ahead, ids, disturbed>>
pubVars    == <<queue, missing, producers, connection, publishers, offered, published>>
vars       == <<subscribeVars, pubVars>>

(* of the variables of this module; SubscribeTypeOK is about the others *)
TypeOK ==
  /\ queue \in Seq(Records) /\ missing \in Nat
  /\ ppc \in [Producers -> {"idle", "push"}] /\ prec \in [Producers -> Records]
  /\ link \in BOOLEAN /\ pubok \in BOOLEAN
  /\ conn \in {"connect", "connected", "serve"}
  /\ wpc \in [Publishers -> {"off", "check", "front", "pop", "scan", "publish"}]
  /\ inhand \in [Publishers -> Records]
  /\ ahead \in [Publishers -> SUBSET Customers]
  /\ ids \in [Publishers -> SUBSET Customers]
  /\ disturbed \in [Publishers -> BOOLEAN]
  /\ offered \subseteq Records
  /\ published \in Seq([record : Records, ids : SUBSET Customers])
  /\ losses \in 0 .. MaxLosses

Init ==
  /\ SubscribeInit
  /\ queue = <<>> /\ missing = 0
  /\ ppc = [w \in Producers |-> "idle"]
  /\ \E r \in Records : /\ prec = [w \in Producers |-> r]
                        /\ inhand = [p \in Publishers |-> r]
  /\ link = FALSE /\ pubok = FALSE /\ conn = "connect"
  /\ wpc = [p \in Publishers |-> "off"]
  /\ ahead = [p \in Publishers |-> {}]
  /\ ids = [p \in Publishers |-> {}]
  /\ disturbed = [p \in Publishers |-> FALSE]
  /\ offered = {} /\ published = <<>> /\ losses = 0

-----------------------------------------------------------------------------
(* push, called by a writer for each record: the size is compared before   *)
(* the record is appended.  A record that does not fit, or that nobody     *)
(* could want, is dropped.                                                 *)
Size == Len(queue) - missing
Live == {i \in Customers : table[i] # None}

Fits == Size < MaxBuffer /\ Live # {}

PushBegin(w, r) ==
  /\ spc # "down"
  /\ ppc[w] = "idle"
  /\ r \notin offered
  /\ offered' = offered \cup {r}
  /\ IF Fits THEN /\ ppc' = [ppc EXCEPT ![w] = "push"]
                  /\ prec' = [prec EXCEPT ![w] = r]
             ELSE UNCHANGED producers
  /\ UNCHANGED <<subscribeVars, queue, missing, connection, publishers, published>>

Overlapped(w) == \E v \in Producers \ {w} : ppc[v] = "push"

PushEnd(w) ==
  /\ ppc[w] = "push"
  /\ ppc' = [ppc EXCEPT ![w] = "idle"]
  /\ \/ missing = 0 /\ queue' = Append(queue, prec[w]) /\ UNCHANGED missing
     \/ missing > 0 /\ missing' = missing - 1 /\ UNCHANGED queue
     \/ Overlapped(w) /\ UNCHANGED <<queue, missing>>
  /\ UNCHANGED <<subscribeVars, prec, connection, publishers, offered, published>>

-----------------------------------------------------------------------------
(* publish_work_thread, one thread per slot *)
Goto(p, pc) == wpc' = [wpc EXCEPT ![p] = pc]

BugUnsignedSize == Size = 0
QueueEmpty      == Size <= 0

CheckLink(p) ==
  /\ wpc[p] = "check"
  /\ Goto(p, IF ~link THEN "off" ELSE IF QueueEmpty THEN "check" ELSE "front")
  /\ UNCHANGED <<subscribeVars, queue, missing, producers, connection,
                 inhand, ahead, ids, disturbed, offered, published>>

(* front() of a queue another publisher has emptied is an old record *)
BugBack     == queue[Len(queue)]
FrontRecord == Head(queue)

Front(p) ==
  /\ wpc[p] = "front"
  /\ \E r \in Records :
       /\ IF queue # <<>> THEN r = FrontRecord ELSE r \in offered
       /\ inhand' = [inhand EXCEPT ![p] = r]
  /\ Goto(p, "pop")
  /\ UNCHANGED <<subscribeVars, queue, missing, producers, connection,
                 ahead, ids, disturbed, offered, published>>

Pop(p) ==
  /\ wpc[p] = "pop"
  /\ IF queue # <<>> THEN queue' = Tail(queue) /\ UNCHANGED missing
                     ELSE missing' = missing + 1 /\ UNCHANGED queue
  /\ ahead' = [ahead EXCEPT ![p] = Customers]
  /\ ids' = [ids EXCEPT ![p] = {}]
  /\ disturbed' = [disturbed EXCEPT ![p] = FALSE]
  /\ Goto(p, "scan")
  /\ UNCHANGED <<subscribeVars, producers, connection, inhand, offered, published>>

(* The iteration over m_subscribe_cons goes by increasing id; after the    *)
(* table has changed under it, it may go anywhere.                         *)
BugNoRect(i, r) == table[i].type # "rect" /\ r \in table[i].selects
Selects(i, r)   == r \in table[i].selects

NextOf(p) == {i \in Live \cap ahead[p] : \A j \in Live \cap ahead[p] : i <= j}

Visit(p, i) ==
  /\ ahead' = [ahead EXCEPT ![p] = {j \in Customers : j > i}]
  /\ ids' = [ids EXCEPT ![p] = IF Selects(i, inhand[p]) THEN @ \cup {i} ELSE @]
  /\ UNCHANGED wpc

EndScan(p) ==
  /\ Goto(p, IF ids[p] # {} THEN "publish" ELSE "check")
  /\ UNCHANGED <<ahead, ids>>

Scan(p) ==
  /\ wpc[p] = "scan"
  /\ \/ \E i \in Live : (i \in NextOf(p) \/ disturbed[p]) /\ Visit(p, i)
     \/ (NextOf(p) = {} \/ disturbed[p]) /\ EndScan(p)
  /\ UNCHANGED <<subscribeVars, queue, missing, producers, connection,
                 inhand, disturbed, offered, published>>

(* publish_msg: what redisCommand returns is not looked at.  Two threads   *)
(* that use the connection at once may spoil each other's command.         *)
Shared(p) == \E q \in Publishers \ {p} : wpc[q] # "off"

publish_msg(p) ==
  /\ wpc[p] = "publish"
  /\ \/ /\ pubok
        /\ published' = Append(published, [record |-> inhand[p], ids |-> ids[p]])
     \/ /\ ~pubok \/ Shared(p)
        /\ UNCHANGED published
  /\ Goto(p, "check")
  /\ UNCHANGED <<subscribeVars, queue, missing, producers, connection,
                 inhand, ahead, ids, disturbed, offered>>

publish_work_thread(p) == CheckLink(p) \/ Front(p) \/ Pop(p) \/ Scan(p) \/ publish_msg(p)

-----------------------------------------------------------------------------
(* start_pubsub_service: connect, start a publisher, serve until the       *)
(* subscribing connection ends.                                            *)
connect_redis ==
  /\ spc = "idle" /\ conn = "connect"
  /\ \A p \in Publishers : wpc[p] \in {"off", "publish"}
  /\ link' = TRUE /\ pubok' = TRUE
  /\ conn' = "connected"
  /\ UNCHANGED <<subscribeVars, queue, missing, producers, publishers, offered, published, losses>>

BugNotStarted == "off"
StartedAt     == "check"

start_publish_work ==
  /\ spc = "idle" /\ conn = "connected"
  /\ \E p \in Publishers : wpc[p] = "off" /\ Goto(p, StartedAt)
  /\ conn' = "serve"
  /\ UNCHANGED <<subscribeVars, queue, missing, producers, link, pubok, losses,
                 inhand, ahead, ids, disturbed, offered, published>>

(* The subscribing connection ends, and the publishing one with it or not; *)
(* or only the publishing one does, which nothing notices.                 *)
Disconnect ==
  /\ losses < MaxLosses
  /\ losses' = losses + 1
  /\ \/ /\ spc = "idle" /\ conn = "serve"
        /\ conn' = "connect"
        /\ link' = FALSE
        /\ pubok' \in {pubok, FALSE}
     \/ /\ pubok
        /\ pubok' = FALSE
        /\ UNCHANGED <<conn, link>>
  /\ UNCHANGED <<subscribeVars, queue, missing, producers, publishers, offered, published>>

-----------------------------------------------------------------------------
(* Steps of Subscriptions.  Messages arrive while the loop serves.         *)
LoadSubscriptions == Load /\ UNCHANGED pubVars

subcribe_callback(r) ==
  /\ conn = "serve"
  /\ parse_subscribe_conditon(r)
  /\ disturbed' = [p \in Publishers |-> disturbed[p] \/ wpc[p] \in {"scan", "publish"}]
  /\ UNCHANGED <<queue, missing, producers, connection, wpc, inhand, ahead, ids,
                 offered, published>>

persitence_subscribe_file ==
  /\ OpenSubscribeFile \/ WriteSubscribeFile
  /\ UNCHANGED pubVars

Die ==
  /\ Kill
  /\ queue' = <<>> /\ missing' = 0
  /\ ppc' = [w \in Producers |-> "idle"]
  /\ link' = FALSE /\ conn' = "connect" /\ pubok' = FALSE
  /\ wpc' = [p \in Publishers |-> "off"]
  /\ UNCHANGED <<prec, inhand, ahead, ids, disturbed, offered, published, losses>>

EventLoop == LoadSubscriptions \/ connect_redis \/ start_publish_work \/ persitence_subscribe_file

Next ==
  \/ EventLoop \/ Disconnect \/ Die
  \/ \E r \in Requests : subcribe_callback(r)
  \/ \E w \in Producers : PushEnd(w) \/ \E r \in Records : PushBegin(w, r)
  \/ \E p \in Publishers : publish_work_thread(p)

Spec == Init /\ [][Next]_vars

(* The threads keep running, and redis comes back. *)
FairSpec ==
  /\ Spec
  /\ WF_vars(EventLoop)
  /\ \A p \in Publishers : WF_vars(publish_work_thread(p))

-----------------------------------------------------------------------------
(* The queue never holds more than the limit plus one record for each      *)
(* writer but one that had looked at the size before, and its size never   *)
(* goes further below zero than the publishers that had.                   *)
SizeBounded ==
  /\ Size <= MaxBuffer + Cardinality(Producers) - 1
  /\ -Size <= Cardinality(Publishers) - 1

(* The inductive invariant behind it: who is past the test still counts.   *)
PastTest == {w \in Producers : ppc[w] = "push"}
PastTake == {p \in Publishers : wpc[p] \in {"front", "pop"}}

PubInv ==
  /\ TypeOK
  /\ missing > 0 => queue = <<>>
  /\ Size + Cardinality(PastTest) <= MaxBuffer + Cardinality(Producers) - 1
  /\ Cardinality(PastTake) - Size <= Cardinality(Publishers) - 1

(* A record goes to exactly the customers whose subscription selects it,   *)
(* unless the table changed while they were collected.                     *)
PublishedToSubscribers ==
  \A p \in Publishers :
    wpc[p] = "publish" /\ ~disturbed[p] => ids[p] = {i \in Live : inhand[p] \in table[i].selects}

(* With one publisher at a time, publication is a lossy queue: in order,   *)
(* at most once, bounded.                                                  *)
Carried ==
  LET busy == {p \in Publishers : wpc[p] \in {"scan", "publish"}}
  IN  IF busy = {} THEN <<>> ELSE <<inhand[CHOOSE p \in busy : TRUE]>>

Published == [n \in 1 .. Len(published) |-> published[n].record]

Channel ==
  INSTANCE LossyQueue WITH
    Records   <- Records,
    Limit     <- MaxBuffer + Cardinality(Producers),
    waiting   <- Carried \o queue,
    delivered <- Published

PublishesInOrder == Channel!Spec

(* A record in the queue is taken out, whatever connections are lost.      *)
QueuedIsTaken ==
  \A r \in Records : (\E n \in 1 .. Len(queue) : queue[n] = r)
                       ~> ~ \E n \in 1 .. Len(queue) : queue[n] = r
=============================================================================
