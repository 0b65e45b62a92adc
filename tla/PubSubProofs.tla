---------------------------- MODULE PubSubProofs ----------------------------
(***************************************************************************)
(* Of the handling of subscriptions by itself: SubscribeInv is inductive   *)
(* for any customers, records, requests and bounds; from it, no restart    *)
(* changes a subscription but in the ways the comment on SubscriptionsKept *)
(* names.                                                                  *)
(*                                                                         *)
(* Of publication, for any producers, publishers, customers and bounds:    *)
(* the size of the publish queue stays within its bounds (from PubInv,     *)
(* which counts the threads that have looked at the size and not yet acted *)
(* on it), and publication does not disturb the handling of subscriptions. *)
(* With one publisher at a time, publication implements LossyQueue.  With  *)
(* any number, a record goes to exactly its subscribers: an iteration      *)
(* visits the customers in some order, of which the ones left have a least. *)
(***************************************************************************)
EXTENDS PubSub, FiniteSetTheorems, SequenceTheorems, WellFoundedInduction, TLAPS

-----------------------------------------------------------------------------
(* subscriptions *)

LEMMA ConditionTypes ==
  /\ None \notin Condition
  /\ \A c \in Condition : c.type \in StoredTypes \cup {"other"}
  /\ None.type = "none"
BY DEF None, Condition, StoredTypes

(* What a request puts in the table has the type of the table, and a       *)
(* request that is no polygon leaves something that can be saved.          *)
LEMMA EntryTypes ==
  ASSUME NEW r \in Requests, NEW c \in NewEntries(r), Accepts(r)
  PROVE  /\ r.id \in Customers
         /\ c \in Condition \cup {None}
         /\ r.type # "polygon" => c.type \in StoredTypes \cup {"none"}
<1>1. r \in Request
  BY SubscribeAssumption
<1>2. CASE r.type = "unsub"
  BY <1>1, <1>2 DEF NewEntries, Request, None
<1>3. CASE r.type = "polygon"
  <2>1. Uninitialised \subseteq Condition
    BY DEF Uninitialised, Condition, StoredTypes
  <2>2. QED
    BY <1>1, <1>3, <2>1 DEF NewEntries, Request
<1>4. CASE r.type \notin {"unsub", "polygon"}
  <2>1. c = Entry(r)
    BY <1>4 DEF NewEntries
  <2>2. r.type \in StoredTypes
    BY <1>1, <1>4 DEF Accepts, Request
  <2>3. QED
    BY <1>1, <2>1, <2>2 DEF Entry, Condition, Request, StoredTypes
<1>5. QED
  BY <1>2, <1>3, <1>4

(* What can be saved is saved as it is, and read back as it is unless it   *)
(* is a rectangle or is not read at all.                                   *)
LEMMA SavedAsItIs ==
  ASSUME NEW c \in Condition \cup {None}
  PROVE  /\ Saved(c) \in Condition \cup {None}
         /\ c.type \in StoredTypes \cup {"none"} => Saved(c) = c
BY ConditionTypes DEF Saved

LEMMA ReadAsItIs ==
  ASSUME NEW f \in Table, NEW i \in Customers,
         i \notin Unread(f), i \notin Rectangles(f)
  PROVE  ReadBack(f, i) = {f[i]}
BY DEF ReadBack, Reloaded, Rectangles

LEMMA LoadKeeps ==
  ASSUME SubscribeInv, Load PROVE SubscribeInv'
<1> USE DEF SubscribeInv
<1>1. SubscribeTypeOK'
  BY DEF Load, SubscribeTypeOK, Unread, Rectangles
<1>2. SubscriptionsKept'
  <2> SUFFICES ASSUME NEW i \in Customers, i \notin exempt' PROVE table'[i] = wanted'[i]
    BY DEF SubscriptionsKept
  <2>1. subfile \in Table /\ i \notin exempt /\ i \notin Unread(subfile) /\ i \notin Rectangles(subfile)
    BY DEF Load, SubscribeTypeOK
  <2>2. table'[i] \in {subfile[i]}
    BY <2>1, ReadAsItIs DEF Load
  <2>3. subfile[i] = wanted[i]
    BY <2>1 DEF FileKeepsWanted, Load
  <2>4. QED
    BY <2>2, <2>3 DEF Load
<1>3. FileKeepsWanted' /\ FileBehindCurrent' /\ WantedIsSaved'
  BY DEF Load, FileKeepsWanted, FileBehindCurrent, WantedIsSaved
<1>4. QED
  BY <1>1, <1>2, <1>3

LEMMA RequestKeeps ==
  ASSUME SubscribeInv, NEW r \in Requests, parse_subscribe_conditon(r) PROVE SubscribeInv'
<1> USE DEF SubscribeInv
<1>1. PICK c \in NewEntries(r) : /\ table' = [table EXCEPT ![r.id] = c]
                                 /\ wanted' = [wanted EXCEPT ![r.id] = c]
  BY DEF parse_subscribe_conditon
<1>2. Accepts(r) /\ spc = "idle" /\ spc' = "truncate" /\ current' = r.id
  BY DEF parse_subscribe_conditon, AfterRequest
<1>3. /\ r.id \in Customers
      /\ c \in Condition \cup {None}
      /\ r.type # "polygon" => c.type \in StoredTypes \cup {"none"}
  BY <1>2, EntryTypes
<1>4. /\ exempt' \subseteq exempt \cup {r.id}
      /\ exempt \ {r.id} \subseteq exempt'
      /\ r.type = "polygon" => r.id \in exempt'
  BY DEF parse_subscribe_conditon
<1>5. UNCHANGED <<subfile, crashes, fails>>
  BY DEF parse_subscribe_conditon
<1>6. SubscribeTypeOK'
  BY <1>1, <1>2, <1>3, <1>4, <1>5 DEF SubscribeTypeOK, Table
<1>7. \A i \in Customers \ {r.id} : table'[i] = table[i] /\ wanted'[i] = wanted[i]
  BY <1>1 DEF SubscribeTypeOK, Table
<1>8. table'[r.id] = c /\ wanted'[r.id] = c
  BY <1>1, <1>3 DEF SubscribeTypeOK, Table
<1>9. SubscriptionsKept'
  BY <1>2, <1>3, <1>4, <1>7, <1>8 DEF SubscriptionsKept
<1>10. FileKeepsWanted' /\ FileBehindCurrent'
  BY <1>2, <1>3, <1>4, <1>5, <1>7 DEF FileKeepsWanted, FileBehindCurrent
<1>11. WantedIsSaved'
  BY <1>3, <1>4, <1>7, <1>8 DEF WantedIsSaved
<1>12. QED
  BY <1>6, <1>9, <1>10, <1>11

LEMMA OpenKeeps ==
  ASSUME SubscribeInv, OpenSubscribeFile PROVE SubscribeInv'
<1> USE DEF SubscribeInv
<1>1. Nobody \in Table
  BY DEF Nobody, Table
<1>2. SubscribeTypeOK'
  <2>1. fails' \in 0 .. MaxFails
    BY SubscribeAssumption DEF OpenSubscribeFile, SubscribeTypeOK
  <2>2. subfile' \in Table
    BY <1>1 DEF OpenSubscribeFile, SubscribeTypeOK
  <2>3. exempt' \subseteq Customers /\ spc' \in {"down", "idle", "truncate", "write"}
    BY DEF OpenSubscribeFile, SubscribeTypeOK
  <2>4. UNCHANGED <<table, current, wanted, crashes>>
    BY DEF OpenSubscribeFile
  <2>5. QED
    BY <2>1, <2>2, <2>3, <2>4 DEF SubscribeTypeOK
<1>3. SubscriptionsKept' /\ FileKeepsWanted' /\ FileBehindCurrent' /\ WantedIsSaved'
  BY DEF OpenSubscribeFile, SubscribeTypeOK, SubscriptionsKept, FileKeepsWanted,
         FileBehindCurrent, WantedIsSaved
<1>4. QED
  BY <1>2, <1>3

LEMMA WriteKeeps ==
  ASSUME SubscribeInv, WriteSubscribeFile PROVE SubscribeInv'
<1> USE DEF SubscribeInv
<1>1. \A i \in Customers : table[i] \in Condition \cup {None}
  BY DEF SubscribeTypeOK, Table
<1>2. subfile' = [i \in Customers |-> Saved(table[i])]
  BY DEF WriteSubscribeFile
<1>3. subfile' \in Table
  BY <1>1, <1>2, SavedAsItIs DEF Table
<1>4. SubscribeTypeOK'
  BY <1>3 DEF WriteSubscribeFile, SubscribeTypeOK
<1>5. spc = "write" /\ spc' = "idle" /\ UNCHANGED <<table, current, wanted, exempt, crashes, fails>>
  BY DEF WriteSubscribeFile
<1>6. SubscriptionsKept' /\ FileBehindCurrent' /\ WantedIsSaved'
  BY <1>5 DEF SubscriptionsKept, FileBehindCurrent, WantedIsSaved
<1>7. FileKeepsWanted'
  <2> SUFFICES ASSUME NEW i \in Customers, i \notin exempt PROVE subfile'[i] = wanted[i]
    BY <1>5 DEF FileKeepsWanted
  <2>1. table[i] = wanted[i] /\ wanted[i].type \in StoredTypes \cup {"none"}
    BY <1>5 DEF SubscriptionsKept, WantedIsSaved
  <2>2. Saved(table[i]) = table[i]
    BY <1>1, <2>1, SavedAsItIs
  <2>3. QED
    BY <1>2, <2>1, <2>2
<1>8. QED
  BY <1>4, <1>6, <1>7

LEMMA KillKeeps ==
  ASSUME SubscribeInv, Kill PROVE SubscribeInv'
<1> USE DEF SubscribeInv
<1>1. Nobody \in Table
  BY DEF Nobody, Table
<1>2. Endangered \subseteq Customers
  BY DEF Endangered, SubscribeTypeOK
<1>3. SubscribeTypeOK'
  <2>1. crashes' \in 0 .. MaxCrashes
    BY SubscribeAssumption DEF Kill, SubscribeTypeOK
  <2>2. QED
    BY <1>1, <1>2, <2>1 DEF Kill, SubscribeTypeOK
<1>4. SubscriptionsKept' /\ FileBehindCurrent' /\ WantedIsSaved'
  BY DEF Kill, SubscriptionsKept, FileBehindCurrent, WantedIsSaved
<1>5. FileKeepsWanted'
  BY DEF Kill, Endangered, SubscribeTypeOK, FileKeepsWanted, FileBehindCurrent
<1>6. QED
  BY <1>3, <1>4, <1>5

LEMMA SubscribeInvInit == SubscribeInit => SubscribeInv
<1> SUFFICES ASSUME SubscribeInit PROVE SubscribeInv
  OBVIOUS
<1>1. crashes \in 0 .. MaxCrashes /\ fails \in 0 .. MaxFails
  BY SubscribeAssumption DEF SubscribeInit
<1>2. SubscribeTypeOK
  BY <1>1 DEF SubscribeInit, SubscribeTypeOK, Nobody, Table
<1>3. SubscriptionsKept /\ FileKeepsWanted /\ FileBehindCurrent
  BY DEF SubscribeInit, SubscriptionsKept, FileKeepsWanted, FileBehindCurrent
<1>4. WantedIsSaved
  BY DEF SubscribeInit, WantedIsSaved, Nobody, None
<1>5. QED
  BY <1>2, <1>3, <1>4 DEF SubscribeInv

(* Every step keeps the invariant, so it always holds. *)
LEMMA SubscribeInvNext == SubscribeInv /\ [SubscribeNext]_subscribeVars => SubscribeInv'
<1> SUFFICES ASSUME SubscribeInv, [SubscribeNext]_subscribeVars PROVE SubscribeInv'
  OBVIOUS
<1>1. CASE UNCHANGED subscribeVars
  BY <1>1 DEF subscribeVars, SubscribeInv, SubscribeTypeOK, SubscriptionsKept,
              FileKeepsWanted, FileBehindCurrent, WantedIsSaved
<1>2. QED
  BY <1>1, LoadKeeps, RequestKeeps, OpenKeeps, WriteKeeps, KillKeeps DEF SubscribeNext

(* The inductive invariant of the subscription table and its file          *)
(* (gps_pubsun_manager.cpp).                                               *)
THEOREM SubscribeCorrect == SubscribeSpec => []SubscribeInv
BY SubscribeInvInit, SubscribeInvNext, PTL DEF SubscribeSpec

(* Subscriptions survive restarts, but for the losses SubscriptionsKept    *)
(* names.                                                                  *)
THEOREM SubscriptionsSurvive == SubscribeSpec => []SubscriptionsKept
<1>1. SubscribeInv => SubscriptionsKept
  BY DEF SubscribeInv
<1>2. QED
  BY SubscribeCorrect, <1>1, PTL

(* The file agrees with what customers asked for, between two requests and *)
(* while the process is dead.                                              *)
THEOREM FileKept == SubscribeSpec => []FileKeepsWanted
<1>1. SubscribeInv => FileKeepsWanted
  BY DEF SubscribeInv
<1>2. QED
  BY SubscribeCorrect, <1>1, PTL

-----------------------------------------------------------------------------
(* publication *)

LEMMA CardinalityAdds ==
  ASSUME NEW S, IsFiniteSet(S), NEW x, x \notin S
  PROVE  IsFiniteSet(S \cup {x}) /\ Cardinality(S \cup {x}) = Cardinality(S) + 1
BY FS_AddElement

LEMMA CardinalityRemoves ==
  ASSUME NEW S, IsFiniteSet(S), NEW x \in S
  PROVE  IsFiniteSet(S \ {x}) /\ Cardinality(S \ {x}) = Cardinality(S) - 1
BY FS_RemoveElement

(* The counted sets are parts of finite, non-empty sets.                   *)
LEMMA CountedSets ==
  /\ IsFiniteSet(PastTest) /\ Cardinality(PastTest) \in Nat
  /\ Cardinality(PastTest) <= Cardinality(Producers)
  /\ IsFiniteSet(PastTake) /\ Cardinality(PastTake) \in Nat
  /\ Cardinality(PastTake) <= Cardinality(Publishers)
<1>1. PastTest \subseteq Producers /\ PastTake \subseteq Publishers
  BY DEF PastTest, PastTake
<1>2. QED
  BY <1>1, PubSubAssumption, FS_Subset, FS_CardinalityType

LEMMA AtLeastOne ==
  /\ Cardinality(Producers) \in Nat \ {0}
  /\ Cardinality(Publishers) \in Nat \ {0}
  /\ MaxBuffer \in Nat \ {0}
<1>1. Cardinality(Producers) \in Nat /\ Cardinality(Publishers) \in Nat
  BY PubSubAssumption, FS_CardinalityType
<1>2. Cardinality(Producers) # 0 /\ Cardinality(Publishers) # 0
  BY PubSubAssumption, FS_EmptySet
<1>3. QED
  BY <1>1, <1>2, PubSubAssumption

-----------------------------------------------------------------------------
(* Publication leaves the subscriptions to their own module.               *)
LEMMA StepSubscribes == [Next]_vars => [SubscribeNext]_subscribeVars
<1> SUFFICES ASSUME [Next]_vars PROVE [SubscribeNext]_subscribeVars
  OBVIOUS
<1>1. CASE UNCHANGED vars
  BY <1>1 DEF vars
<1>2. CASE EventLoop
  BY <1>2 DEF EventLoop, LoadSubscriptions, connect_redis, start_publish_work,
              persitence_subscribe_file, SubscribeNext
<1>3. CASE Disconnect
  BY <1>3 DEF Disconnect
<1>4. CASE Die
  BY <1>4 DEF Die, SubscribeNext
<1>5. ASSUME NEW r \in Requests, subcribe_callback(r) PROVE SubscribeNext
  BY <1>5 DEF subcribe_callback, SubscribeNext
<1>6. ASSUME NEW w \in Producers, PushEnd(w) \/ \E r \in Records : PushBegin(w, r)
      PROVE  UNCHANGED subscribeVars
  BY <1>6 DEF PushBegin, PushEnd
<1>7. ASSUME NEW p \in Publishers, publish_work_thread(p) PROVE UNCHANGED subscribeVars
  BY <1>7 DEF publish_work_thread, CheckLink, Front, Pop, Scan, publish_msg
<1>8. QED
  BY <1>1, <1>2, <1>3, <1>4, <1>5, <1>6, <1>7 DEF Next

(* The composed system behaves, as far as subscriptions go, like           *)
(* Subscriptions alone: a message that arrives while publishers iterate is *)
(* handled like any other.                                                 *)
THEOREM ComposesSubscriptions == Spec => SubscribeSpec
<1>1. Init => SubscribeInit
  BY DEF Init
<1>2. QED
  BY <1>1, StepSubscribes, PTL DEF Spec, SubscribeSpec

(* Subscriptions survive restarts also while records are published.        *)
THEOREM SubscriptionsSurviveHere == Spec => []SubscriptionsKept
BY ComposesSubscriptions, SubscriptionsSurvive, PTL

-----------------------------------------------------------------------------
(* PubInv, one lemma per action.  First the steps that move neither the    *)
(* queue nor the threads that count.                                       *)
Counts == <<queue, missing, PastTest, PastTake>>

LEMMA CountsKept ==
  ASSUME PubInv, TypeOK', Counts' = Counts
  PROVE  PubInv'
BY DEF PubInv, Counts, Size

LEMMA PushBeginKeeps ==
  ASSUME PubInv, NEW w \in Producers, NEW r \in Records, PushBegin(w, r)
  PROVE  PubInv'
<1> USE DEF PubInv
<1>1. TypeOK'
  BY DEF TypeOK, PushBegin, subscribeVars, producers, connection, publishers
<1>2. UNCHANGED <<queue, missing, wpc>>
  BY DEF PushBegin, publishers
<1>3. PastTake' = PastTake
  BY <1>2 DEF PastTake
<1>4. CASE ~Fits
  <2>1. UNCHANGED ppc
    BY <1>4 DEF PushBegin, producers
  <2>2. PastTest' = PastTest
    BY <2>1 DEF PastTest
  <2>3. QED
    BY <1>1, <1>2, <1>3, <2>2, CountsKept DEF Counts
<1>5. CASE Fits
  <2>1. Len(queue) \in Nat /\ missing \in Nat
    BY DEF TypeOK
  <2>2. Size \in Int /\ Size < MaxBuffer /\ Size' = Size
    BY <1>2, <1>5, <2>1 DEF Size, Fits
  <2>3. Cardinality(PastTest)' \in Nat /\ Cardinality(PastTest)' <= Cardinality(Producers)
    <3>1. PastTest' \subseteq Producers
      BY DEF PastTest
    <3>2. QED
      BY <3>1, PubSubAssumption, FS_Subset, FS_CardinalityType
  <2>4. Size' + Cardinality(PastTest)' <= MaxBuffer + Cardinality(Producers) - 1
    BY <2>2, <2>3, AtLeastOne
  <2>5. QED
    BY <1>1, <1>2, <1>3, <2>2, <2>4
<1>6. QED
  BY <1>4, <1>5

LEMMA PushEndKeeps ==
  ASSUME PubInv, NEW w \in Producers, PushEnd(w)
  PROVE  PubInv'
<1> USE DEF PubInv
<1>1. ppc[w] = "push" /\ ppc' = [ppc EXCEPT ![w] = "idle"] /\ UNCHANGED <<wpc, prec>>
  BY DEF PushEnd, publishers
<1>2. PastTake' = PastTake
  BY <1>1 DEF PastTake
<1>3. PastTest' = PastTest \ {w} /\ w \in PastTest
  BY <1>1 DEF PastTest, TypeOK
<1>4. Cardinality(PastTest)' = Cardinality(PastTest) - 1
  BY <1>3, CountedSets, CardinalityRemoves
<1>5. /\ queue' \in Seq(Records) /\ missing' \in Nat
      /\ Size' \in Int /\ Size <= Size' /\ Size' <= Size + 1
      /\ missing' > 0 => queue' = <<>>
  <2>1. queue \in Seq(Records) /\ prec[w] \in Records /\ missing \in Nat /\ Len(queue) \in Nat
    BY DEF TypeOK
  <2>2. CASE missing = 0 /\ queue' = Append(queue, prec[w]) /\ missing' = missing
    BY <2>1, <2>2 DEF Size
  <2>3. CASE missing > 0 /\ missing' = missing - 1 /\ queue' = queue
    BY <2>1, <2>3 DEF Size
  <2>4. CASE queue' = queue /\ missing' = missing
    BY <2>1, <2>4 DEF Size
  <2>5. QED
    BY <2>2, <2>3, <2>4 DEF PushEnd
<1>6. TypeOK'
  BY <1>1, <1>5 DEF TypeOK, PushEnd, connection, publishers
<1>7. Size \in Int
  BY DEF Size, TypeOK
<1>8. QED
  BY <1>2, <1>4, <1>5, <1>6, <1>7, CountedSets, AtLeastOne

LEMMA CheckLinkKeeps ==
  ASSUME PubInv, NEW p \in Publishers, CheckLink(p)
  PROVE  PubInv'
<1> USE DEF PubInv
<1>1. TypeOK'
  BY DEF TypeOK, CheckLink, Goto, producers, connection
<1>2. UNCHANGED <<queue, missing, ppc>>
  BY DEF CheckLink, producers
<1>3. PastTest' = PastTest
  BY <1>2 DEF PastTest
<1>4. CASE wpc'[p] # "front"
  <2>1. PastTake' = PastTake
    BY <1>4 DEF PastTake, CheckLink, Goto, TypeOK
  <2>2. QED
    BY <1>1, <1>2, <1>3, <2>1, CountsKept DEF Counts
<1>5. CASE wpc'[p] = "front"
  <2>1. Len(queue) \in Nat /\ missing \in Nat
    BY DEF TypeOK
  <2>2. Size \in Int /\ Size >= 1 /\ Size' = Size
    <3>1. ~QueueEmpty
      BY <1>5 DEF CheckLink, Goto, TypeOK
    <3>2. QED
      BY <1>2, <2>1, <3>1 DEF QueueEmpty, Size
  <2>3. Cardinality(PastTake)' \in Nat /\ Cardinality(PastTake)' <= Cardinality(Publishers)
    <3>1. PastTake' \subseteq Publishers
      BY DEF PastTake
    <3>2. QED
      BY <3>1, PubSubAssumption, FS_Subset, FS_CardinalityType
  <2>4. Cardinality(PastTake)' - Size' <= Cardinality(Publishers) - 1
    BY <2>2, <2>3, AtLeastOne
  <2>5. QED
    BY <1>1, <1>2, <1>3, <2>2, <2>4
<1>6. QED
  BY <1>4, <1>5

LEMMA FrontKeeps ==
  ASSUME PubInv, NEW p \in Publishers, Front(p)
  PROVE  PubInv'
<1> USE DEF PubInv
<1>1. TypeOK'
  BY DEF TypeOK, Front, Goto, producers, connection
<1>2. UNCHANGED <<queue, missing, ppc>> /\ wpc[p] = "front" /\ wpc' = [wpc EXCEPT ![p] = "pop"]
  BY DEF Front, Goto, producers
<1>3. PastTest' = PastTest /\ PastTake' = PastTake
  BY <1>2 DEF PastTest, PastTake, TypeOK
<1>4. QED
  BY <1>1, <1>2, <1>3, CountsKept DEF Counts

LEMMA PopKeeps ==
  ASSUME PubInv, NEW p \in Publishers, Pop(p)
  PROVE  PubInv'
<1> USE DEF PubInv
<1>1. UNCHANGED ppc /\ wpc[p] = "pop" /\ wpc' = [wpc EXCEPT ![p] = "scan"]
  BY DEF Pop, Goto, producers
<1>2. PastTest' = PastTest
  BY <1>1 DEF PastTest
<1>3. PastTake' = PastTake \ {p} /\ p \in PastTake
  BY <1>1 DEF PastTake, TypeOK
<1>4. Cardinality(PastTake)' = Cardinality(PastTake) - 1
  BY <1>3, CountedSets, CardinalityRemoves
<1>5. queue \in Seq(Records) /\ missing \in Nat /\ Len(queue) \in Nat
  BY DEF TypeOK
<1>6. /\ queue' \in Seq(Records) /\ missing' \in Nat
      /\ Size' = Size - 1
      /\ missing' > 0 => queue' = <<>>
  <2>1. CASE queue = <<>>
    BY <1>5, <2>1 DEF Pop, Size
  <2>2. CASE queue # <<>>
    BY <1>5, <2>2 DEF Pop, Size
  <2>3. QED
    BY <2>1, <2>2
<1>7. TypeOK'
  BY <1>1, <1>6 DEF TypeOK, Pop, producers, connection
<1>8. Size \in Int
  BY <1>5 DEF Size
<1>9. QED
  BY <1>2, <1>4, <1>6, <1>7, <1>8, CountedSets, AtLeastOne

LEMMA ScanKeeps ==
  ASSUME PubInv, NEW p \in Publishers, Scan(p)
  PROVE  PubInv'
<1> USE DEF PubInv
<1>1. UNCHANGED <<queue, missing, ppc>>
  BY DEF Scan, producers
<1>2. wpc[p] = "scan" /\ \/ wpc' = wpc
                         \/ wpc' = [wpc EXCEPT ![p] = "publish"]
                         \/ wpc' = [wpc EXCEPT ![p] = "check"]
  BY DEF Scan, Visit, EndScan, Goto
<1>3. PastTest' = PastTest /\ PastTake' = PastTake
  BY <1>1, <1>2 DEF PastTest, PastTake, TypeOK
<1>4. ahead' \in [Publishers -> SUBSET Customers] /\ ids' \in [Publishers -> SUBSET Customers]
  BY DEF Scan, Visit, EndScan, TypeOK, Live
<1>5. TypeOK'
  BY <1>1, <1>2, <1>4 DEF TypeOK, Scan, producers, connection
<1>6. QED
  BY <1>1, <1>3, <1>5, CountsKept DEF Counts

LEMMA PublishKeeps ==
  ASSUME PubInv, NEW p \in Publishers, publish_msg(p)
  PROVE  PubInv'
<1> USE DEF PubInv
<1>1. UNCHANGED <<queue, missing, ppc>> /\ wpc[p] = "publish" /\ wpc' = [wpc EXCEPT ![p] = "check"]
  BY DEF publish_msg, Goto, producers
<1>2. PastTest' = PastTest /\ PastTake' = PastTake
  BY <1>1 DEF PastTest, PastTake, TypeOK
<1>3. published' \in Seq([record : Records, ids : SUBSET Customers])
  <2>1. [record |-> inhand[p], ids |-> ids[p]] \in [record : Records, ids : SUBSET Customers]
    BY DEF TypeOK
  <2>2. CASE published' = Append(published, [record |-> inhand[p], ids |-> ids[p]])
    BY <2>1, <2>2 DEF TypeOK
  <2>3. CASE UNCHANGED published
    BY <2>3 DEF TypeOK
  <2>4. QED
    BY <2>2, <2>3 DEF publish_msg
<1>4. TypeOK'
  BY <1>1, <1>3 DEF TypeOK, publish_msg, producers, connection
<1>5. QED
  BY <1>1, <1>2, <1>4, CountsKept DEF Counts

(* The event loop: no thread that counts moves.                            *)
LEMMA EventLoopKeeps ==
  ASSUME PubInv,
         EventLoop \/ Disconnect \/ \E r \in Requests : subcribe_callback(r)
  PROVE  PubInv'
<1> USE DEF PubInv
<1>1. UNCHANGED <<queue, missing, ppc>>
  BY DEF EventLoop, LoadSubscriptions, connect_redis, start_publish_work,
         persitence_subscribe_file, Disconnect, subcribe_callback, pubVars, producers
<1>2. \/ wpc' = wpc
      \/ \E p \in Publishers : wpc[p] = "off" /\ wpc' = [wpc EXCEPT ![p] = "check"]
  BY DEF EventLoop, LoadSubscriptions, connect_redis, start_publish_work, Goto, StartedAt,
         persitence_subscribe_file, Disconnect, subcribe_callback, pubVars, publishers
<1>3. PastTest' = PastTest
  BY <1>1 DEF PastTest
<1>4. PastTake' = PastTake
  BY <1>2 DEF PastTake, TypeOK
<1>5. TypeOK'
  <2>1. CASE LoadSubscriptions \/ persitence_subscribe_file
    BY <2>1 DEF LoadSubscriptions, persitence_subscribe_file, pubVars, producers,
                connection, publishers, TypeOK
  <2>2. CASE connect_redis
    BY <2>2 DEF connect_redis, producers, publishers, TypeOK
  <2>3. CASE start_publish_work
    BY <2>3 DEF start_publish_work, Goto, StartedAt, producers, TypeOK
  <2>4. CASE Disconnect
    <3>1. losses' \in 0 .. MaxLosses
      BY <2>4, PubSubAssumption DEF Disconnect, TypeOK
    <3>2. pubok' \in BOOLEAN /\ conn' \in {"connect", "connected", "serve"} /\ link' \in BOOLEAN
      BY <2>4 DEF Disconnect, TypeOK
    <3>3. UNCHANGED <<queue, missing, producers, publishers, offered, published>>
      BY <2>4 DEF Disconnect
    <3>4. QED
      BY <3>1, <3>2, <3>3 DEF producers, publishers, TypeOK
  <2>5. CASE \E r \in Requests : subcribe_callback(r)
    <3>1. disturbed' \in [Publishers -> BOOLEAN]
      BY <2>5 DEF subcribe_callback
    <3>2. UNCHANGED <<queue, missing, producers, connection, wpc, inhand, ahead, ids,
                      offered, published>>
      BY <2>5 DEF subcribe_callback
    <3>3. QED
      BY <3>1, <3>2 DEF producers, connection, TypeOK
  <2>6. QED
    BY <2>1, <2>2, <2>3, <2>4, <2>5 DEF EventLoop
<1>6. QED
  BY <1>1, <1>3, <1>4, <1>5, CountsKept DEF Counts

(* Init and Die leave an empty queue and nobody who counts.                *)
LEMMA NobodyCounts ==
  ASSUME TypeOK, queue = <<>>, missing = 0, PastTest = {}, PastTake = {}
  PROVE  PubInv
<1>1. Cardinality(PastTest) = 0 /\ Cardinality(PastTake) = 0
  BY FS_EmptySet
<1>2. Size = 0
  BY DEF Size
<1>3. QED
  BY <1>1, <1>2, AtLeastOne DEF PubInv

LEMMA DieKeeps ==
  ASSUME PubInv, Die
  PROVE  PubInv'
<1>1. TypeOK'
  <2>1. queue' \in Seq(Records) /\ missing' \in Nat
    BY DEF Die
  <2>2. ppc' \in [Producers -> {"idle", "push"}]
    BY DEF Die
  <2>3. wpc' \in [Publishers -> {"off", "check", "front", "pop", "scan", "publish"}]
    BY DEF Die
  <2>4. link' \in BOOLEAN /\ pubok' \in BOOLEAN /\ conn' \in {"connect", "connected", "serve"}
    BY DEF Die
  <2>5. UNCHANGED <<prec, inhand, ahead, ids, disturbed, offered, published, losses>>
    BY DEF Die
  <2>6. QED
    BY <2>1, <2>2, <2>3, <2>4, <2>5 DEF PubInv, TypeOK
<1>2. queue' = <<>> /\ missing' = 0 /\ PastTest' = {} /\ PastTake' = {}
  BY DEF Die, PastTest, PastTake
<1>3. Cardinality(PastTest)' = 0 /\ Cardinality(PastTake)' = 0
  BY <1>2, FS_EmptySet
<1>4. Size' = 0
  BY <1>2 DEF Size
<1>5. QED
  BY <1>1, <1>2, <1>3, <1>4, AtLeastOne DEF PubInv

LEMMA PubInvInit == Init => PubInv
<1> SUFFICES ASSUME Init PROVE PubInv
  OBVIOUS
<1>1. losses \in 0 .. MaxLosses
  BY PubSubAssumption DEF Init
<1>2. TypeOK
  <2>1. queue \in Seq(Records) /\ missing \in Nat /\ offered \subseteq Records
    BY DEF Init
  <2>2. ppc \in [Producers -> {"idle", "push"}] /\ prec \in [Producers -> Records]
    BY DEF Init
  <2>3. wpc \in [Publishers -> {"off", "check", "front", "pop", "scan", "publish"}]
    BY DEF Init
  <2>4. /\ inhand \in [Publishers -> Records]
        /\ ahead \in [Publishers -> SUBSET Customers]
        /\ ids \in [Publishers -> SUBSET Customers]
        /\ disturbed \in [Publishers -> BOOLEAN]
    BY DEF Init
  <2>5. link \in BOOLEAN /\ pubok \in BOOLEAN /\ conn \in {"connect", "connected", "serve"}
    BY DEF Init
  <2>6. published \in Seq([record : Records, ids : SUBSET Customers])
    BY DEF Init
  <2>7. QED
    BY <1>1, <2>1, <2>2, <2>3, <2>4, <2>5, <2>6 DEF TypeOK
<1>3. PastTest = {} /\ PastTake = {}
  BY DEF Init, PastTest, PastTake
<1>4. QED
  BY <1>2, <1>3, NobodyCounts DEF Init

LEMMA PubInvNext == PubInv /\ [Next]_vars => PubInv'
<1> SUFFICES ASSUME PubInv, [Next]_vars PROVE PubInv'
  OBVIOUS
<1>1. CASE UNCHANGED vars
  BY <1>1 DEF vars, pubVars, producers, connection, publishers, PubInv, TypeOK, Size,
              PastTest, PastTake
<1>2. CASE Next
  BY <1>2, EventLoopKeeps, DieKeeps, PushBeginKeeps, PushEndKeeps, CheckLinkKeeps,
     FrontKeeps, PopKeeps, ScanKeeps, PublishKeeps
     DEF Next, publish_work_thread
<1>3. QED
  BY <1>1, <1>2

(* The inductive invariant of the publish queue (gps_pubsun_manager.cpp    *)
(* push, hiredis_proxy.cpp publish_work_thread).                           *)
THEOREM PubInvCorrect == Spec => []PubInv
BY PubInvInit, PubInvNext, PTL DEF Spec

(* The size of the queue stays within its bounds for any number of         *)
(* producers, publishers and reconnections.                                *)
THEOREM QueueBounded == Spec => []SizeBounded
<1>1. PubInv => SizeBounded
  <2> SUFFICES ASSUME PubInv PROVE SizeBounded
    OBVIOUS
  <2>1. Size \in Int
    BY DEF PubInv, TypeOK, Size
  <2>2. QED
    BY <2>1, CountedSets, AtLeastOne DEF PubInv, SizeBounded
<1>2. QED
  BY PubInvCorrect, <1>1, PTL

-----------------------------------------------------------------------------
(* The refinement, for one publisher at a time.  What it holds between the *)
(* copy and the pop is the record at the front.                            *)
OnePublisher == \A p, q \in Publishers : p = q

HoldsFront == \A p \in Publishers : wpc[p] = "pop" => inhand[p] = Head(queue)

LEMMA OneThread ==
  ASSUME OnePublisher
  PROVE  \E p \in Publishers : Publishers = {p}
BY PubSubAssumption DEF OnePublisher

LEMMA CarriedIs ==
  ASSUME NEW p, Publishers = {p}
  PROVE  /\ Carried = IF wpc[p] \in {"scan", "publish"} THEN <<inhand[p]>> ELSE <<>>
         /\ Carried' = IF wpc'[p] \in {"scan", "publish"} THEN <<inhand'[p]>> ELSE <<>>
<1>1. ASSUME NEW pc, NEW hand
      PROVE  LET busy == {q \in Publishers : pc[q] \in {"scan", "publish"}}
             IN  (IF busy = {} THEN <<>> ELSE <<hand[CHOOSE q \in busy : TRUE]>>)
                   = IF pc[p] \in {"scan", "publish"} THEN <<hand[p]>> ELSE <<>>
  <2> DEFINE busy == {q \in Publishers : pc[q] \in {"scan", "publish"}}
  <2>1. CASE pc[p] \in {"scan", "publish"}
    <3>1. busy = {p}
      BY <2>1
    <3>2. (CHOOSE q \in busy : TRUE) = p
      BY <3>1
    <3>3. QED
      BY <2>1, <3>1, <3>2
  <2>2. CASE pc[p] \notin {"scan", "publish"}
    <3>1. busy = {}
      BY <2>2
    <3>2. QED
      BY <2>2, <3>1
  <2>3. QED
    BY <2>1, <2>2
<1>2. QED
  BY <1>1 DEF Carried

(* One publisher never pops the empty queue. *)
LEMMA NeverMissing ==
  ASSUME PubInv, NEW p, Publishers = {p}
  PROVE  /\ missing = 0
         /\ wpc[p] \in {"front", "pop"} => queue # <<>>
<1>1. Cardinality(Publishers) = 1
  BY FS_Singleton
<1>2. missing \in Nat /\ Len(queue) \in Nat /\ queue \in Seq(Records)
  BY DEF PubInv, TypeOK
<1>3. Cardinality(PastTake) - Size <= 0 /\ Cardinality(PastTake) \in Nat
  BY <1>1, CountedSets DEF PubInv
<1>4. missing = 0
  <2>1. Size >= 0
    BY <1>2, <1>3 DEF Size
  <2>2. CASE missing > 0
    BY <1>2, <2>1, <2>2 DEF Size, PubInv
  <2>3. QED
    BY <1>2, <2>2
<1>5. ASSUME wpc[p] \in {"front", "pop"} PROVE queue # <<>>
  <2>1. PastTake = {p}
    BY <1>5 DEF PastTake
  <2>2. Cardinality(PastTake) = 1
    BY <2>1, FS_Singleton
  <2>3. Size >= 1
    BY <1>2, <1>3, <2>2 DEF Size
  <2>4. QED
    BY <1>2, <1>4, <2>3 DEF Size
<1>6. QED
  BY <1>4, <1>5

LEMMA HoldsFrontNext ==
  ASSUME PubInv, HoldsFront, [Next]_vars, NEW p, Publishers = {p}
  PROVE  HoldsFront'
<1> SUFFICES ASSUME wpc'[p] = "pop" PROVE inhand'[p] = Head(queue')
  BY DEF HoldsFront
<1> USE DEF HoldsFront
<1>1. CASE UNCHANGED vars
  BY <1>1 DEF vars, pubVars, publishers
<1>2. CASE EventLoop \/ Disconnect \/ \E r \in Requests : subcribe_callback(r)
  <2>1. UNCHANGED <<queue, inhand>>
    BY <1>2 DEF EventLoop, LoadSubscriptions, connect_redis, start_publish_work,
         persitence_subscribe_file, Disconnect, subcribe_callback, pubVars, publishers
  <2>2. wpc[p] = "pop"
    BY <1>2 DEF EventLoop, LoadSubscriptions, connect_redis, start_publish_work, Goto, StartedAt,
         persitence_subscribe_file, Disconnect, subcribe_callback, pubVars, publishers, PubInv, TypeOK
  <2>3. QED
    BY <2>1, <2>2
<1>3. CASE Die
  BY <1>3 DEF Die
<1>4. ASSUME NEW w \in Producers, NEW r \in Records, PushBegin(w, r) PROVE inhand'[p] = Head(queue')
  BY <1>4 DEF PushBegin, publishers
<1>5. ASSUME NEW w \in Producers, PushEnd(w) PROVE inhand'[p] = Head(queue')
  <2>1. UNCHANGED <<wpc, inhand>>
    BY <1>5 DEF PushEnd, publishers
  <2>2. queue # <<>>
    BY <2>1, NeverMissing
  <2>3. queue \in Seq(Records) /\ prec[w] \in Records
    BY DEF PubInv, TypeOK
  <2>4. Head(queue') = Head(queue)
    BY <1>5, <2>2, <2>3 DEF PushEnd
  <2>5. QED
    BY <2>1, <2>4
<1>6. ASSUME CheckLink(p) \/ Pop(p) \/ publish_msg(p) \/ Scan(p) PROVE inhand'[p] = Head(queue')
  BY <1>6 DEF CheckLink, Pop, publish_msg, Scan, Visit, EndScan, Goto, PubInv, TypeOK
<1>7. ASSUME Front(p) PROVE inhand'[p] = Head(queue')
  <2>1. queue # <<>>
    BY <1>7, NeverMissing DEF Front
  <2>2. QED
    BY <1>7, <2>1 DEF Front, FrontRecord, PubInv, TypeOK
<1>8. QED
  BY <1>1, <1>2, <1>3, <1>4, <1>5, <1>6, <1>7 DEF Next, publish_work_thread

(* How the mapped variables change. *)
Waiting == Carried \o queue

LEMMA Stutters ==
  ASSUME UNCHANGED <<wpc, inhand, queue, published>>
  PROVE  UNCHANGED <<Waiting, Published>>
BY DEF Waiting, Carried, Published

LEMMA PublishedAppends ==
  ASSUME TypeOK, NEW e \in [record : Records, ids : SUBSET Customers],
         published' = Append(published, e)
  PROVE  Published' = Append(Published, e.record)
<1>1. published \in Seq([record : Records, ids : SUBSET Customers])
  BY DEF TypeOK
<1>2. Len(published') = Len(published) + 1 /\ Len(published) \in Nat
  BY <1>1
<1>3. Published \in Seq(Records) /\ Len(Published) = Len(published)
  <2>1. ASSUME NEW n \in 1 .. Len(published) PROVE published[n].record \in Records
    <3>1. published[n] \in [record : Records, ids : SUBSET Customers]
      BY <1>1, ElementOfSeq
    <3>2. QED
      BY <3>1
  <2>2. Published \in [1 .. Len(published) -> Records]
    BY <2>1 DEF Published
  <2>3. QED
    BY <1>1, <1>2, <2>2
<1>4. Append(Published, e.record) = [n \in 1 .. Len(published) + 1 |->
        IF n \in 1 .. Len(published) THEN published[n].record ELSE e.record]
  BY <1>1, <1>3 DEF Published
<1>5. \A n \in 1 .. Len(published) + 1 :
        published'[n] = IF n \in 1 .. Len(published) THEN published[n] ELSE e
  BY <1>1, <1>2
<1>6. Published' = [n \in 1 .. Len(published) + 1 |-> published'[n].record]
  BY <1>2 DEF Published
<1>7. QED
  BY <1>4, <1>5, <1>6

LEMMA StepImplements ==
  ASSUME PubInv, HoldsFront, [Next]_vars, NEW p, Publishers = {p}
  PROVE  [Channel!Next]_<<Waiting, Published>>
<1>1. /\ queue \in Seq(Records) /\ Len(queue) \in Nat
      /\ inhand[p] \in Records /\ missing = 0
      /\ wpc \in [Publishers -> {"off", "check", "front", "pop", "scan", "publish"}]
  BY NeverMissing DEF PubInv, TypeOK
<1>2. CASE UNCHANGED vars
  BY <1>2, Stutters DEF vars, pubVars, publishers
<1>3. CASE LoadSubscriptions \/ persitence_subscribe_file \/ connect_redis \/ Disconnect
           \/ (\E w \in Producers, r \in Records : PushBegin(w, r))
           \/ (\E r \in Requests : subcribe_callback(r))
  <2>1. UNCHANGED <<wpc, inhand, queue, published>>
    BY <1>3 DEF LoadSubscriptions, persitence_subscribe_file, connect_redis, Disconnect,
                PushBegin, subcribe_callback, pubVars, publishers
  <2>2. QED
    BY <2>1, Stutters
<1>4. CASE start_publish_work \/ CheckLink(p) \/ Front(p)
  <2>1. UNCHANGED <<queue, published>>
    BY <1>4 DEF start_publish_work, CheckLink, Front
  <2>2. wpc[p] \notin {"scan", "publish"} /\ wpc'[p] \notin {"scan", "publish"}
    BY <1>1, <1>4 DEF start_publish_work, CheckLink, Front, Goto, StartedAt
  <2>3. Carried = <<>> /\ Carried' = <<>>
    BY <2>2, CarriedIs
  <2>4. QED
    BY <2>1, <2>3 DEF Waiting, Published
<1>5. CASE Die
  <2>1. UNCHANGED published /\ queue' = <<>> /\ wpc'[p] = "off"
    BY <1>5 DEF Die
  <2>2. Carried' = <<>>
    BY <2>1, CarriedIs
  <2>3. Waiting' = <<>> /\ UNCHANGED Published
    BY <2>1, <2>2 DEF Waiting, Published
  <2>4. Channel!Die
    BY <2>3 DEF Channel!Die, Waiting
  <2>5. QED
    BY <2>4 DEF Channel!Next
<1>6. ASSUME NEW w \in Producers, PushEnd(w) PROVE [Channel!Next]_<<Waiting, Published>>
  <2>1. UNCHANGED <<wpc, inhand, published>> /\ ppc[w] = "push"
    BY <1>6 DEF PushEnd, publishers
  <2>2. CASE queue' = queue
    BY <2>1, <2>2, Stutters
  <2>3. CASE queue' = Append(queue, prec[w])
    <3>1. Carried' = Carried /\ Published' = Published
      BY <2>1 DEF Carried, Published
    <3>2. Carried \in Seq(Records) /\ Len(Carried) <= 1 /\ Len(Carried) \in Nat
      <4>1. Carried = <<>> \/ Carried = <<inhand[p]>>
        BY CarriedIs
      <4>2. CASE Carried = <<>>
        BY <4>2
      <4>3. CASE Carried = <<inhand[p]>>
        BY <1>1, <4>3
      <4>4. QED
        BY <4>1, <4>2, <4>3
    <3>3. prec[w] \in Records
      BY DEF PubInv, TypeOK
    <3>4. Waiting' = Append(Waiting, prec[w]) /\ Len(Waiting) = Len(Carried) + Len(queue)
      BY <1>1, <2>3, <3>1, <3>2, <3>3 DEF Waiting
    <3>5. Cardinality(PastTest) >= 1
      <4>1. w \in PastTest
        BY <2>1 DEF PastTest
      <4>2. Cardinality(PastTest) # 0
        BY <4>1, CountedSets, FS_EmptySet
      <4>3. QED
        BY <4>2, CountedSets
    <3>6. Len(Waiting) < MaxBuffer + Cardinality(Producers)
      <4>1. Len(queue) + Cardinality(PastTest) <= MaxBuffer + Cardinality(Producers) - 1
        BY <1>1 DEF PubInv, Size
      <4>2. QED
        BY <1>1, <3>2, <3>4, <3>5, <4>1, CountedSets, AtLeastOne
    <3>7. Channel!Accept(prec[w])
      BY <3>1, <3>4, <3>6 DEF Channel!Accept, Waiting
    <3>8. QED
      BY <3>3, <3>7 DEF Channel!Next
  <2>4. QED
    BY <1>1, <1>6, <2>2, <2>3 DEF PushEnd
<1>7. CASE Pop(p)
  <2>1. wpc[p] = "pop" /\ wpc'[p] = "scan" /\ UNCHANGED <<inhand, published>>
    BY <1>1, <1>7 DEF Pop, Goto
  <2>2. queue # <<>> /\ inhand[p] = Head(queue)
    BY <2>1, NeverMissing DEF HoldsFront
  <2>3. Carried = <<>> /\ Carried' = <<Head(queue)>>
    BY <2>1, <2>2, CarriedIs
  <2>4. queue' = Tail(queue)
    BY <1>7, <2>2 DEF Pop
  <2>5. <<Head(queue)>> \o Tail(queue) = queue /\ <<>> \o queue = queue
    BY <1>1, <2>2
  <2>6. UNCHANGED <<Waiting, Published>>
    BY <2>1, <2>3, <2>4, <2>5 DEF Waiting, Published
  <2>7. QED
    BY <2>6
<1>8. CASE Scan(p)
  <2>1. UNCHANGED <<queue, inhand, published>> /\ wpc[p] = "scan"
    BY <1>8 DEF Scan
  <2>2. wpc'[p] \in {"scan", "publish", "check"}
    BY <1>1, <1>8, <2>1 DEF Scan, Visit, EndScan, Goto
  <2>3. Carried = <<inhand[p]>>
    BY <2>1, CarriedIs
  <2>4. CASE wpc'[p] \in {"scan", "publish"}
    <3>1. Carried' = <<inhand[p]>>
      BY <2>1, <2>4, CarriedIs
    <3>2. QED
      BY <2>1, <2>3, <3>1 DEF Waiting, Published
  <2>5. CASE wpc'[p] = "check"
    <3>1. Carried' = <<>>
      BY <2>5, CarriedIs
    <3>2. Waiting # <<>> /\ Waiting' = Tail(Waiting) /\ UNCHANGED Published
      BY <1>1, <2>1, <2>3, <3>1 DEF Waiting, Published
    <3>3. Channel!Discard
      BY <3>2 DEF Channel!Discard, Waiting
    <3>4. QED
      BY <3>3 DEF Channel!Next
  <2>6. QED
    BY <2>2, <2>4, <2>5
<1>9. CASE publish_msg(p)
  <2>1. UNCHANGED <<queue, inhand>> /\ wpc[p] = "publish" /\ wpc'[p] = "check"
    BY <1>1, <1>9 DEF publish_msg, Goto
  <2>2. Carried = <<inhand[p]>> /\ Carried' = <<>>
    BY <2>1, CarriedIs
  <2>3. Waiting # <<>> /\ Waiting' = Tail(Waiting) /\ Head(Waiting) = inhand[p]
    BY <1>1, <2>1, <2>2 DEF Waiting
  <2>4. CASE UNCHANGED published
    <3>1. Channel!Discard
      BY <2>3, <2>4 DEF Channel!Discard, Waiting, Published
    <3>2. QED
      BY <3>1 DEF Channel!Next
  <2>5. CASE published' = Append(published, [record |-> inhand[p], ids |-> ids[p]])
    <3>1. [record |-> inhand[p], ids |-> ids[p]] \in [record : Records, ids : SUBSET Customers]
      BY DEF PubInv, TypeOK
    <3>2. Published' = Append(Published, inhand[p])
      BY <2>5, <3>1, PublishedAppends DEF PubInv
    <3>3. Channel!Deliver
      BY <2>3, <3>2 DEF Channel!Deliver, Waiting
    <3>4. QED
      BY <3>3 DEF Channel!Next
  <2>6. QED
    BY <1>9, <2>4, <2>5 DEF publish_msg
<1>10. QED
  BY <1>2, <1>3, <1>4, <1>5, <1>6, <1>7, <1>8, <1>9 DEF Next, EventLoop, publish_work_thread

(* With one publisher at a time, records are published in the order they   *)
(* were queued, each at most once, and no more than the limit wait: the    *)
(* publisher and the queue implement LossyQueue.                           *)
THEOREM InOrder == ASSUME OnePublisher PROVE Spec => PublishesInOrder
<1>1. PICK p : Publishers = {p}
  BY OneThread
<1>2. Init => Channel!Init /\ HoldsFront
  <2> SUFFICES ASSUME Init PROVE Channel!Init /\ HoldsFront
    OBVIOUS
  <2>1. wpc[p] = "off" /\ queue = <<>> /\ published = <<>>
    BY <1>1 DEF Init
  <2>2. Carried = <<>>
    BY <1>1, <2>1, CarriedIs
  <2>3. Carried \o queue = <<>> /\ Published = <<>>
    BY <2>1, <2>2 DEF Published
  <2>4. QED
    BY <1>1, <2>1, <2>3 DEF Channel!Init, HoldsFront
<1>3. PubInv /\ HoldsFront /\ [Next]_vars => HoldsFront'
  BY <1>1, HoldsFrontNext
<1>4. PubInv /\ HoldsFront /\ [Next]_vars => [Channel!Next]_<<Carried \o queue, Published>>
  BY <1>1, StepImplements DEF Waiting
<1>5. QED
  BY PubInvCorrect, <1>2, <1>3, <1>4, PTL DEF Spec, PublishesInOrder, Channel!Spec
-----------------------------------------------------------------------------
(* What a publisher has collected.  The iteration has passed the customers *)
(* up to one id; while the table stays as it is, those of them who are     *)
(* collected are those whose condition selects the record.  A process that *)
(* loads its subscriptions has no publisher yet.                           *)
Matching(p) == {i \in Live : inhand[p] \in table[i].selects}

Collecting ==
  \A p \in Publishers : wpc[p] = "scan" /\ ~disturbed[p] =>
    /\ \A i \in ahead[p], j \in Customers : i <= j => j \in ahead[p]
    /\ ids[p] = Matching(p) \ ahead[p]

ScanInv ==
  /\ TypeOK /\ SubscribeTypeOK
  /\ spc = "down" => \A p \in Publishers : wpc[p] = "off"
  /\ Collecting
  /\ PublishedToSubscribers

LEMMA LeastNatural ==
  ASSUME NEW S \in SUBSET Nat, S # {}
  PROVE  \E n \in S : \A m \in S : n <= m
<1> DEFINE less == OpToRel(<, Nat)
<1>1. IsWellFoundedOn(less, Nat)
  BY NatLessThanWellFounded
<1>2. PICK n \in S : \A m \in S : <<m, n>> \notin less
  <2> HIDE DEF less
  <2>1. QED
    BY <1>1, WFMin
<1>3. \A m \in S : ~(m < n)
  BY <1>2 DEF OpToRel
<1>4. QED
  BY <1>3

(* Customers who are left have a first one: otherwise a smallest set of     *)
(* them that has none is no longer smallest without one of its members.    *)
NoFirst(S) == S # {} /\ ~ \E i \in S : \A j \in S : i <= j

LEMMA FirstCustomer ==
  ASSUME NEW S \in SUBSET Customers, S # {}
  PROVE  \E i \in S : \A j \in S : i <= j
<1> DEFINE sizes == {n \in Nat : \E T \in SUBSET Customers : NoFirst(T) /\ Cardinality(T) = n}
<1>1. SUFFICES ASSUME NoFirst(S) PROVE FALSE
  BY DEF NoFirst
<1>2. \A T \in SUBSET Customers : IsFiniteSet(T) /\ Cardinality(T) \in Nat
  BY PubSubAssumption, FS_Subset, FS_CardinalityType
<1>3. PICK n \in sizes : \A m \in sizes : n <= m
  <2>1. sizes \in SUBSET Nat /\ Cardinality(S) \in sizes
    BY <1>1, <1>2
  <2> HIDE DEF sizes
  <2>2. QED
    BY <2>1, LeastNatural
<1>4. PICK T \in SUBSET Customers : NoFirst(T) /\ Cardinality(T) = n
  BY <1>3
<1>5. PICK i \in T : TRUE
  BY <1>4 DEF NoFirst
<1>6. Cardinality(T \ {i}) = n - 1 /\ n \in Nat
  BY <1>2, <1>3, <1>4, <1>5, CardinalityRemoves
<1>7. ~NoFirst(T \ {i})
  <2>1. n - 1 \notin sizes
    BY <1>3, <1>6
  <2>2. Cardinality(T \ {i}) \in Nat
    BY <1>2
  <2>3. QED
    BY <1>6, <2>1, <2>2
<1>8. \A k \in T : k \in Int
  BY SubscribeAssumption
<1>9. CASE T \ {i} = {}
  BY <1>4, <1>5, <1>8, <1>9 DEF NoFirst
<1>10. CASE T \ {i} # {}
  <2>1. PICK j \in T \ {i} : \A k \in T \ {i} : j <= k
    BY <1>7, <1>10 DEF NoFirst
  <2>2. CASE i <= j
    <3>1. \A k \in T : i <= k
      BY <1>5, <1>8, <2>1, <2>2
    <3>2. QED
      BY <1>4, <1>5, <3>1 DEF NoFirst
  <2>3. CASE ~(i <= j)
    <3>1. \A k \in T : j <= k
      BY <1>5, <1>8, <2>1, <2>3
    <3>2. QED
      BY <1>4, <2>1, <3>1 DEF NoFirst
  <2>4. QED
    BY <2>2, <2>3
<1>11. QED
  BY <1>9, <1>10

LEMMA ScanInvInit == Init => ScanInv
<1> SUFFICES ASSUME Init PROVE ScanInv
  OBVIOUS
<1>1. TypeOK
  BY PubInvInit DEF PubInv
<1>2. SubscribeTypeOK
  BY SubscribeInvInit DEF Init, SubscribeInv
<1>3. \A p \in Publishers : wpc[p] = "off"
  BY DEF Init
<1>4. QED
  BY <1>1, <1>2, <1>3 DEF ScanInv, Collecting, PublishedToSubscribers

(* Steps that change neither the table nor the iterations.                 *)
LEMMA CollectedKept ==
  ASSUME ScanInv, TypeOK', SubscribeTypeOK',
         UNCHANGED <<table, inhand, ahead, ids, disturbed>>,
         \A p \in Publishers : wpc'[p] \in {"scan", "publish"} => wpc'[p] = wpc[p],
         spc' = "down" => \A p \in Publishers : wpc'[p] = "off"
  PROVE  ScanInv'
BY DEF ScanInv, Collecting, PublishedToSubscribers, Matching, Live

(* One turn of the loop, and its end.                                      *)
LEMMA ScanCollects ==
  ASSUME ScanInv, TypeOK', SubscribeTypeOK', NEW p \in Publishers, Scan(p)
  PROVE  ScanInv'
<1> USE DEF ScanInv
<1>1. UNCHANGED <<table, inhand, disturbed, spc>> /\ wpc[p] = "scan"
  BY DEF Scan, subscribeVars
<1>2. /\ wpc \in [Publishers -> {"off", "check", "front", "pop", "scan", "publish"}]
      /\ ahead \in [Publishers -> SUBSET Customers]
      /\ ids \in [Publishers -> SUBSET Customers]
  BY DEF TypeOK
<1>3. \A q \in Publishers \ {p} : UNCHANGED <<wpc[q], ahead[q], ids[q]>>
  BY <1>2 DEF Scan, Visit, EndScan, Goto
<1>4. UNCHANGED Live
  BY <1>1 DEF Live
<1>5. Collecting' /\ PublishedToSubscribers'
  <2> SUFFICES ASSUME ~disturbed[p]
               PROVE  /\ wpc'[p] = "scan" =>
                           /\ \A i \in ahead'[p], j \in Customers : i <= j => j \in ahead'[p]
                           /\ ids'[p] = Matching(p) \ ahead'[p]
                      /\ wpc'[p] = "publish" => ids'[p] = Matching(p)
    BY <1>1, <1>2, <1>3, <1>4 DEF Collecting, PublishedToSubscribers, Matching
  <2>1. /\ \A i \in ahead[p], j \in Customers : i <= j => j \in ahead[p]
        /\ ids[p] = Matching(p) \ ahead[p]
    BY <1>1 DEF Collecting
  <2>2. ASSUME NEW i \in Live, i \in NextOf(p), Visit(p, i)
        PROVE  /\ wpc'[p] = "scan"
               /\ \A k \in ahead'[p], j \in Customers : k <= j => j \in ahead'[p]
               /\ ids'[p] = Matching(p) \ ahead'[p]
    <3>1. ahead'[p] = {j \in Customers : j > i} /\ wpc' = wpc
      BY <1>2, <2>2 DEF Visit
    <3>2. i \in ahead[p] /\ i \in Customers /\ \A j \in Live \cap ahead[p] : i <= j
      BY <2>2 DEF NextOf, Live
    <3>3. \A j \in Customers : j \in Int
      BY SubscribeAssumption
    <3>4. \A k \in ahead'[p], j \in Customers : k <= j => j \in ahead'[p]
      BY <3>1, <3>2, <3>3
    <3>5. \A j \in Live : j \notin ahead'[p] <=> j \notin ahead[p] \/ j = i
      BY <2>1, <3>1, <3>2, <3>3 DEF Live
    <3>6. ids'[p] = IF inhand[p] \in table[i].selects THEN ids[p] \cup {i} ELSE ids[p]
      BY <1>2, <2>2 DEF Visit, Selects
    <3>7. ids'[p] = Matching(p) \ ahead'[p]
      BY <2>1, <2>2, <3>2, <3>5, <3>6 DEF Matching
    <3>8. QED
      BY <1>1, <3>1, <3>4, <3>7
  <2>3. ASSUME NextOf(p) = {}, EndScan(p)
        PROVE  wpc'[p] # "scan" /\ (wpc'[p] = "publish" => ids'[p] = Matching(p))
    <3>1. Live \cap ahead[p] = {}
      <4>1. Live \cap ahead[p] \in SUBSET Customers
        BY DEF Live
      <4>2. QED
        BY <2>3, <4>1, FirstCustomer DEF NextOf
    <3>2. ids[p] = Matching(p)
      BY <2>1, <3>1 DEF Matching
    <3>3. QED
      BY <1>2, <2>3, <3>2 DEF EndScan, Goto
  <2>4. QED
    BY <2>2, <2>3 DEF Scan
<1>6. QED
  BY <1>1, <1>3, <1>5 DEF Scan

LEMMA PopBegins ==
  ASSUME ScanInv, TypeOK', SubscribeTypeOK', NEW p \in Publishers, Pop(p)
  PROVE  ScanInv'
<1> USE DEF ScanInv
<1>1. UNCHANGED <<table, inhand, spc>> /\ wpc[p] = "pop"
  BY DEF Pop, subscribeVars
<1>2. \A q \in Publishers \ {p} : UNCHANGED <<wpc[q], ahead[q], ids[q], disturbed[q]>>
  BY DEF Pop, Goto, TypeOK
<1>3. ahead'[p] = Customers /\ ids'[p] = {} /\ wpc'[p] = "scan"
  BY DEF Pop, Goto, TypeOK
<1>4. Collecting' /\ PublishedToSubscribers'
  BY <1>1, <1>2, <1>3 DEF Collecting, PublishedToSubscribers, Matching, Live
<1>5. QED
  BY <1>1, <1>4 DEF Pop

LEMMA ScanInvNext ==
  ASSUME ScanInv, TypeOK', SubscribeTypeOK', [Next]_vars
  PROVE  ScanInv'
<1> USE DEF ScanInv
<1>1. CASE UNCHANGED vars
  BY <1>1, CollectedKept DEF vars, pubVars, subscribeVars, publishers
<1>2. CASE LoadSubscriptions
  BY <1>2 DEF LoadSubscriptions, Load, pubVars, publishers, Collecting, PublishedToSubscribers
<1>3. CASE connect_redis \/ Disconnect
  BY <1>3, CollectedKept DEF connect_redis, Disconnect, subscribeVars, publishers
<1>4. CASE start_publish_work
  <2>1. \A p \in Publishers : wpc'[p] \in {"scan", "publish"} => wpc'[p] = wpc[p]
    BY <1>4 DEF start_publish_work, Goto, StartedAt, TypeOK
  <2>2. QED
    BY <1>4, <2>1, CollectedKept DEF start_publish_work, subscribeVars
<1>5. CASE persitence_subscribe_file
  <2>1. UNCHANGED table /\ spc' # "down" /\ spc # "down"
    BY <1>5 DEF persitence_subscribe_file, OpenSubscribeFile, WriteSubscribeFile
  <2>2. QED
    BY <1>5, <2>1, CollectedKept DEF persitence_subscribe_file, pubVars, publishers
<1>6. CASE Die
  BY <1>6 DEF Die, Collecting, PublishedToSubscribers
<1>7. ASSUME NEW r \in Requests, subcribe_callback(r) PROVE ScanInv'
  <2>1. UNCHANGED wpc /\ spc # "down" /\ spc' # "down"
    BY <1>7 DEF subcribe_callback, parse_subscribe_conditon, AfterRequest
  <2>2. \A p \in Publishers : wpc[p] \in {"scan", "publish"} => disturbed'[p]
    BY <1>7 DEF subcribe_callback
  <2>3. QED
    BY <2>1, <2>2 DEF Collecting, PublishedToSubscribers
<1>8. ASSUME NEW w \in Producers, PushEnd(w) \/ \E r \in Records : PushBegin(w, r) PROVE ScanInv'
  BY <1>8, CollectedKept DEF PushBegin, PushEnd, subscribeVars, publishers
<1>9. ASSUME NEW p \in Publishers, CheckLink(p) \/ publish_msg(p) PROVE ScanInv'
  <2>1. UNCHANGED <<table, spc, inhand, ahead, ids, disturbed>> /\ wpc[p] # "off"
    BY <1>9 DEF CheckLink, publish_msg, subscribeVars
  <2>2. \A q \in Publishers : wpc'[q] \in {"scan", "publish"} => wpc'[q] = wpc[q]
    BY <1>9 DEF CheckLink, publish_msg, Goto, TypeOK
  <2>3. QED
    BY <2>1, <2>2, CollectedKept
<1>10. ASSUME NEW p \in Publishers, Front(p) PROVE ScanInv'
  <2>1. UNCHANGED <<table, spc, ahead, ids, disturbed>> /\ wpc[p] = "front"
    BY <1>10 DEF Front, subscribeVars
  <2>2. /\ \A q \in Publishers : wpc'[q] \in {"scan", "publish"} => wpc'[q] = wpc[q]
        /\ \A q \in Publishers : wpc'[q] \in {"scan", "publish"} => inhand'[q] = inhand[q]
    BY <1>10 DEF Front, Goto, TypeOK
  <2>3. QED
    BY <2>1, <2>2 DEF Collecting, PublishedToSubscribers, Matching, Live
<1>11. QED
  BY <1>1, <1>2, <1>3, <1>4, <1>5, <1>6, <1>7, <1>8, <1>9, <1>10, ScanCollects, PopBegins
  DEF Next, EventLoop, publish_work_thread

(* Whatever is pushed, published, lost or reconnected meanwhile, and with  *)
(* any number of publishers: a record goes to exactly the customers whose  *)
(* condition selects it, unless a message changed the table while they     *)
(* were collected (hiredis_proxy.cpp publish_work_thread).                 *)
THEOREM GoesToSubscribers == Spec => []PublishedToSubscribers
<1>1. Spec => []SubscribeTypeOK
  <2>1. SubscribeInv => SubscribeTypeOK
    BY DEF SubscribeInv
  <2>2. QED
    BY <2>1, ComposesSubscriptions, SubscribeCorrect, PTL
<1>2. PubInv => TypeOK
  BY DEF PubInv
<1>3. ScanInv /\ TypeOK' /\ SubscribeTypeOK' /\ [Next]_vars => ScanInv'
  BY ScanInvNext
<1>4. ScanInv => PublishedToSubscribers
  BY DEF ScanInv
<1>5. QED
  BY <1>1, <1>2, <1>3, <1>4, ScanInvInit, PubInvCorrect, PTL DEF Spec
=============================================================================
