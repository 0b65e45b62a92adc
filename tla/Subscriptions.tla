--------------------------- MODULE Subscriptions ---------------------------
(***************************************************************************)
(* The table of subscriptions and the file that keeps it.  One thread (the *)
(* redis event loop) loads the file at startup, then handles one message   *)
(* at a time: it changes the table and rewrites the whole file.            *)
(*                                                                         *)
(* A condition is the set of records it selects; how positions, keys and   *)
(* distances are compared is left out.  Two effects of the code on data    *)
(* are kept: a line of the file may be longer than the buffer it is read   *)
(* into, and a rectangle is read back into an object that is too small, so *)
(* that what it selects afterwards is arbitrary.                           *)
(***************************************************************************)
EXTENDS Integers

CONSTANTS
  Customers,   (* customer ids, the keys of m_subscribe_cons *)
  Records,     (* the records conditions select from *)
  Requests,    (* the messages customers may send *)
  MaxCrashes,  (* bound: how often the process is killed *)
  MaxFails     (* bound: how often the file cannot be opened for writing *)

StoredTypes == {"all", "keys", "circle", "rect"}

(* "other" is a condition whose type no code compares equal *)
Condition == [type : StoredTypes \cup {"other"}, selects : SUBSET Records, long : BOOLEAN]
None      == [type |-> "none"]
Table     == [Customers -> Condition \cup {None}]

Request == [type    : StoredTypes \cup {"unsub", "polygon", "unsupported"},
            id      : Customers,
            selects : SUBSET Records,
            long    : BOOLEAN,     \* the line it is saved as exceeds 4095 characters
            right   : BOOLEAN]     \* is_right_conditon: keys given, ranges kept

ASSUME SubscribeAssumption ==
  /\ Customers \subseteq Int
  /\ Requests \subseteq Request
  /\ MaxCrashes \in Nat
  /\ MaxFails \in Nat

VARIABLES
  table,    \* m_subscribe_cons
  subfile,  \* the subscription file, per customer
  spc,      \* the event loop: down, idle, or about to truncate or to write
  current,  \* the customer whose request is handled
  \* history
  wanted,   \* what each customer last asked for, with success
  exempt,   \* customers whose subscription met one of the named losses
  crashes,
  fails

subscribeVars == <<table, subfile, spc, current, wanted, exempt, crashes, fails>>

SubscribeTypeOK ==
  /\ table \in Table /\ subfile \in Table /\ wanted \in Table
  /\ spc \in {"down", "idle", "truncate", "write"}
  /\ current \in Customers
  /\ exempt \subseteq Customers
  /\ crashes \in 0 .. MaxCrashes /\ fails \in 0 .. MaxFails

Nobody == [i \in Customers |-> None]

SubscribeInit ==
  /\ table = Nobody /\ subfile = Nobody /\ wanted = Nobody
  /\ spc = "down"
  /\ current \in Customers
  /\ exempt = {} /\ crashes = 0 /\ fails = 0

-----------------------------------------------------------------------------
(* read_subscribe_msg: the file is read in the order of the ids, up to the *)
(* first line that does not fit the buffer.                                *)
Unread(f) == {i \in Customers : \E j \in Customers : j <= i /\ f[j] # None /\ f[j].long}

BugSkipCircle(f, i) == IF f[i].type = "circle" THEN {None} ELSE {f[i]}
Reloaded(f, i) ==
  IF f[i].type = "rect" THEN {[f[i] EXCEPT !.selects = s] : s \in SUBSET Records}
                        ELSE {f[i]}

ReadBack(f, i) == IF i \in Unread(f) THEN {None} ELSE Reloaded(f, i)

Rectangles(f) == {i \in Customers : f[i].type = "rect"}

Load ==
  /\ spc = "down"
  /\ spc' = "idle"
  /\ table' \in {t \in Table : \A i \in Customers : t[i] \in ReadBack(subfile, i)}
  /\ exempt' = exempt \cup Unread(subfile) \cup Rectangles(subfile)
  /\ UNCHANGED <<subfile, current, wanted, crashes, fails>>

-----------------------------------------------------------------------------
(* parse_subscribe_conditon.  A message that is refused changes nothing;   *)
(* the answer is a code the callback ignores.                              *)
Accepts(r) ==
  IF r.type = "unsub"
    THEN table[r.id] # None
    ELSE /\ table[r.id] = None
         /\ r.type # "unsupported"
         /\ r.right

(* The type of a polygon is never set: it is what the memory held, perhaps *)
(* the type of a subscription that was deleted before.                     *)
Uninitialised ==
  {[type |-> "other", selects |-> {}, long |-> FALSE],
   [type |-> "all", selects |-> Records, long |-> FALSE]}

Entry(r) ==
  [type    |-> r.type,
   selects |-> IF r.type = "all" THEN Records ELSE r.selects,
   long    |-> r.type = "keys" /\ r.long]

NewEntries(r) ==
  CASE r.type = "unsub"   -> {None}
    [] r.type = "polygon" -> Uninitialised
    [] OTHER              -> {Entry(r)}

BugUnsubNotSaved(r) == IF r.type = "unsub" THEN "idle" ELSE "truncate"
AfterRequest(r)     == "truncate"

parse_subscribe_conditon(r) ==
  /\ spc = "idle"
  /\ Accepts(r)
  /\ \E c \in NewEntries(r) :
       /\ table' = [table EXCEPT ![r.id] = c]
       /\ wanted' = [wanted EXCEPT ![r.id] = c]
  /\ exempt' = IF r.type = "polygon" THEN exempt \cup {r.id} ELSE exempt \ {r.id}
  /\ current' = r.id
  /\ spc' = AfterRequest(r)
  /\ UNCHANGED <<subfile, crashes, fails>>

(* persitence_subscribe_file: open and truncate, write every condition of  *)
(* a known type, close.                                                    *)
OpenSubscribeFile ==
  /\ spc = "truncate"
  /\ \/ /\ subfile' = Nobody
        /\ spc' = "write"
        /\ UNCHANGED <<exempt, fails>>
     \/ /\ fails < MaxFails
        /\ fails' = fails + 1
        /\ exempt' = exempt \cup {current}
        /\ spc' = "idle"
        /\ UNCHANGED subfile
  /\ UNCHANGED <<table, current, wanted, crashes>>

Saved(c) == IF c.type \in StoredTypes THEN c ELSE None

WriteSubscribeFile ==
  /\ spc = "write"
  /\ subfile' = [i \in Customers |-> Saved(table[i])]
  /\ spc' = "idle"
  /\ UNCHANGED <<table, current, wanted, exempt, crashes, fails>>

(* The process is killed.  A request that has not reached the file is      *)
(* lost; a file that was just truncated has lost everybody's.              *)
Endangered ==
  CASE spc = "truncate" -> {current}
    [] spc = "write"    -> Customers
    [] OTHER            -> {}

Kill ==
  /\ spc # "down"
  /\ crashes < MaxCrashes
  /\ crashes' = crashes + 1
  /\ spc' = "down"
  /\ table' = Nobody
  /\ exempt' = exempt \cup Endangered
  /\ UNCHANGED <<subfile, current, wanted, fails>>

SubscribeNext ==
  \/ Load \/ OpenSubscribeFile \/ WriteSubscribeFile \/ Kill
  \/ \E r \in Requests : parse_subscribe_conditon(r)

SubscribeSpec == SubscribeInit /\ [][SubscribeNext]_subscribeVars

-----------------------------------------------------------------------------
(* A customer's subscription is what the customer last asked for, across   *)
(* restarts, unless it was a polygon, it was read back as a rectangle or   *)
(* from behind a line that is too long, its file could not be opened, or a *)
(* kill came before its file was complete.                                 *)
SubscriptionsKept ==
  spc # "down" => \A i \in Customers \ exempt : table[i] = wanted[i]

(* Between two requests, and while the process is dead, the file holds the *)
(* same: no earlier rewriting forgot or revived a subscription.            *)
FileKeepsWanted ==
  spc \in {"down", "idle"} => \A i \in Customers \ exempt : subfile[i] = wanted[i]

(* While a request is on its way to the file, only that customer's line is *)
(* behind.                                                                 *)
FileBehindCurrent ==
  spc = "truncate" => \A i \in Customers \ (exempt \cup {current}) : subfile[i] = wanted[i]

(* what is not exempt can be saved and read back as it is *)
WantedIsSaved ==
  \A i \in Customers \ exempt : wanted[i].type \in StoredTypes \cup {"none"}

SubscribeInv ==
  /\ SubscribeTypeOK
  /\ SubscriptionsKept /\ FileKeepsWanted /\ FileBehindCurrent /\ WantedIsSaved
=============================================================================
