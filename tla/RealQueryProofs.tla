-------------------------- MODULE RealQueryProofs --------------------------
(***************************************************************************)
(* Proof that the queries of the newest positions answer with what was     *)
(* newest when they began, or is newer (AnswersFresh), for any devices and *)
(* records.  LiveMaps is used through one lemma, MapEffect: what a step of *)
(* a writer or of the persist thread does to the positions of one device.  *)
(* The invariant follows a device through the query: it is among those the *)
(* running iteration must meet, or lies where a later one will find it.    *)
(***************************************************************************)
EXTENDS RealQuery, TLAPS

-----------------------------------------------------------------------------
(* Types. *)
MapsTyped ==
  /\ mem \in [{1, 2} -> [Keys -> Seq(Records)]]
  /\ active \in {1, 2}
  /\ lastdata \in [Keys -> Records \cup {None}]
  /\ stored \subseteq Records
  /\ raced \in BOOLEAN

QueryTyped ==
  /\ source \in {Nothing, 1, 2, LastData}
  /\ left \subseteq Keys
  /\ slave \in {1, 2}
  /\ answer \in [Keys -> Records \cup {None}]
  /\ place \in [Keys -> Records \cup {None}]
  /\ start \in [Keys -> Records \cup {None}]
  /\ before \subseteq stored
  /\ sought \in Seq(Keys) /\ asked \subseteq Keys
  /\ missed \in BOOLEAN
  /\ split \in BOOLEAN

(* What a retired map holds is in m_lastdata once its pass is over, so that *)
(* clearing it forgets no position.                                        *)
Settled(k) == k \in Held(Other(active)) => lastdata[k] = Back(mem[Other(active)][k])

Settling ==
  /\ pass \in {"wait", "begun", "moving"}
  /\ pass = "wait" => \A k \in Keys : Settled(k)
  /\ pass = "begun" => Held(Other(active)) = {}
  /\ pass = "moving" => /\ must = Held(Other(active))
                        /\ \A k \in moved \cap Keys : Settled(k)

-----------------------------------------------------------------------------
(* Where a query stands. *)
WithLast == {"query_last_pos", "query_online"}

MainSteps   == {<<"main", "second", "lastdata">>, <<"main", "second">>}
SlaveSteps  == {<<"slave", "second", "lastdata">>, <<"slave", "second">>}
SecondSteps == {<<"second", "lastdata">>, <<"second">>}
LastSteps   == {<<"main", "second", "lastdata">>, <<"slave", "second", "lastdata">>,
                <<"second", "lastdata">>, <<"lastdata">>}

MainNext     == steps \in MainSteps
SlaveNext    == steps \in SlaveSteps
SecondToCome == steps \in MainSteps \cup SlaveSteps \cup SecondSteps
LastToCome   == steps \in LastSteps

InSought(k) == \E i \in DOMAIN sought : sought[i] = k

(* the query does not scan: it measures a distance, or misses its device *)
Stopped == query = "distance" \/ (sought = <<>> /\ \E k \in asked : place[k] = None)

Control ==
  /\ SecondToCome \/ LastToCome \/ steps = <<>>
  /\ LastToCome => query \in WithLast
  /\ query \in WithLast /\ steps # <<>> => LastToCome
  /\ source = Nothing => left = {}
  /\ LooksAgain => source = Nothing
  /\ sought # <<>> => query \in {"bykey", "distance"}
  /\ query = "distance" => steps = <<>>
  /\ query = "bykey" /\ sought # <<>> => /\ MainNext
                                         /\ Tail(sought) = <<>> /\ asked = {Head(sought)}
  /\ missed => sought # <<>>
  /\ Stopped => steps = <<>> /\ source = Nothing
  /\ source = LastData => steps = <<>>
  /\ query = NoQuery => /\ steps = <<>> /\ sought = <<>> /\ source = Nothing
                        /\ answer = Nowhere /\ start = Nowhere

(* p may be reported of device k *)
Good(k, p) == p = start[k] \/ p \in stored \ before

(* before the second look at the pointer: the maps are those of the first *)
Ready(k) ==
  LooksAgain => /\ active = Other(slave) /\ answer[k] = None
                /\ query \in WithLast \/ k \in Held(active)

(* the map to be scanned next as the other one *)
SlaveToScan == IF SlaveNext THEN Other(active) ELSE slave

BothGood(k) == \A b \in {1, 2} : k \in Held(b) => Good(k, Back(mem[b][k]))

(* the running iteration must meet the device *)
MustMeet(k) ==
  /\ k \in left
  /\ Good(k, Found(source, k))
  /\ source = LastData => BothGood(k)

(* a later iteration finds it *)
FoundLater(k) ==
  /\ LastToCome
  /\ BothGood(k)
  /\ Good(k, lastdata[k]) \/ (SecondToCome /\ k \in Held(SlaveToScan))

Covered(k) ==
  ~LooksAgain /\ ~Stopped /\ answer[k] = None => MustMeet(k) \/ FoundLater(k)

DeviceInv(k) ==
  /\ Good(k, Newest(k))
  /\ ~split => /\ Ready(k)
               /\ answer[k] # None => Good(k, answer[k])
               /\ Covered(k)
               /\ k \in asked => InSought(k) \/ Good(k, place[k])

MissedRightly == missed /\ ~split => start[Head(sought)] = None

QueryInv ==
  /\ MapsTyped /\ QueryTyped /\ Control
  /\ ~raced => /\ Settling
               /\ MissedRightly
               /\ \A k \in Keys : start[k] # None => DeviceInv(k)

-----------------------------------------------------------------------------
(* What the steps of writers and of the persist thread do to the maps. *)

(* The two maps are 1 and 2. *)
LEMMA Others ==
  ASSUME NEW b \in {1, 2}
  PROVE  /\ Other(b) \in {1, 2} /\ Other(b) # b /\ Other(Other(b)) = b
         /\ \A c \in {1, 2} : c # b => c = Other(b)
BY DEF Other

(* Appending to a vector. *)
LEMMA Appended ==
  ASSUME NEW S, NEW v \in Seq(S), NEW r \in S
  PROVE  /\ Append(v, r) \in Seq(S) /\ Append(v, r) # <<>> /\ Back(Append(v, r)) = r
         /\ v # <<>> => Back(v) \in S
BY DEF Back

(* The step of a writer whose record reached the current map. *)
LEMMA StoreEffect ==
  ASSUME MapsTyped, NEW r \in Records, Store(r), ~raced'
  PROVE  /\ r \notin stored /\ stored' = stored \cup {r} /\ raced' = raced
         /\ active' = active /\ lastdata' = lastdata
         /\ pass' = pass /\ must' = must /\ moved' = moved
         /\ \A b \in {1, 2} : \A k \in Keys :
              mem'[b][k] = IF b = active /\ k = KeyOf[r] THEN Append(mem[b][k], r) ELSE mem[b][k]
         /\ mem' \in [{1, 2} -> [Keys -> Seq(Records)]]
<1>1. KeyOf[r] \in Keys BY QueryAssumption
<1>2. mem' = With(active, r) /\ raced' = raced BY DEF Store, MapsTyped
<1>3. mem' = [mem EXCEPT ![active][KeyOf[r]] = Append(mem[active][KeyOf[r]], r)] BY <1>2 DEF With
<1>4. Append(mem[active][KeyOf[r]], r) \in Seq(Records) BY <1>1, Appended DEF MapsTyped
<1> QED BY <1>1, <1>2, <1>3, <1>4 DEF Store, MapsTyped

(* The maps keep their types. *)
LEMMA MapsTypedKept ==
  ASSUME MapsTyped, MapsStep
  PROVE  MapsTyped'
<1>0. KeyOf \in [Records -> Keys] BY QueryAssumption
<1>1. ASSUME NEW r \in Records, Store(r) PROVE MapsTyped'
  <2>1. \A b \in {1, 2} : With(b, r) \in [{1, 2} -> [Keys -> Seq(Records)]]
    <3>1. ASSUME NEW b \in {1, 2} PROVE Append(mem[b][KeyOf[r]], r) \in Seq(Records)
      BY <1>0, Appended DEF MapsTyped
    <3> QED BY <1>0, <3>1 DEF With, MapsTyped
  <2> QED BY <1>1, <2>1, Others DEF Store, MapsTyped
<1>2. CASE BeginPass BY <1>2, Others DEF BeginPass, MapsTyped
<1>3. CASE SwapMem BY <1>3, Others DEF SwapMem, MapsTyped
<1>4. CASE EndPass BY <1>4 DEF EndPass, MapsTyped
<1>5. ASSUME NEW k \in Keys, MemToLast(k) PROVE MapsTyped'
  <2>1. Back(mem[Other(active)][k]) \in Records
    BY <1>5, Others, Appended DEF MapsTyped, MemToLast, Held, Back
  <2> QED BY <1>5, <2>1 DEF MemToLast, MapsTyped
<1> QED BY <1>1, <1>2, <1>3, <1>4, <1>5 DEF MapsStep

(* What is retired stays in order for the child that moves it. *)
LEMMA SettlingKept ==
  ASSUME MapsTyped, Settling, MapsStep, ~raced'
  PROVE  Settling'
<1>0. active \in {1, 2} /\ Other(active) \in {1, 2} /\ Other(active) # active
      /\ Other(Other(active)) = active
  BY Others DEF MapsTyped
<1>1. ASSUME NEW r \in Records, Store(r) PROVE Settling'
  <2>1. /\ active' = active /\ lastdata' = lastdata /\ pass' = pass /\ must' = must /\ moved' = moved
        /\ \A k \in Keys : mem'[Other(active)][k] = mem[Other(active)][k]
    BY <1>0, <1>1, StoreEffect
  <2>2. Held(Other(active))' = Held(Other(active)) BY <2>1 DEF Held
  <2>3. \A k \in Keys : Settled(k)' <=> Settled(k) BY <2>1, <2>2 DEF Settled, Held
  <2> QED BY <2>1, <2>2, <2>3 DEF Settling
<1>2. CASE BeginPass
  <2>1. Held(Other(active))' = {} BY <1>0, <1>2 DEF BeginPass, Held, MapsTyped
  <2> QED BY <1>2, <2>1 DEF BeginPass, Settling
<1>3. CASE SwapMem
  <2>1. Other(active') = active /\ mem' = mem BY <1>0, <1>3 DEF SwapMem
  <2>2. Held(Other(active))' = Held(active) BY <2>1 DEF Held
  <2> QED BY <1>3, <2>2 DEF SwapMem, Settling
<1>4. CASE EndPass
  <2>1. \A k \in Keys : Settled(k)
    BY <1>4 DEF EndPass, Settling, Settled, Held
  <2>2. \A k \in Keys : Settled(k)' <=> Settled(k) BY <1>4 DEF EndPass, Settled, Held
  <2> QED BY <1>4, <2>1, <2>2 DEF EndPass, Settling
<1>5. ASSUME NEW k \in Keys, MemToLast(k) PROVE Settling'
  <2>1. Held(Other(active))' = Held(Other(active)) BY <1>5 DEF MemToLast, Held
  <2>2. ASSUME NEW j \in Keys, j \in moved' PROVE Settled(j)'
    <3>1. CASE j = k BY <1>5, <3>1 DEF MemToLast, Settled, MapsTyped
    <3>2. CASE j # k
      <4>1. j \in moved /\ lastdata'[j] = lastdata[j] BY <1>5, <2>2, <3>2 DEF MemToLast, MapsTyped
      <4>2. Settled(j) BY <1>5, <4>1 DEF Settling, MemToLast
      <4> QED BY <1>5, <2>1, <4>1, <4>2 DEF Settled, MemToLast
    <3> QED BY <3>1, <3>2
  <2> QED BY <1>5, <2>1, <2>2 DEF MemToLast, Settling
<1> QED BY <1>1, <1>2, <1>3, <1>4, <1>5 DEF MapsStep

(* What one step does to the positions of one device: a position in a map  *)
(* stays or gives way to one just stored; a device leaves only the retired *)
(* map, and is then in m_lastdata; m_lastdata takes its position in the     *)
(* retired map; a swap finds the other map empty.                          *)
Effect(k) ==
  /\ stored \subseteq stored'
  /\ \A b \in {1, 2} :
       /\ k \in Held(b)' => \/ k \in Held(b) /\ Back(mem[b][k])' = Back(mem[b][k])
                            \/ Back(mem[b][k])' \in stored' \ stored
       /\ k \in Held(b) /\ k \notin Held(b)' =>
            b = Other(active) /\ active' = active /\ lastdata'[k] = Back(mem[b][k])
  /\ \/ lastdata'[k] = lastdata[k]
     \/ k \in Held(Other(active)) /\ lastdata'[k] = Back(mem[Other(active)][k])
  /\ \/ active' = active
     \/ /\ active' = Other(active) /\ k \notin Held(Other(active))
        /\ mem' = mem /\ lastdata' = lastdata

LEMMA MapEffect ==
  ASSUME MapsTyped, Settling, MapsStep, ~raced', NEW k \in Keys
  PROVE  Effect(k) /\ ~raced
<1>0. active \in {1, 2} /\ Other(active) \in {1, 2} /\ Other(active) # active
      /\ \A b \in {1, 2} : mem[b][k] \in Seq(Records)
  BY Others DEF MapsTyped
<1>1. ASSUME NEW r \in Records, Store(r) PROVE Effect(k) /\ ~raced
  <2>1. /\ r \notin stored /\ stored' = stored \cup {r} /\ raced' = raced
        /\ active' = active /\ lastdata' = lastdata
        /\ \A b \in {1, 2} :
             mem'[b][k] = IF b = active /\ k = KeyOf[r] THEN Append(mem[b][k], r) ELSE mem[b][k]
    BY <1>1, StoreEffect
  <2>2. ASSUME NEW b \in {1, 2}, mem'[b][k] = Append(mem[b][k], r)
        PROVE  mem'[b][k] # <<>> /\ Back(mem'[b][k]) = r
    BY <1>0, <2>2, Appended
  <2> QED BY <1>0, <2>1, <2>2 DEF Effect, Held, Back
<1>2. CASE BeginPass
  <2>1. Settled(k) BY <1>2 DEF BeginPass, Settling
  <2>2. /\ mem'[Other(active)][k] = <<>> /\ mem'[active][k] = mem[active][k]
        /\ \A b \in {1, 2} : b # Other(active) => b = active
    BY <1>0, <1>2, Others DEF BeginPass, MapsTyped
  <2> QED BY <1>0, <1>2, <2>1, <2>2 DEF BeginPass, Effect, Held, Settled, Back
<1>3. CASE SwapMem BY <1>0, <1>3 DEF SwapMem, Settling, Effect, Held, Back
<1>4. CASE EndPass BY <1>4 DEF EndPass, Effect, Held, Back
<1>5. ASSUME NEW j \in Keys, MemToLast(j) PROVE Effect(k) /\ ~raced
  BY <1>5 DEF MemToLast, Effect, Held, Back, MapsTyped
<1> QED BY <1>1, <1>2, <1>3, <1>4, <1>5 DEF MapsStep

(* So the newest position of a device changes only to one just stored. *)
LEMMA NewestKept ==
  ASSUME MapsTyped, NEW k \in Keys, Effect(k), active' \in {1, 2}
  PROVE  Newest(k)' = Newest(k) \/ Newest(k)' \in stored' \ stored
<1>0. /\ active \in {1, 2} /\ Other(active) \in {1, 2} /\ active # Other(active)
      /\ Other(Other(active)) = active /\ active # LastData /\ Other(active) # LastData
  BY Others DEF MapsTyped, LastData
<1> DEFINE N == IF k \in Held(active) THEN Back(mem[active][k])
                ELSE IF k \in Held(Other(active)) THEN Back(mem[Other(active)][k])
                ELSE lastdata[k]
<1>1. Newest(k) = N BY <1>0 DEF Newest, Found
<1>2. Newest(k)' = N'
  <2>1. Other(active') \in {1, 2} /\ active' # LastData /\ Other(active') # LastData
    BY Others DEF LastData
  <2> QED BY <2>1 DEF Newest, Found
<1>3. CASE active' = active
  <2>1. Other(active') = Other(active) BY <1>3
  <2> QED BY <1>0, <1>1, <1>2, <1>3, <2>1 DEF Effect, Held, Back
<1>4. CASE active' # active
  <2>1. active' = Other(active) /\ Other(active') = active /\ mem' = mem /\ lastdata' = lastdata
        /\ k \notin Held(Other(active))
    BY <1>0, <1>4 DEF Effect
  <2> QED BY <1>1, <1>2, <2>1 DEF Held, Back
<1> QED BY <1>3, <1>4

-----------------------------------------------------------------------------
(* The invariant, one lemma per kind of step. *)

(* It holds in the beginning. *)
LEMMA QueryInitInv == QueryInit => QueryInv
<1> SUFFICES ASSUME QueryInit PROVE QueryInv OBVIOUS
<1> USE QueryAssumption
<1>0. <<>> \in Seq(Keys) /\ <<>> \in Seq(Records) /\ Nowhere \in [Keys -> Records \cup {None}]
  BY DEF Nowhere
<1>1. MapsTyped
  <2>1. [k \in Keys |-> <<>>] \in [Keys -> Seq(Records)] BY <1>0
  <2>2. mem = [b \in {1, 2} |-> [k \in Keys |-> <<>>]] BY DEF QueryInit, Init
  <2>3. mem \in [{1, 2} -> [Keys -> Seq(Records)]] BY <2>1, <2>2
  <2> QED BY <1>0, <2>3 DEF QueryInit, Init, MapsTyped
<1>2. QueryTyped BY <1>0 DEF QueryInit, Init, QueryTyped, Nothing
<1>3. Control
  BY DEF QueryInit, Control, Nowhere, Nothing, LastToCome, SecondToCome, MainNext, SlaveNext,
         MainSteps, SlaveSteps, SecondSteps, LastSteps, WithLast, LooksAgain, Plan
<1>4. Settling
  <2>1. \A b \in {1, 2} : Held(b) = {} BY DEF QueryInit, Init, Held
  <2>2. Other(active) \in {1, 2} BY <1>1, Others DEF MapsTyped
  <2> QED BY <2>1, <2>2 DEF QueryInit, Init, Settling, Settled
<1>5. MissedRightly BY DEF QueryInit, MissedRightly
<1>6. \A k \in Keys : start[k] = None BY DEF QueryInit, Nowhere
<1> QED BY <1>1, <1>2, <1>3, <1>4, <1>5, <1>6 DEF QueryInv

(* The end of a query leaves nothing to keep. *)
LEMMA ForgetInv ==
  ASSUME QueryInv, Forget, MapsTyped', ~raced' => Settling'
  PROVE  QueryInv'
<1>0. <<>> \in Seq(Keys) /\ Nowhere \in [Keys -> Records \cup {None}] BY DEF Nowhere
<1>1. QueryTyped' BY <1>0 DEF Forget, QueryTyped, Nothing
<1>2. Control'
  BY DEF Forget, Control, Nowhere, Nothing, LastToCome, SecondToCome, MainNext, SlaveNext,
         MainSteps, SlaveSteps, SecondSteps, LastSteps, WithLast, LooksAgain, Plan
<1>3. MissedRightly' BY DEF Forget, MissedRightly
<1>4. \A k \in Keys : start'[k] = None BY DEF Forget, Nowhere
<1> QED BY <1>1, <1>2, <1>3, <1>4 DEF QueryInv

(* Beside a query that goes on, a device stays where the query finds it. *)
LEMMA DeviceKept ==
  ASSUME QueryTyped, MapsTyped, MapsTyped', Control, NEW k \in Keys, start[k] # None,
         Effect(k), Settling, DeviceInv(k),
         source # Nothing => left \subseteq Devices(source)',
         split' = (split \/ (LooksAgain /\ active' # active)),
         UNCHANGED <<query, steps, source, left, slave, answer, lookups, start, before>>
  PROVE  DeviceInv(k)'
<1> USE QueryAssumption
<1>0. /\ active \in {1, 2} /\ Other(active) \in {1, 2} /\ active # Other(active)
      /\ Other(Other(active)) = active /\ stored \subseteq stored'
      /\ \A b \in {1, 2} : b # LastData
  BY Others DEF MapsTyped, LastData, Effect
<1>1. ASSUME NEW p, Good(k, p) PROVE p = start'[k] \/ p \in stored' \ before'
  BY <1>0, <1>1 DEF Good
<1>2. ASSUME NEW p, p \in stored' \ stored PROVE p \in stored' \ before'
  BY <1>2 DEF QueryTyped
<1>3. Good(k, Newest(k))'
  <2>1. Good(k, Newest(k)) BY DEF DeviceInv
  <2>2. Newest(k)' = Newest(k) \/ Newest(k)' \in stored' \ stored
    BY NewestKept DEF MapsTyped
  <2> QED BY <1>1, <1>2, <2>1, <2>2 DEF Good
<1>4. BothGood(k) => BothGood(k)'
  <2> SUFFICES ASSUME BothGood(k), NEW b \in {1, 2}, k \in Held(b)'
               PROVE  Back(mem'[b][k]) = start'[k] \/ Back(mem'[b][k]) \in stored' \ before'
    BY DEF BothGood, Good, Back
  <2>1. CASE k \in Held(b) /\ Back(mem[b][k])' = Back(mem[b][k])
    <3>1. Good(k, Back(mem[b][k])) BY <2>1 DEF BothGood
    <3> QED BY <1>1, <2>1, <3>1 DEF Back
  <2>2. CASE Back(mem[b][k])' \in stored' \ stored BY <1>2, <2>2 DEF Back
  <2> QED BY <2>1, <2>2 DEF Effect
<1>5. BothGood(k) /\ Good(k, lastdata[k]) => Good(k, lastdata[k])'
  <2> SUFFICES ASSUME BothGood(k), Good(k, lastdata[k])
               PROVE  lastdata'[k] = start'[k] \/ lastdata'[k] \in stored' \ before'
    BY DEF Good
  <2>1. k \in Held(Other(active)) => Good(k, Back(mem[Other(active)][k])) BY <1>0 DEF BothGood
  <2> QED BY <1>1, <2>1 DEF Effect
<1>6. ASSUME ~split' PROVE Ready(k)'
  <2>1. ~split /\ (LooksAgain => active' = active) /\ (LooksAgain' <=> LooksAgain)
    BY <1>6 DEF lookups, LooksAgain
  <2>2. k \in Held(active) /\ active' = active => k \in Held(active)'
    BY <1>0 DEF Effect, Held
  <2> QED BY <2>1, <2>2 DEF Ready, DeviceInv, Other
<1>7. ASSUME ~split', answer'[k] # None PROVE Good(k, answer[k])'
  BY <1>1, <1>7 DEF DeviceInv, Good
<1>8. ASSUME ~split', k \in asked' PROVE InSought(k)' \/ Good(k, place[k])'
  <2>1. InSought(k) \/ Good(k, place[k]) BY <1>8 DEF DeviceInv, lookups
  <2> QED BY <1>1, <2>1 DEF InSought, Good, lookups
<1>9. ASSUME ~split' PROVE Covered(k)'
  <2> SUFFICES ASSUME ~LooksAgain', ~Stopped', answer'[k] = None
               PROVE  MustMeet(k)' \/ FoundLater(k)'
    BY DEF Covered
  <2>0. ~split /\ ~LooksAgain /\ ~Stopped /\ answer[k] = None
    BY <1>9 DEF LooksAgain, Stopped, lookups
  <2>1. CASE MustMeet(k)
    <3>1. k \in left /\ source # Nothing BY <2>1 DEF MustMeet, Control
    <3>2. k \in Devices(source)' BY <3>1
    <3>3. CASE source = LastData
      <4>1. BothGood(k) /\ Good(k, lastdata[k]) BY <2>1, <3>3 DEF MustMeet, Found
      <4>2. BothGood(k)' /\ Good(k, lastdata[k])' BY <1>4, <1>5, <4>1
      <4> QED BY <3>1, <3>3, <4>2 DEF MustMeet, Found
    <3>4. CASE source \in {1, 2}
      <4>1. source' = source /\ source # LastData BY <1>0, <3>4
      <4>2. k \in Held(source)'
        BY <3>2, <4>1 DEF Devices, Found
      <4>3. Good(k, Back(mem[source][k])) \/ k \notin Held(source)
        BY <2>1, <4>1 DEF MustMeet, Found
      <4>4. Back(mem'[source][k]) = start'[k] \/ Back(mem'[source][k]) \in stored' \ before'
        BY <1>1, <1>2, <3>4, <4>1, <4>2, <4>3 DEF Effect, Back
      <4> QED BY <3>1, <4>1, <4>2, <4>4 DEF MustMeet, Found, Good, Back
    <3> QED BY <3>1, <3>3, <3>4 DEF QueryTyped
  <2>2. CASE FoundLater(k)
    <3>1. BothGood(k) /\ BothGood(k)' BY <1>4, <2>2 DEF FoundLater
    <3>2. LastToCome' /\ (SecondToCome' <=> SecondToCome) /\ (SlaveNext' <=> SlaveNext)
      BY <2>2 DEF FoundLater, LastToCome, SecondToCome, MainNext, SlaveNext
    <3>3. CASE Good(k, lastdata[k]) BY <1>5, <3>1, <3>2, <3>3 DEF FoundLater
    <3>4. CASE SecondToCome /\ k \in Held(SlaveToScan)
      <4> DEFINE s == SlaveToScan
      <4>1. s \in {1, 2} BY <1>0 DEF SlaveToScan, QueryTyped
      <4>2. CASE k \in Held(SlaveToScan)' BY <3>1, <3>2, <3>4, <4>2 DEF FoundLater
      <4>3. CASE k \notin Held(SlaveToScan)'
        <5>1. active' = active
          <6> SUFFICES ASSUME active' # active PROVE FALSE OBVIOUS
          <6>1. mem' = mem /\ k \notin Held(Other(active)) BY DEF Effect
          <6>2. ~SlaveNext BY <3>4, <6>1 DEF SlaveToScan
          <6> QED BY <3>2, <3>4, <4>3, <6>1, <6>2 DEF SlaveToScan, Held
        <5>2. PICK b \in {1, 2} : b = SlaveToScan BY <4>1
        <5>3. SlaveToScan' = b BY <3>2, <5>1, <5>2 DEF SlaveToScan, Other
        <5>4. k \in Held(b) /\ k \notin Held(b)'
          BY <3>4, <4>3, <5>2, <5>3 DEF Held
        <5>5. lastdata'[k] = Back(mem[b][k]) BY <5>4 DEF Effect
        <5>6. Good(k, Back(mem[b][k])) BY <3>1, <5>4 DEF BothGood
        <5>7. Good(k, lastdata[k])' BY <1>1, <5>5, <5>6 DEF Good
        <5> QED BY <3>1, <3>2, <5>7 DEF FoundLater
      <4> QED BY <4>2, <4>3
    <3> QED BY <2>2, <3>3, <3>4 DEF FoundLater
  <2> QED BY <2>0, <2>1, <2>2 DEF Covered, DeviceInv
<1> QED BY <1>3, <1>6, <1>7, <1>8, <1>9 DEF DeviceInv

LEMMA BesideInv == QueryInv /\ Beside => QueryInv'
<1> SUFFICES ASSUME QueryInv, Beside PROVE QueryInv' OBVIOUS
<1>1. MapsTyped /\ QueryTyped /\ Control /\ MapsStep BY DEF QueryInv, Beside
<1>2. MapsTyped' BY <1>1, MapsTypedKept
<1>3. ~raced' => ~raced
  BY <1>1 DEF MapsStep, Store, BeginPass, SwapMem, EndPass, MemToLast
<1>4. ~raced' => Settling' BY <1>1, <1>3, SettlingKept DEF QueryInv
<1>5. CASE Forget BY <1>2, <1>4, <1>5, ForgetInv
<1>6. CASE /\ \A s \in Iterated : ~Freed(s)
           /\ split' = (split \/ (LooksAgain /\ active' # active))
           /\ UNCHANGED <<query, steps, source, left, slave, answer, lookups, start, before>>
  <2>1. QueryTyped'
    <3>1. stored \subseteq stored'
      BY <1>1 DEF MapsStep, Store, BeginPass, SwapMem, EndPass, MemToLast
    <3> QED BY <1>1, <1>6, <3>1 DEF QueryTyped, lookups
  <2>2. Control'
    <3>1. /\ LooksAgain' <=> LooksAgain
          /\ Stopped' <=> Stopped
          /\ SecondToCome' <=> SecondToCome
          /\ LastToCome' <=> LastToCome
          /\ MainNext' <=> MainNext
      BY <1>6 DEF lookups, LooksAgain, Stopped, SecondToCome, LastToCome, MainNext
    <3> QED BY <1>1, <1>6, <3>1 DEF Control, lookups
  <2>3. ASSUME ~raced' PROVE MissedRightly'
    BY <1>3, <1>6, <2>3 DEF QueryInv, MissedRightly, lookups
  <2>4. ASSUME ~raced', NEW k \in Keys, start'[k] # None PROVE DeviceInv(k)'
    <3>1. Settling /\ start[k] # None /\ DeviceInv(k) BY <1>3, <1>6, <2>4 DEF QueryInv
    <3>2. Effect(k) BY <1>1, <2>4, <3>1, MapEffect
    <3>3. source # Nothing => left \subseteq Devices(source)'
      <4> SUFFICES ASSUME source # Nothing PROVE left \subseteq Devices(source)' OBVIOUS
      <4>1. PICK s : s = source OBVIOUS
      <4>2. ~Freed(s) BY <1>6, <4>1 DEF Iterated
      <4>3. left \subseteq Devices(s)' BY <4>2 DEF Freed
      <4>4. source' = s BY <1>6, <4>1
      <4> QED BY <4>3, <4>4 DEF Devices, Found
    <3> QED BY <1>1, <1>2, <1>6, <3>1, <3>2, <3>3, DeviceKept
  <2> QED BY <1>2, <1>4, <2>1, <2>2, <2>3, <2>4 DEF QueryInv
<1> QED BY <1>5, <1>6 DEF Beside

-----------------------------------------------------------------------------
(* A step of the query leaves the maps alone. *)
LEMMA MapsStill ==
  ASSUME UNCHANGED maps
  PROVE  /\ MapsTyped => MapsTyped'
         /\ Settling => Settling'
         /\ raced' = raced /\ active' = active /\ stored' = stored
         /\ \A b : Held(b)' = Held(b)
         /\ \A s : Devices(s)' = Devices(s)
         /\ \A s, k : Found(s, k)' = Found(s, k)
         /\ \A k : Newest(k)' = Newest(k) /\ lastdata'[k] = lastdata[k]
         /\ \A b, k : Back(mem[b][k])' = Back(mem[b][k])
<1> USE DEF maps
<1>1. mem' = mem /\ active' = active /\ lastdata' = lastdata OBVIOUS
<1>2. \A b : Held(b)' = Held(b) BY <1>1 DEF Held
<1>3. \A s, k : Found(s, k)' = Found(s, k) BY <1>1 DEF Found, Held, Back
<1>4. \A s : Devices(s)' = Devices(s) BY <1>3 DEF Devices
<1>5. \A k : Newest(k)' = Newest(k) BY <1>1 DEF Newest, Found, Held, Back, Other
<1>6. MapsTyped => MapsTyped' BY DEF MapsTyped
<1>7. Settling => Settling' BY <1>1 DEF Settling, Settled, Held, Back, Other
<1>8. \A b, k : Back(mem[b][k])' = Back(mem[b][k]) BY <1>1 DEF Back
<1> QED BY <1>1, <1>2, <1>3, <1>4, <1>5, <1>6, <1>7, <1>8

(* Nor does a step after the first change what is good. *)
LEMMA GoodStill ==
  ASSUME UNCHANGED <<maps, history>>
  PROVE  /\ \A k, p : (p = start'[k] \/ p \in stored' \ before') <=> Good(k, p)
         /\ \A k : Good(k, Newest(k))' <=> Good(k, Newest(k))
         /\ \A k : BothGood(k)' <=> BothGood(k)
         /\ \A k : Good(k, lastdata[k])' <=> Good(k, lastdata[k])
         /\ split' = split /\ start' = start
<1>1. start' = start /\ before' = before /\ split' = split /\ stored' = stored
  BY DEF history, maps
<1>2. \A k : Newest(k)' = Newest(k) /\ lastdata'[k] = lastdata[k] BY MapsStill
<1>3. \A b, k : Back(mem[b][k])' = Back(mem[b][k]) BY MapsStill
<1>4. \A b : Held(b)' = Held(b) BY MapsStill
<1>5. \A k : BothGood(k)' <=> BothGood(k)
  <2> TAKE k
  <2>1. \A b : Good(k, Back(mem[b][k]))' <=> Good(k, Back(mem[b][k]))
    BY <1>1, <1>3 DEF Good
  <2> QED BY <1>4, <2>1 DEF BothGood
<1> QED BY <1>1, <1>2, <1>5 DEF Good

(* A device whose newest position is in S is in S wherever a query that    *)
(* passes the current map by may still find it, and can be found.          *)
LEMMA ReadyIsCovered ==
  ASSUME MapsTyped, NEW k \in Keys, NEW S, Newest(k) \in S
  PROVE  /\ k \in Held(active) => Found(active, k) \in S
         /\ k \notin Held(active) =>
              /\ \A b \in {1, 2} : k \in Held(b) => Back(mem[b][k]) \in S
              /\ lastdata[k] \in S \/ k \in Held(Other(active))
<1>1. /\ active \in {1, 2} /\ Other(active) \in {1, 2} /\ active # LastData
      /\ Other(active) # LastData
      /\ \A b \in {1, 2} : b # active => b = Other(active)
  BY Others DEF MapsTyped, LastData
<1> QED BY <1>1 DEF Newest, Found

(* The steps of each kind of query after the first. *)
LEMMA PlanParts ==
  ASSUME NEW q \in DOMAIN Plan
  PROVE  /\ q \in {"query_last_pos", "query_real_pos", "query_online", "query_real_around",
                   "bykey", "distance"}
         /\ q = "query_last_pos" =>
              Head(Plan[q]) = "main" /\ Tail(Plan[q]) = <<"slave", "second", "lastdata">>
         /\ q = "query_real_pos" =>
              Head(Plan[q]) = "main" /\ Tail(Plan[q]) = <<"slave", "second">>
         /\ q = "query_online" =>
              Head(Plan[q]) = "slave" /\ Tail(Plan[q]) = <<"main", "second", "lastdata">>
         /\ q \in {"query_real_around", "bykey"} =>
              Head(Plan[q]) = "slave" /\ Tail(Plan[q]) = <<"main", "second">>
         /\ q = "distance" => Head(Plan[q]) = "slave" /\ Tail(Plan[q]) = <<>>
         /\ (\E i \in DOMAIN Plan[q] : Plan[q][i] = "lastdata") <=> q \in WithLast
<1>1. q \in {"query_last_pos", "query_real_pos", "query_online", "query_real_around",
             "bykey", "distance"}
  BY DEF Plan
<1>2. ASSUME NEW p, p = <<"main", "slave", "second", "lastdata">>
      PROVE  /\ Head(p) = "main" /\ Tail(p) = <<"slave", "second", "lastdata">>
             /\ \E i \in DOMAIN p : p[i] = "lastdata"
  <2>1. DOMAIN p = 1 .. 4 /\ p[4] = "lastdata" BY <1>2
  <2> QED BY <1>2, <2>1
<1>3. ASSUME NEW p, p = <<"main", "slave", "second">>
      PROVE  /\ Head(p) = "main" /\ Tail(p) = <<"slave", "second">>
             /\ ~\E i \in DOMAIN p : p[i] = "lastdata"
  BY <1>3
<1>4. ASSUME NEW p, p = <<"slave", "main", "second", "lastdata">>
      PROVE  /\ Head(p) = "slave" /\ Tail(p) = <<"main", "second", "lastdata">>
             /\ \E i \in DOMAIN p : p[i] = "lastdata"
  <2>1. DOMAIN p = 1 .. 4 /\ p[4] = "lastdata" BY <1>4
  <2> QED BY <1>4, <2>1
<1>5. ASSUME NEW p, p = <<"slave", "main", "second">>
      PROVE  /\ Head(p) = "slave" /\ Tail(p) = <<"main", "second">>
             /\ ~\E i \in DOMAIN p : p[i] = "lastdata"
  BY <1>5
<1>6. ASSUME NEW p, p = <<"slave">>
      PROVE  /\ Head(p) = "slave" /\ Tail(p) = <<>>
             /\ ~\E i \in DOMAIN p : p[i] = "lastdata"
  BY <1>6
<1>7. CASE q = "query_last_pos"
  <2>1. Plan[q] = <<"main", "slave", "second", "lastdata">> BY <1>7 DEF Plan
  <2> QED BY <1>2, <1>7, <2>1 DEF WithLast
<1>8. CASE q = "query_real_pos"
  <2>1. Plan[q] = <<"main", "slave", "second">> BY <1>8 DEF Plan
  <2> QED BY <1>3, <1>8, <2>1 DEF WithLast
<1>9. CASE q = "query_online"
  <2>1. Plan[q] = <<"slave", "main", "second", "lastdata">> BY <1>9 DEF Plan
  <2> QED BY <1>4, <1>9, <2>1 DEF WithLast
<1>10. CASE q \in {"query_real_around", "bykey"}
  <2>1. Plan[q] = <<"slave", "main", "second">> BY <1>10 DEF Plan
  <2> QED BY <1>5, <1>10, <2>1 DEF WithLast
<1>11. CASE q = "distance"
  <2>1. Plan[q] = <<"slave">> BY <1>11 DEF Plan
  <2> QED BY <1>6, <1>11, <2>1 DEF WithLast
<1> QED BY <1>1, <1>7, <1>8, <1>9, <1>10, <1>11

(* The steps a query may still have to do: which is the next, what remains *)
(* after it, and which iterations are among them.                          *)
StepsFact(s) ==
  /\ s \in MainSteps => /\ s # <<>> /\ Head(s) = "main" /\ s \notin SlaveSteps \cup SecondSteps
                        /\ Tail(s) \in SecondSteps
  /\ s \in SlaveSteps => /\ s # <<>> /\ Head(s) = "slave" /\ s \notin MainSteps \cup SecondSteps
                         /\ Tail(s) \in SecondSteps
  /\ s \in SecondSteps => /\ s # <<>> /\ Head(s) = "second" /\ s \notin MainSteps \cup SlaveSteps
                          /\ Tail(s) \in {<<"lastdata">>, <<>>}
  /\ s = <<"lastdata">> => /\ s # <<>> /\ Head(s) = "lastdata" /\ Tail(s) = <<>>
                          /\ s \notin MainSteps \cup SlaveSteps \cup SecondSteps
  /\ s = <<>> => s \notin MainSteps \cup SlaveSteps \cup SecondSteps \cup LastSteps
  /\ s \in LastSteps => Tail(s) \in LastSteps \/ s = <<"lastdata">>
  /\ s \in {<<"main", "second">>, <<"slave", "second">>, <<"second">>} => s \notin LastSteps
  /\ s \notin LastSteps /\ s # <<>> => Tail(s) \notin LastSteps

LEMMA StepParts ==
  ASSUME NEW s \in MainSteps \cup SlaveSteps \cup SecondSteps \cup LastSteps \cup {<<>>}
  PROVE  StepsFact(s)
<1> USE DEF MainSteps, SlaveSteps, SecondSteps, LastSteps
<1>1. CASE s = <<"main", "second", "lastdata">>
  <2>1. s # <<>> /\ Head(s) = "main" /\ Tail(s) = <<"second", "lastdata">>
        /\ s \notin {<<"main", "second">>,
                  <<"slave", "second", "lastdata">>,
                  <<"slave", "second">>,
                  <<"second", "lastdata">>,
                  <<"second">>,
                  <<"lastdata">>,
                  <<>>}
    BY <1>1
  <2>2. Tail(s) = <<"second", "lastdata">> /\ Tail(s) \notin {<<"main", "second", "lastdata">>,
                  <<"main", "second">>,
                  <<"slave", "second", "lastdata">>,
                  <<"slave", "second">>,
                  <<"second">>,
                  <<"lastdata">>,
                  <<>>}
    BY <1>1
  <2> QED BY <1>1, <2>1, <2>2 DEF StepsFact
<1>2. CASE s = <<"main", "second">>
  <2>1. s # <<>> /\ Head(s) = "main" /\ Tail(s) = <<"second">>
        /\ s \notin {<<"main", "second", "lastdata">>,
                  <<"slave", "second", "lastdata">>,
                  <<"slave", "second">>,
                  <<"second", "lastdata">>,
                  <<"second">>,
                  <<"lastdata">>,
                  <<>>}
    BY <1>2
  <2>2. Tail(s) = <<"second">> /\ Tail(s) \notin {<<"main", "second", "lastdata">>,
                  <<"main", "second">>,
                  <<"slave", "second", "lastdata">>,
                  <<"slave", "second">>,
                  <<"second", "lastdata">>,
                  <<"lastdata">>,
                  <<>>}
    BY <1>2
  <2> QED BY <1>2, <2>1, <2>2 DEF StepsFact
<1>3. CASE s = <<"slave", "second", "lastdata">>
  <2>1. s # <<>> /\ Head(s) = "slave" /\ Tail(s) = <<"second", "lastdata">>
        /\ s \notin {<<"main", "second", "lastdata">>,
                  <<"main", "second">>,
                  <<"slave", "second">>,
                  <<"second", "lastdata">>,
                  <<"second">>,
                  <<"lastdata">>,
                  <<>>}
    BY <1>3
  <2>2. Tail(s) = <<"second", "lastdata">> /\ Tail(s) \notin {<<"main", "second", "lastdata">>,
                  <<"main", "second">>,
                  <<"slave", "second", "lastdata">>,
                  <<"slave", "second">>,
                  <<"second">>,
                  <<"lastdata">>,
                  <<>>}
    BY <1>3
  <2> QED BY <1>3, <2>1, <2>2 DEF StepsFact
<1>4. CASE s = <<"slave", "second">>
  <2>1. s # <<>> /\ Head(s) = "slave" /\ Tail(s) = <<"second">>
        /\ s \notin {<<"main", "second", "lastdata">>,
                  <<"main", "second">>,
                  <<"slave", "second", "lastdata">>,
                  <<"second", "lastdata">>,
                  <<"second">>,
                  <<"lastdata">>,
                  <<>>}
    BY <1>4
  <2>2. Tail(s) = <<"second">> /\ Tail(s) \notin {<<"main", "second", "lastdata">>,
                  <<"main", "second">>,
                  <<"slave", "second", "lastdata">>,
                  <<"slave", "second">>,
                  <<"second", "lastdata">>,
                  <<"lastdata">>,
                  <<>>}
    BY <1>4
  <2> QED BY <1>4, <2>1, <2>2 DEF StepsFact
<1>5. CASE s = <<"second", "lastdata">>
  <2>1. s # <<>> /\ Head(s) = "second" /\ Tail(s) = <<"lastdata">>
        /\ s \notin {<<"main", "second", "lastdata">>,
                  <<"main", "second">>,
                  <<"slave", "second", "lastdata">>,
                  <<"slave", "second">>,
                  <<"second">>,
                  <<"lastdata">>,
                  <<>>}
    BY <1>5
  <2>2. Tail(s) = <<"lastdata">> /\ Tail(s) \notin {<<"main", "second", "lastdata">>,
                  <<"main", "second">>,
                  <<"slave", "second", "lastdata">>,
                  <<"slave", "second">>,
                  <<"second", "lastdata">>,
                  <<"second">>,
                  <<>>}
    BY <1>5
  <2> QED BY <1>5, <2>1, <2>2 DEF StepsFact
<1>6. CASE s = <<"second">>
  <2>1. s # <<>> /\ Head(s) = "second" /\ Tail(s) = <<>>
        /\ s \notin {<<"main", "second", "lastdata">>,
                  <<"main", "second">>,
                  <<"slave", "second", "lastdata">>,
                  <<"slave", "second">>,
                  <<"second", "lastdata">>,
                  <<"lastdata">>,
                  <<>>}
    BY <1>6
  <2>2. Tail(s) = <<>> /\ Tail(s) \notin {<<"main", "second", "lastdata">>,
                  <<"main", "second">>,
                  <<"slave", "second", "lastdata">>,
                  <<"slave", "second">>,
                  <<"second", "lastdata">>,
                  <<"second">>,
                  <<"lastdata">>}
    BY <1>6
  <2> QED BY <1>6, <2>1, <2>2 DEF StepsFact
<1>7. CASE s = <<"lastdata">>
  <2>1. s # <<>> /\ Head(s) = "lastdata" /\ Tail(s) = <<>>
        /\ s \notin {<<"main", "second", "lastdata">>,
                  <<"main", "second">>,
                  <<"slave", "second", "lastdata">>,
                  <<"slave", "second">>,
                  <<"second", "lastdata">>,
                  <<"second">>,
                  <<>>}
    BY <1>7
  <2>2. Tail(s) = <<>> /\ Tail(s) \notin {<<"main", "second", "lastdata">>,
                  <<"main", "second">>,
                  <<"slave", "second", "lastdata">>,
                  <<"slave", "second">>,
                  <<"second", "lastdata">>,
                  <<"second">>,
                  <<"lastdata">>}
    BY <1>7
  <2> QED BY <1>7, <2>1, <2>2 DEF StepsFact
<1>8. CASE s = <<>>
  <2>1. s \notin {<<"main", "second", "lastdata">>,
                  <<"main", "second">>,
                  <<"slave", "second", "lastdata">>,
                  <<"slave", "second">>,
                  <<"second", "lastdata">>,
                  <<"second">>,
                  <<"lastdata">>}
    BY <1>8
  <2> QED BY <1>8, <2>1 DEF StepsFact
<1> QED BY <1>1, <1>2, <1>3, <1>4, <1>5, <1>6, <1>7, <1>8

(* The devices of a request. *)
LEMMA NamedParts ==
  ASSUME NEW q, NEW ks \in Named(q)
  PROVE  /\ ks \in Seq(Keys)
         /\ q \notin {"bykey", "distance"} => ks = <<>> /\ {ks[i] : i \in DOMAIN ks} = {}
         /\ q = "bykey" => /\ ks # <<>> /\ Tail(ks) = <<>>
                           /\ {ks[i] : i \in DOMAIN ks} = {Head(ks)}
<1>1. CASE q = "bykey"
  <2>1. PICK k \in Keys : ks = <<k>> BY <1>1 DEF Named
  <2>2. DOMAIN ks = {1} /\ ks[1] = k /\ Head(ks) = k /\ Tail(ks) = <<>> /\ ks # <<>> BY <2>1
  <2>3. {ks[i] : i \in DOMAIN ks} = {k} BY <2>2
  <2> QED BY <1>1, <2>1, <2>2, <2>3
<1>2. CASE q = "distance"
  <2>1. PICK j \in Keys, k \in Keys : ks = <<j, k>> BY <1>2 DEF Named
  <2> QED BY <1>2, <2>1
<1>3. CASE q \notin {"bykey", "distance"}
  <2>1. ks = <<>> BY <1>3 DEF Named
  <2> QED BY <1>3, <2>1
<1> QED BY <1>1, <1>2, <1>3

(* The request, and the first look at the pointer. *)
LEMMA AskInv ==
  ASSUME QueryInv, NEW q \in DOMAIN Plan, NEW ks \in Named(q), Ask(q, ks)
  PROVE  QueryInv'
<1> USE QueryAssumption
<1>0. /\ MapsTyped /\ QueryTyped /\ Control /\ UNCHANGED maps /\ query = NoQuery
      /\ steps = <<>> /\ sought = <<>> /\ source = Nothing /\ left = {} /\ ~missed
      /\ answer = Nowhere
  BY DEF QueryInv, Ask, Control, QueryTyped
<1>1. MapsTyped' /\ (Settling => Settling') /\ raced' = raced BY <1>0, MapsStill
<1>2. active \in {1, 2} /\ Other(active) \in {1, 2} /\ Other(active) # active
      /\ Other(Other(active)) = active /\ active # Nothing /\ active # LastData
  BY <1>0, Others DEF MapsTyped, Nothing, LastData
<1>3. q \in {"query_last_pos", "query_real_pos", "query_online", "query_real_around",
             "bykey", "distance"}
  BY PlanParts
<1>4. /\ q = "query_last_pos" => steps' = <<"slave", "second", "lastdata">>
      /\ q = "query_real_pos" => steps' = <<"slave", "second">>
      /\ q = "query_online" => steps' = <<"main", "second", "lastdata">>
      /\ q \in {"query_real_around", "bykey"} => steps' = <<"main", "second">>
      /\ q = "distance" => steps' = <<>>
  BY PlanParts DEF Ask
<1>13. /\ q = "query_last_pos" => steps' \in SlaveSteps /\ steps' \in LastSteps
       /\ q = "query_real_pos" => steps' \in SlaveSteps /\ steps' \notin LastSteps
       /\ q = "query_online" => steps' \in MainSteps /\ steps' \in LastSteps
       /\ q \in {"query_real_around", "bykey"} => steps' \in MainSteps /\ steps' \notin LastSteps
       /\ q = "distance" => steps' = <<>> /\ steps' \notin LastSteps
  <2>1. q = "query_last_pos" => steps' \in SlaveSteps /\ steps' \in LastSteps
    BY <1>4 DEF SlaveSteps, LastSteps
  <2>2. q = "query_online" => steps' \in MainSteps /\ steps' \in LastSteps
    BY <1>4 DEF MainSteps, LastSteps
  <2>3. ASSUME steps' = <<"slave", "second">> PROVE steps' \in SlaveSteps /\ steps' \notin LastSteps
    <3>1. steps' \in SlaveSteps BY <2>3 DEF SlaveSteps
    <3> QED BY <2>3, <3>1, StepParts DEF StepsFact
  <2>4. ASSUME steps' = <<"main", "second">> PROVE steps' \in MainSteps /\ steps' \notin LastSteps
    <3>1. steps' \in MainSteps BY <2>4 DEF MainSteps
    <3> QED BY <2>4, <3>1, StepParts DEF StepsFact
  <2>5. ASSUME steps' = <<>> PROVE steps' \notin LastSteps BY <2>5, StepParts DEF StepsFact
  <2> QED BY <1>4, <2>1, <2>2, <2>3, <2>4, <2>5
<1>5. /\ q \in {"query_last_pos", "query_real_pos"} => Head(Plan[q]) = "main"
      /\ q \notin {"query_last_pos", "query_real_pos"} => Head(Plan[q]) = "slave"
  BY <1>3, PlanParts
<1>6. /\ ks \in Seq(Keys)
      /\ q \notin {"bykey", "distance"} => ks = <<>> /\ {ks[i] : i \in DOMAIN ks} = {}
      /\ q = "bykey" => /\ ks # <<>> /\ Tail(ks) = <<>>
                        /\ {ks[i] : i \in DOMAIN ks} = {Head(ks)}
  BY NamedParts
<1>7. /\ LooksAgain' => q \notin {"query_last_pos", "query_real_pos"}
      /\ q \in {"query_online", "query_real_around", "bykey"} => LooksAgain'
  <2>1. sought' = ks BY DEF Ask
  <2>2. q \in {"query_last_pos", "query_real_pos"} => steps' # <<>> /\ Head(steps') = "slave"
    BY <1>13, StepParts DEF StepsFact
  <2>3. q \in {"query_online", "query_real_around", "bykey"} =>
          steps' # <<>> /\ Head(steps') = "main"
    BY <1>13, StepParts DEF StepsFact
  <2> QED BY <1>6, <2>1, <2>2, <2>3 DEF LooksAgain
<1>8. \A k \in Keys : Newest(k) \in Records \cup {None} /\ Found(active, k) \in Records \cup {None}
  <2>1. \A b \in {1, 2} : \A k \in Keys : k \in Held(b) => Back(mem[b][k]) \in Records
    BY <1>0, Appended DEF Held, MapsTyped
  <2> QED BY <1>0, <1>2, <2>1 DEF Newest, Found, MapsTyped, LastData
<1>9. QueryTyped'
  <2>1. start' \in [Keys -> Records \cup {None}] BY <1>8 DEF Ask, Expected
  <2>2. left' \subseteq Keys /\ source' \in {Nothing, 1, 2, LastData} /\ slave' \in {1, 2}
    BY <1>0, <1>2 DEF Ask, Devices, QueryTyped, SlaveMap
  <2>3. before' \subseteq stored' BY <1>0 DEF Ask, maps
  <2>4. asked' \subseteq Keys BY <1>6 DEF Ask
  <2> QED BY <1>0, <1>6, <2>1, <2>2, <2>3, <2>4 DEF Ask, QueryTyped
<1>10. Control'
  <2>2. source' = Nothing => left' = {} BY <1>0, <1>2 DEF Ask
  <2>4. LooksAgain' => source' = Nothing BY <1>0, <1>5, <1>7 DEF Ask
  <2>5. query' = q /\ sought' = ks /\ asked' = {ks[i] : i \in DOMAIN ks} /\ missed' = missed
    BY DEF Ask
  <2>6. /\ SecondToCome' \/ LastToCome' \/ steps' = <<>>
        /\ LastToCome' => q \in WithLast
        /\ q \in WithLast /\ steps' # <<>> => LastToCome'
        /\ q = "bykey" => MainNext'
    BY <1>3, <1>13 DEF LastToCome, SecondToCome, MainNext, WithLast
  <2>7. q = "distance" => steps' = <<>> BY <1>4
  <2>8. query' # NoQuery BY <1>3, <2>5 DEF Plan
  <2>9. Stopped' => steps' = <<>> /\ source' = Nothing
    <3>1. Stopped' => q = "distance" BY <1>6, <2>5 DEF Stopped
    <3> QED BY <1>0, <1>5, <2>7, <3>1 DEF Ask
  <2>10. source' # LastData BY <1>0, <1>2 DEF Ask, Nothing, LastData
  <2> QED BY <1>0, <1>6, <2>2, <2>4, <2>5, <2>6, <2>7, <2>8, <2>9, <2>10 DEF Control
<1>11. MissedRightly' BY <1>0 DEF Ask, MissedRightly
<1>12. ASSUME NEW k \in Keys, start'[k] # None PROVE DeviceInv(k)'
  <2>1. start'[k] = IF q \in WithLast THEN Newest(k) ELSE Found(active, k)
    <3>1. (\E i \in DOMAIN Plan[q] : Plan[q][i] = "lastdata") <=> q \in WithLast BY PlanParts
    <3> QED BY <3>1 DEF Ask, Expected
  <2>2. Newest(k) = start'[k] /\ (q \in WithLast \/ k \in Held(active))
    BY <1>2, <1>12, <2>1 DEF Newest, Found
  <2>3. Newest(k)' = Newest(k) /\ Held(active)' = Held(active) /\ lastdata'[k] = lastdata[k]
        /\ active' = active /\ Found(active, k)' = Found(active, k)
        /\ Held(Other(active))' = Held(Other(active))
    BY <1>0, MapsStill
  <2>4. Good(k, Newest(k))' BY <2>2, <2>3 DEF Good
  <2>5. answer'[k] = None BY <1>0 DEF Ask, Nowhere
  <2>6. Ready(k)'
    <3> SUFFICES ASSUME LooksAgain' PROVE active' = Other(slave') /\ (q \in WithLast \/ k \in Held(active)')
      BY <2>5 DEF Ready, Ask
    <3>1. q \notin {"query_last_pos", "query_real_pos"} BY <1>7
    <3>2. slave' = Other(active) BY <1>5, <3>1 DEF Ask, SlaveMap
    <3> QED BY <1>2, <2>2, <2>3, <3>2
  <2>7. Covered(k)'
    <3> SUFFICES ASSUME ~LooksAgain', ~Stopped' PROVE MustMeet(k)' \/ FoundLater(k)'
      BY DEF Covered
    <3>1. q \in {"query_last_pos", "query_real_pos"}
      <4>1. q # "distance" BY DEF Stopped, Ask
      <4> QED BY <1>3, <1>7, <4>1
    <3>2. source' = active /\ left' = Devices(active) BY <1>5, <3>1 DEF Ask
    <3>3. PICK S : S = {start'[k]} \cup (stored' \ before') OBVIOUS
    <3>6. Newest(k) \in S BY <2>2, <3>3
    <3>4. CASE k \in Held(active)
      <4>1. Good(k, Found(active, k))'
        <5>1. Found(active, k) \in S BY <1>0, <3>4, <3>6, ReadyIsCovered
        <5> QED BY <2>3, <3>3, <5>1 DEF Good
      <4>2. k \in Devices(active)
        <5>1. Back(mem[active][k]) \in Records BY <1>0, <3>4, Appended DEF Held, MapsTyped
        <5> QED BY <1>2, <3>4, <5>1 DEF Devices, Found
      <4> QED BY <1>2, <2>3, <3>2, <4>1, <4>2 DEF MustMeet, Good, Found
    <3>5. CASE k \notin Held(active)
      <4>1. q = "query_last_pos" BY <2>2, <3>1, <3>5 DEF WithLast
      <4>2. LastToCome' /\ SlaveNext' /\ SecondToCome'
        BY <1>13, <4>1 DEF LastToCome, SlaveNext, SecondToCome
      <4>3. /\ \A b \in {1, 2} : k \in Held(b) => Back(mem[b][k]) \in S
            /\ lastdata[k] \in S \/ k \in Held(Other(active))
        BY <1>0, <3>5, <3>6, ReadyIsCovered
      <4>4. BothGood(k)' BY <1>0, <3>3, <4>3, MapsStill DEF BothGood, Good
      <4>5. Good(k, lastdata[k])' \/ k \in Held(Other(active))' BY <2>3, <3>3, <4>3 DEF Good
      <4> QED BY <4>2, <4>4, <4>5 DEF FoundLater, SlaveToScan
    <3> QED BY <3>4, <3>5
  <2>8. k \in asked' => InSought(k)' BY DEF Ask, InSought
  <2> QED BY <2>4, <2>5, <2>6, <2>7, <2>8 DEF DeviceInv
<1> QED BY <1>0, <1>1, <1>9, <1>10, <1>11, <1>12 DEF QueryInv

(* What a query does next. *)
LEMMA NextParts ==
  ASSUME Control
  PROVE  /\ StepsFact(steps)
         /\ LooksAgain <=> sought # <<>> \/ MainNext
         /\ NextStep("main") => MainNext
         /\ NextStep("slave") => SlaveNext
         /\ NextStep("second") => steps \in SecondSteps
         /\ NextStep("lastdata") => steps = <<"lastdata">>
         /\ \A p : NextStep(p) => source = Nothing /\ left = {} /\ sought = <<>> /\ ~Stopped
                                  /\ query # NoQuery /\ ~missed
<1>1. steps \in MainSteps \cup SlaveSteps \cup SecondSteps \cup LastSteps \cup {<<>>}
  BY DEF Control, SecondToCome, LastToCome
<1>2. StepsFact(steps) BY <1>1, StepParts
<1>3. steps \in MainSteps \cup SlaveSteps \cup SecondSteps \/ steps = <<"lastdata">> \/ steps = <<>>
  BY <1>1 DEF MainSteps, SlaveSteps, SecondSteps, LastSteps
<1>4. LooksAgain <=> sought # <<>> \/ MainNext BY <1>2, <1>3 DEF StepsFact, LooksAgain, MainNext
<1> QED BY <1>2, <1>3, <1>4 DEF StepsFact, NextStep, MainNext, SlaveNext, Control

(* A step of the query that stays within its device invariant. *)
LEMMA QueryStepInv ==
  ASSUME QueryInv, UNCHANGED <<maps, history>>, QueryTyped', Control',
         ~raced => MissedRightly',
         ~raced => \A k \in Keys : start[k] # None /\ DeviceInv(k) => DeviceInv(k)'
  PROVE  QueryInv'
<1>1. start' = start /\ raced' = raced BY DEF history, maps
<1>2. MapsTyped' /\ (Settling => Settling') BY MapsStill DEF QueryInv
<1> QED BY <1>1, <1>2 DEF QueryInv

LEMMA ReadSlaveInv == QueryInv /\ ReadSlave => QueryInv'
<1> SUFFICES ASSUME QueryInv, ReadSlave PROVE QueryInv' OBVIOUS
<1>0. /\ MapsTyped /\ QueryTyped /\ Control /\ UNCHANGED <<maps, history, lookups>>
      /\ UNCHANGED <<query, source, left, answer>>
  BY DEF QueryInv, ReadSlave
<1>1. SlaveNext /\ left = {} /\ sought = <<>> /\ ~Stopped /\ source = Nothing
      /\ query # NoQuery /\ ~missed
  BY <1>0, NextParts DEF ReadSlave
<1>2. /\ ~LooksAgain /\ steps' \in SecondSteps /\ (LastToCome' <=> LastToCome)
      /\ steps # <<>> /\ steps' # <<>> /\ StepsFact(steps')
  <2>1. StepsFact(steps) /\ ~LooksAgain BY <1>0, <1>1, NextParts DEF StepsFact, SlaveNext, MainNext
  <2>2. steps' = Tail(steps) BY DEF ReadSlave
  <2>3. steps' \in SecondSteps BY <1>1, <2>1, <2>2 DEF StepsFact, SlaveNext
  <2>4. StepsFact(steps') BY <2>3, StepParts
  <2>5. steps # <<"lastdata">> BY <1>1, <2>1 DEF StepsFact, SlaveNext
  <2> QED BY <1>1, <2>1, <2>2, <2>3, <2>4, <2>5 DEF StepsFact, SlaveNext, LastToCome
<1>3. ~LooksAgain' /\ SecondToCome' /\ ~SlaveNext' /\ ~MainNext'
  BY <1>0, <1>1, <1>2 DEF StepsFact, LooksAgain, SecondToCome, SlaveNext, MainNext, lookups
<1>4. active \in {1, 2} /\ Other(active) \in {1, 2} /\ active' = active
      /\ slave' = Other(active)
  BY <1>0, Others DEF MapsTyped, ReadSlave, SlaveMap, maps
<1>5. QueryTyped' BY <1>0, <1>4 DEF QueryTyped, history, lookups, maps
<1>6. Control'
  <2>1. ~Stopped' BY <1>0, <1>1 DEF Stopped, lookups
  <2> QED BY <1>0, <1>1, <1>2, <1>3, <2>1 DEF Control, lookups, Nothing, LastData
<1>7. MissedRightly' BY <1>0, <1>1 DEF MissedRightly, lookups
<1>8. ASSUME NEW k \in Keys, start[k] # None, DeviceInv(k) PROVE DeviceInv(k)'
  <2>1. Good(k, Newest(k))' BY <1>0, <1>8, GoodStill DEF DeviceInv
  <2>2. split' = split /\ Ready(k)' BY <1>0, <1>3, GoodStill DEF Ready
  <2>3. ~split /\ answer'[k] # None => Good(k, answer[k])'
    BY <1>0, <1>8, GoodStill DEF DeviceInv, Good
  <2>4. ~split /\ answer'[k] = None => FoundLater(k)'
    <3> SUFFICES ASSUME ~split, answer'[k] = None PROVE FoundLater(k)' OBVIOUS
    <3>1. FoundLater(k) BY <1>0, <1>1, <1>2, <1>8 DEF DeviceInv, Covered, MustMeet
    <3>2. BothGood(k)' /\ LastToCome' BY <1>0, <1>2, <3>1, GoodStill DEF FoundLater
    <3>3. Good(k, lastdata[k])' \/ k \in Held(Other(active))
      BY <1>0, <1>1, <3>1, GoodStill DEF FoundLater, SlaveToScan
    <3>4. SlaveToScan' = Other(active) BY <1>3, <1>4 DEF SlaveToScan
    <3>5. \A b : Held(b)' = Held(b) BY <1>0, MapsStill
    <3>6. Good(k, lastdata[k])' \/ k \in Held(SlaveToScan)'
      BY <1>0, <3>3, <3>4, <3>5 DEF Held, maps
    <3> QED BY <1>3, <3>2, <3>6 DEF FoundLater
  <2>5. ~split /\ k \in asked' => InSought(k)' \/ Good(k, place[k])'
    BY <1>0, <1>8, GoodStill DEF DeviceInv, InSought, Good, lookups
  <2> QED BY <2>1, <2>2, <2>3, <2>4, <2>5 DEF DeviceInv, Covered
<1> QED BY <1>0, <1>5, <1>6, <1>7, <1>8, QueryStepInv

(* The second look at the pointer: what is not in the current map waits in  *)
(* the other one or in m_lastdata.                                         *)
LEMMA ScanMainInv == QueryInv /\ Scan("main", active) => QueryInv'
<1> SUFFICES ASSUME QueryInv, Scan("main", active) PROVE QueryInv' OBVIOUS
<1> USE QueryAssumption
<1>0. /\ MapsTyped /\ QueryTyped /\ Control /\ UNCHANGED <<maps, history, lookups>>
      /\ UNCHANGED <<query, slave, answer>>
  BY DEF QueryInv, Scan
<1>1. MainNext /\ left = {} /\ sought = <<>> /\ ~Stopped /\ query # NoQuery /\ ~missed /\ LooksAgain
  BY <1>0, NextParts DEF Scan
<1>2. /\ steps' \in SecondSteps /\ (LastToCome' <=> LastToCome) /\ StepsFact(steps')
      /\ steps # <<>> /\ steps' # <<>> /\ ~SlaveNext
  <2>1. StepsFact(steps) BY <1>0, NextParts
  <2>2. steps' = Tail(steps) BY DEF Scan
  <2>3. steps' \in SecondSteps BY <1>1, <2>1, <2>2 DEF StepsFact, MainNext
  <2>4. StepsFact(steps') BY <2>3, StepParts
  <2>5. steps # <<"lastdata">> BY <1>1, <2>1 DEF StepsFact, MainNext
  <2> QED BY <1>1, <2>1, <2>2, <2>3, <2>4, <2>5 DEF StepsFact, MainNext, SlaveNext, LastToCome
<1>3. ~LooksAgain' /\ SecondToCome' /\ ~SlaveNext' /\ ~MainNext'
  BY <1>0, <1>1, <1>2 DEF StepsFact, LooksAgain, SecondToCome, SlaveNext, MainNext, lookups
<1>4. /\ active \in {1, 2} /\ Other(active) \in {1, 2} /\ active' = active
      /\ source' = active /\ left' = Devices(active) \ Answered
      /\ active # Nothing /\ active # LastData
      /\ Other(slave) = active => Other(active) = slave
  BY <1>0, Others DEF MapsTyped, QueryTyped, Scan, maps, Nothing, LastData
<1>5. QueryTyped' BY <1>0, <1>4 DEF QueryTyped, history, lookups, maps, Devices
<1>6. Control'
  <2>1. ~Stopped' BY <1>0, <1>1 DEF Stopped, lookups
  <2> QED BY <1>0, <1>1, <1>2, <1>3, <1>4, <2>1 DEF Control, lookups
<1>7. MissedRightly' BY <1>0, <1>1 DEF MissedRightly, lookups
<1>8. ASSUME NEW k \in Keys, start[k] # None, DeviceInv(k) PROVE DeviceInv(k)'
  <2>1. Good(k, Newest(k))' BY <1>0, <1>8, GoodStill DEF DeviceInv
  <2>2. split' = split /\ Ready(k)' BY <1>0, <1>3, GoodStill DEF Ready
  <2>3. ~split /\ answer'[k] # None => Good(k, answer[k])'
    BY <1>0, <1>8, GoodStill DEF DeviceInv, Good
  <2>4. ASSUME ~split, answer'[k] = None PROVE MustMeet(k)' \/ FoundLater(k)'
    <3>1. /\ active = Other(slave) /\ answer[k] = None /\ (query \in WithLast \/ k \in Held(active))
      BY <1>1, <1>8, <2>4 DEF DeviceInv, Ready
    <3>2. PICK S : S = {start'[k]} \cup (stored' \ before') OBVIOUS
    <3>3. Newest(k) \in S BY <1>0, <1>8, <3>2, GoodStill DEF DeviceInv
    <3>4. CASE k \in Held(active)
      <4>1. Found(active, k) \in S BY <1>0, <3>3, <3>4, ReadyIsCovered
      <4>2. Found(active, k)' = Found(active, k)
        <5>1. PICK b : b = active OBVIOUS
        <5>2. Found(b, k)' = Found(b, k) BY <1>0, MapsStill
        <5> QED BY <1>4, <5>1, <5>2 DEF Found
      <4>3. k \in Devices(active)
        <5>1. Back(mem[active][k]) \in Records BY <1>0, <1>4, <3>4, Appended DEF Held, MapsTyped
        <5> QED BY <1>4, <3>4, <5>1 DEF Devices, Found
      <4>4. k \in left' BY <1>4, <3>1, <4>3 DEF Answered
      <4>5. Good(k, Found(source, k))'
        BY <1>4, <3>2, <4>1, <4>2 DEF Good
      <4> QED BY <1>4, <4>4, <4>5 DEF MustMeet
    <3>5. CASE k \notin Held(active)
      <4>1. LastToCome' BY <1>0, <1>2, <3>1, <3>5 DEF Control
      <4>2. /\ \A b \in {1, 2} : k \in Held(b) => Back(mem[b][k]) \in S
            /\ lastdata[k] \in S \/ k \in Held(Other(active))
        BY <1>0, <3>3, <3>5, ReadyIsCovered
      <4>3. BothGood(k)' BY <1>0, <3>2, <4>2, MapsStill DEF BothGood, Good
      <4>4. SlaveToScan' = Other(active) BY <1>0, <1>3, <1>4, <3>1 DEF SlaveToScan
      <4>5. Good(k, lastdata[k])' \/ k \in Held(SlaveToScan)'
        BY <1>0, <3>2, <4>2, <4>4 DEF Good, Held, maps
      <4> QED BY <1>3, <4>1, <4>3, <4>5 DEF FoundLater
    <3> QED BY <3>4, <3>5
  <2>5. ~split /\ k \in asked' => InSought(k)' \/ Good(k, place[k])'
    BY <1>0, <1>8, GoodStill DEF DeviceInv, InSought, Good, lookups
  <2> QED BY <2>1, <2>2, <2>3, <2>4, <2>5 DEF DeviceInv, Covered
<1> QED BY <1>0, <1>5, <1>6, <1>7, <1>8, QueryStepInv

(* The iterations after it. *)
LEMMA ScanSecondInv == QueryInv /\ Scan("second", slave) => QueryInv'
<1> SUFFICES ASSUME QueryInv, Scan("second", slave) PROVE QueryInv' OBVIOUS
<1> USE QueryAssumption
<1>0. /\ MapsTyped /\ QueryTyped /\ Control /\ UNCHANGED <<maps, history, lookups>>
      /\ UNCHANGED <<query, slave, answer>>
  BY DEF QueryInv, Scan
<1>1. /\ steps \in SecondSteps /\ left = {} /\ sought = <<>> /\ ~Stopped /\ query # NoQuery
      /\ ~missed
  BY <1>0, NextParts DEF Scan
<1>2. /\ ~LooksAgain /\ ~SlaveNext /\ StepsFact(steps') /\ steps # <<>>
      /\ steps' \in {<<"lastdata">>, <<>>}
      /\ LastToCome => steps' = <<"lastdata">>
      /\ LastToCome' <=> LastToCome
      /\ steps' = <<"lastdata">> => steps' # <<>> /\ LastToCome'
  <2>1. StepsFact(steps) /\ (LooksAgain <=> sought # <<>> \/ MainNext) BY <1>0, NextParts
  <2>2. steps' = Tail(steps) BY DEF Scan
  <2>3. steps' \in {<<"lastdata">>, <<>>} BY <1>1, <2>1, <2>2 DEF StepsFact
  <2>4. <<"lastdata">> \in LastSteps BY DEF LastSteps
  <2>5. StepsFact(steps') BY <2>3, <2>4, StepParts
  <2>6. steps # <<"lastdata">> BY <1>1, <2>1 DEF StepsFact
  <2>7. ~LooksAgain /\ ~SlaveNext BY <1>1, <2>1 DEF StepsFact, MainNext, SlaveNext
  <2>8. LastToCome' <=> LastToCome
    BY <1>1, <2>1, <2>2, <2>6 DEF StepsFact, LastToCome
  <2> QED BY <1>1, <2>1, <2>2, <2>3, <2>4, <2>5, <2>7, <2>8 DEF StepsFact, LastToCome
<1>3. ~LooksAgain' /\ ~SecondToCome' /\ ~SlaveNext' /\ ~MainNext'
  BY <1>0, <1>1, <1>2 DEF StepsFact, LooksAgain, SecondToCome, SlaveNext, MainNext, lookups
<1>4. slave \in {1, 2} /\ source' = slave /\ left' = Devices(slave) \ Answered
      /\ slave # Nothing /\ slave # LastData
  BY <1>0 DEF QueryTyped, Scan, Nothing, LastData
<1>5. QueryTyped' BY <1>0, <1>4 DEF QueryTyped, history, lookups, maps, Devices
<1>6. Control'
  <2>1. ~Stopped' BY <1>0, <1>1 DEF Stopped, lookups
  <2> QED BY <1>0, <1>1, <1>2, <1>3, <1>4, <2>1 DEF Control, lookups
<1>7. MissedRightly' BY <1>0, <1>1 DEF MissedRightly, lookups
<1>8. ASSUME NEW k \in Keys, start[k] # None, DeviceInv(k) PROVE DeviceInv(k)'
  <2>1. Good(k, Newest(k))' BY <1>0, <1>8, GoodStill DEF DeviceInv
  <2>2. split' = split /\ Ready(k)' BY <1>0, <1>3, GoodStill DEF Ready
  <2>3. ~split /\ answer'[k] # None => Good(k, answer[k])'
    BY <1>0, <1>8, GoodStill DEF DeviceInv, Good
  <2>4. ASSUME ~split, answer'[k] = None PROVE MustMeet(k)' \/ FoundLater(k)'
    <3>1. FoundLater(k) /\ answer[k] = None
      BY <1>0, <1>1, <1>2, <1>8, <2>4 DEF DeviceInv, Covered, MustMeet
    <3>2. BothGood(k)' /\ LastToCome' BY <1>0, <1>2, <3>1, GoodStill DEF FoundLater
    <3>3. CASE k \in Held(slave)
      <4>1. Back(mem[slave][k]) \in Records /\ Found(slave, k) = Back(mem[slave][k])
        BY <1>0, <1>4, <3>3, Appended DEF Held, MapsTyped, Found
      <4>2. k \in left' BY <1>4, <3>1, <3>3, <4>1 DEF Answered, Devices
      <4>3. Good(k, Found(slave, k)) BY <1>4, <3>1, <3>3, <4>1 DEF FoundLater, BothGood
      <4>4. Found(slave, k)' = Found(slave, k)
        <5>1. PICK b : b = slave OBVIOUS
        <5>2. Found(b, k)' = Found(b, k) BY <1>0, MapsStill
        <5> QED BY <1>0, <5>1, <5>2 DEF Found
      <4>5. Good(k, Found(source, k))'
        <5>1. Found(source, k)' = Found(slave, k) BY <1>0, <1>4, <4>4 DEF Found
        <5> QED BY <1>0, <4>3, <5>1, GoodStill DEF Good
      <4> QED BY <1>4, <4>2, <4>5 DEF MustMeet
    <3>4. CASE k \notin Held(slave)
      <4>1. Good(k, lastdata[k]) BY <1>2, <3>1, <3>4 DEF FoundLater, SlaveToScan
      <4> QED BY <1>0, <3>2, <4>1, GoodStill DEF FoundLater
    <3> QED BY <3>3, <3>4
  <2>5. ~split /\ k \in asked' => InSought(k)' \/ Good(k, place[k])'
    BY <1>0, <1>8, GoodStill DEF DeviceInv, InSought, Good, lookups
  <2> QED BY <2>1, <2>2, <2>3, <2>4, <2>5 DEF DeviceInv, Covered
<1> QED BY <1>0, <1>5, <1>6, <1>7, <1>8, QueryStepInv

LEMMA ScanLastInv == QueryInv /\ Scan("lastdata", LastData) => QueryInv'
<1> SUFFICES ASSUME QueryInv, Scan("lastdata", LastData) PROVE QueryInv' OBVIOUS
<1> USE QueryAssumption
<1>0. /\ MapsTyped /\ QueryTyped /\ Control /\ UNCHANGED <<maps, history, lookups>>
      /\ UNCHANGED <<query, slave, answer>>
  BY DEF QueryInv, Scan
<1>1. /\ steps = <<"lastdata">> /\ left = {} /\ sought = <<>> /\ ~Stopped /\ query # NoQuery
      /\ ~missed
  BY <1>0, NextParts DEF Scan
<1>2. ~LooksAgain /\ ~SlaveNext /\ ~SecondToCome /\ steps' = <<>> /\ StepsFact(steps')
  <2>1. StepsFact(steps) /\ (LooksAgain <=> sought # <<>> \/ MainNext) BY <1>0, NextParts
  <2>2. steps' = <<>> BY <1>1, <2>1 DEF Scan, StepsFact
  <2>3. StepsFact(steps') BY <2>2, StepParts
  <2> QED BY <1>1, <2>1, <2>2, <2>3 DEF StepsFact, MainNext, SlaveNext, SecondToCome
<1>3. ~LooksAgain' /\ ~SecondToCome' /\ ~MainNext' /\ ~LastToCome'
  BY <1>0, <1>1, <1>2 DEF StepsFact, LooksAgain, SecondToCome, LastToCome, MainNext, lookups
<1>4. source' = LastData /\ left' = Devices(LastData) \ Answered /\ LastData # Nothing
  BY DEF Scan, Nothing, LastData
<1>5. QueryTyped' BY <1>0, <1>4 DEF QueryTyped, history, lookups, maps, Devices
<1>6. Control'
  <2>1. ~Stopped' BY <1>0, <1>1 DEF Stopped, lookups
  <2> QED BY <1>0, <1>1, <1>2, <1>3, <1>4, <2>1 DEF Control, lookups
<1>7. MissedRightly' BY <1>0, <1>1 DEF MissedRightly, lookups
<1>8. ASSUME NEW k \in Keys, start[k] # None, DeviceInv(k) PROVE DeviceInv(k)'
  <2>1. Good(k, Newest(k))' BY <1>0, <1>8, GoodStill DEF DeviceInv
  <2>2. split' = split /\ Ready(k)' BY <1>0, <1>3, GoodStill DEF Ready
  <2>3. ~split /\ answer'[k] # None => Good(k, answer[k])'
    BY <1>0, <1>8, GoodStill DEF DeviceInv, Good
  <2>4. ASSUME ~split, answer'[k] = None PROVE MustMeet(k)'
    <3>1. FoundLater(k) /\ answer[k] = None
      BY <1>0, <1>1, <1>2, <1>8, <2>4 DEF DeviceInv, Covered, MustMeet
    <3>2. Good(k, lastdata[k]) /\ BothGood(k) BY <1>2, <3>1 DEF FoundLater
    <3>3. lastdata[k] # None BY <1>0, <1>8, <3>2 DEF Good, MapsTyped
    <3>4. k \in left' BY <1>4, <3>1, <3>3 DEF Answered, Devices, Found
    <3>5. Good(k, lastdata[k])' /\ BothGood(k)' BY <1>0, <3>2, GoodStill
    <3> QED BY <1>4, <3>4, <3>5 DEF MustMeet, Found
  <2>5. ~split /\ k \in asked' => InSought(k)' \/ Good(k, place[k])'
    BY <1>0, <1>8, GoodStill DEF DeviceInv, InSought, Good, lookups
  <2> QED BY <2>1, <2>2, <2>3, <2>4, <2>5 DEF DeviceInv, Covered
<1> QED BY <1>0, <1>5, <1>6, <1>7, <1>8, QueryStepInv

(* One turn of a loop, and its end. *)
LEMMA MeetInv == \A j \in Keys : QueryInv /\ Meet(j) => QueryInv'
<1> SUFFICES ASSUME NEW j \in Keys, QueryInv, Meet(j) PROVE QueryInv' OBVIOUS
<1> USE QueryAssumption
<1>0. /\ MapsTyped /\ QueryTyped /\ Control /\ UNCHANGED <<maps, history, lookups>>
      /\ UNCHANGED <<query, steps, source, slave>>
      /\ source # Nothing /\ answer[j] = None /\ Found(source, j) # None
      /\ answer' = [answer EXCEPT ![j] = Found(source, j)] /\ left' = left \ {j}
  BY DEF QueryInv, Meet, Devices, Answered
<1>1. /\ ~LooksAgain /\ ~Stopped /\ sought = <<>> /\ query # NoQuery /\ ~missed
      /\ source = LastData => ~LastToCome
  <2>1. source = LastData => steps = <<>> BY <1>0 DEF Control
  <2>2. StepsFact(steps) BY <1>0, NextParts
  <2> QED BY <1>0, <2>1, <2>2 DEF Control, StepsFact, LooksAgain, LastToCome
<1>2. /\ LooksAgain' <=> LooksAgain
      /\ Stopped' <=> Stopped
      /\ SecondToCome' <=> SecondToCome
      /\ LastToCome' <=> LastToCome
      /\ MainNext' <=> MainNext
      /\ SlaveNext' <=> SlaveNext
  BY <1>0 DEF lookups, LooksAgain, Stopped, SecondToCome, LastToCome, MainNext, SlaveNext
<1>3. Found(source, j) \in Records \cup {None}
  BY <1>0, Appended DEF Found, Held, MapsTyped, QueryTyped, LastData
<1>4. QueryTyped' BY <1>0, <1>3 DEF QueryTyped, history, lookups, maps
<1>5. Control' BY <1>0, <1>1, <1>2 DEF Control, lookups
<1>6. MissedRightly' BY <1>0, <1>1 DEF MissedRightly, lookups
<1>7. ASSUME NEW k \in Keys, start[k] # None, DeviceInv(k) PROVE DeviceInv(k)'
  <2>1. Good(k, Newest(k))' BY <1>0, <1>7, GoodStill DEF DeviceInv
  <2>2. split' = split /\ Ready(k)' BY <1>0, <1>1, <1>2, GoodStill DEF Ready
  <2>3. ~split /\ k \in asked' => InSought(k)' \/ Good(k, place[k])'
    BY <1>0, <1>7, GoodStill DEF DeviceInv, InSought, Good, lookups
  <2>4. CASE k = j
    <3>1. answer'[k] = Found(source, k) BY <1>0, <2>4 DEF QueryTyped
    <3>2. ASSUME ~split PROVE Good(k, Found(source, k))
      <4>1. MustMeet(k) \/ FoundLater(k)
        BY <1>0, <1>1, <1>7, <2>4, <3>2 DEF DeviceInv, Covered
      <4>2. CASE MustMeet(k) BY <4>2 DEF MustMeet
      <4>3. CASE FoundLater(k)
        <5>1. source \in {1, 2} /\ source # LastData
          BY <1>0, <1>1, <4>3 DEF FoundLater, QueryTyped, LastData
        <5>2. k \in Held(source) /\ Found(source, k) = Back(mem[source][k])
          BY <1>0, <2>4, <5>1 DEF Found
        <5> QED BY <4>3, <5>1, <5>2 DEF FoundLater, BothGood
      <4> QED BY <4>1, <4>2, <4>3
    <3>3. ~split => Good(k, answer[k])' BY <1>0, <3>1, <3>2, GoodStill DEF Good
    <3>4. answer'[k] # None BY <1>0, <2>4, <3>1
    <3> QED BY <2>1, <2>2, <2>3, <3>3, <3>4 DEF DeviceInv, Covered
  <2>5. CASE k # j
    <3>1. answer'[k] = answer[k] /\ (k \in left' <=> k \in left) BY <1>0, <2>5 DEF QueryTyped
    <3>2. ~split /\ answer'[k] # None => Good(k, answer[k])'
      BY <1>0, <1>7, <3>1, GoodStill DEF DeviceInv, Good
    <3>3. MustMeet(k) => MustMeet(k)'
      <4>1. Found(source, k)' = Found(source, k)
        <5>1. PICK s : s = source OBVIOUS
        <5>2. Found(s, k)' = Found(s, k) BY <1>0, MapsStill
        <5> QED BY <1>0, <5>1, <5>2 DEF Found
      <4>2. Good(k, Found(source, k)) => Good(k, Found(source, k))'
        BY <1>0, <4>1, GoodStill DEF Good
      <4> QED BY <1>0, <3>1, <4>2, GoodStill DEF MustMeet
    <3>4. FoundLater(k) => FoundLater(k)'
      <4>1. SlaveToScan' = SlaveToScan /\ Held(SlaveToScan)' = Held(SlaveToScan)
        BY <1>0, <1>2 DEF SlaveToScan, Held, Other, maps
      <4> QED BY <1>0, <1>2, <4>1, GoodStill DEF FoundLater
    <3>5. Covered(k) => Covered(k)' BY <1>2, <3>1, <3>3, <3>4 DEF Covered
    <3> QED BY <1>7, <2>1, <2>2, <2>3, <3>2, <3>5 DEF DeviceInv
  <2> QED BY <2>4, <2>5
<1> QED BY <1>0, <1>4, <1>5, <1>6, <1>7, QueryStepInv

LEMMA EndScanInv == QueryInv /\ EndScan => QueryInv'
<1> SUFFICES ASSUME QueryInv, EndScan PROVE QueryInv' OBVIOUS
<1>0. /\ MapsTyped /\ QueryTyped /\ Control /\ UNCHANGED <<maps, history, lookups>>
      /\ UNCHANGED <<query, steps, slave, answer, left>>
      /\ source # Nothing /\ source' = Nothing /\ left = {}
  BY DEF QueryInv, EndScan
<1>1. /\ LooksAgain' <=> LooksAgain
      /\ Stopped' <=> Stopped
      /\ SecondToCome' <=> SecondToCome
      /\ LastToCome' <=> LastToCome
      /\ MainNext' <=> MainNext
      /\ SlaveNext' <=> SlaveNext
  BY <1>0 DEF lookups, LooksAgain, Stopped, SecondToCome, LastToCome, MainNext, SlaveNext
<1>2. QueryTyped' BY <1>0 DEF QueryTyped, history, lookups, maps
<1>3. Control' BY <1>0, <1>1 DEF Control, lookups, Nothing, LastData
<1>4. ~raced => MissedRightly' BY <1>0 DEF QueryInv, MissedRightly, lookups, history
<1>5. ASSUME NEW k \in Keys, start[k] # None, DeviceInv(k) PROVE DeviceInv(k)'
  <2>1. Good(k, Newest(k))' BY <1>0, <1>5, GoodStill DEF DeviceInv
  <2>2. split' = split /\ (~split => Ready(k)')
    BY <1>0, <1>1, <1>5, MapsStill, GoodStill DEF DeviceInv, Ready, Held, maps
  <2>3. ~split /\ k \in asked' => InSought(k)' \/ Good(k, place[k])'
    BY <1>0, <1>5, GoodStill DEF DeviceInv, InSought, Good, lookups
  <2>4. ~split /\ answer'[k] # None => Good(k, answer[k])'
    BY <1>0, <1>5, GoodStill DEF DeviceInv, Good
  <2>5. FoundLater(k) => FoundLater(k)'
    <3>1. SlaveToScan' = SlaveToScan /\ Held(SlaveToScan)' = Held(SlaveToScan)
      BY <1>0, <1>1 DEF SlaveToScan, Held, Other, maps
    <3> QED BY <1>0, <1>1, <3>1, GoodStill DEF FoundLater
  <2>6. ~split => Covered(k)' BY <1>0, <1>1, <1>5, <2>5 DEF DeviceInv, Covered, MustMeet
  <2> QED BY <2>1, <2>2, <2>3, <2>4, <2>6 DEF DeviceInv
<1> QED BY <1>0, <1>2, <1>3, <1>4, <1>5, QueryStepInv

(* The look-ups. *)
LEMMA FindInv == QueryInv /\ Find => QueryInv'
<1> SUFFICES ASSUME QueryInv, Find PROVE QueryInv' OBVIOUS
<1> USE QueryAssumption
<1> DEFINE h == Head(sought)
<1>0. /\ MapsTyped /\ QueryTyped /\ Control /\ UNCHANGED <<maps, history>>
      /\ UNCHANGED <<query, steps, source, left, slave, answer, asked>>
      /\ sought # <<>> /\ sought \in Seq(Keys) /\ ~missed /\ LooksAgain /\ source = Nothing
      /\ query \in {"bykey", "distance"} /\ query \notin WithLast /\ h \in Keys
  BY DEF QueryInv, Find, QueryTyped, Control, LooksAgain, WithLast
<1>1. /\ SecondToCome' <=> SecondToCome
      /\ LastToCome' <=> LastToCome
      /\ MainNext' <=> MainNext
      /\ SlaveNext' <=> SlaveNext
      /\ StepsFact(steps') /\ (LooksAgain' <=> sought' # <<>> \/ MainNext)
  <2>1. StepsFact(steps) /\ steps' = steps BY <1>0, NextParts
  <2>2. Control BY <1>0
  <2>3. steps \in MainSteps \cup SlaveSteps \cup SecondSteps \/ steps = <<"lastdata">> \/ steps = <<>>
    BY <2>2 DEF Control, SecondToCome, LastToCome, MainSteps, SlaveSteps, SecondSteps, LastSteps
  <2> QED BY <2>1, <2>3 DEF SecondToCome, LastToCome, MainNext, SlaveNext, StepsFact, LooksAgain
<1>2. CASE h \in Held(active)
  <2>0. /\ place' = [place EXCEPT ![h] = Found(active, h)] /\ sought' = Tail(sought)
        /\ missed' = missed
    BY <1>0, <1>2 DEF Find
  <2>1. Found(active, h) = Newest(h) /\ Found(active, h) \in Records
    BY <1>0, <1>2, Appended DEF Newest, Found, Held, MapsTyped, LastData
  <2>2. QueryTyped' BY <1>0, <2>0, <2>1 DEF QueryTyped, history, maps
  <2>3. Stopped' => query = "distance"
    <3>1. query = "bykey" => asked' = {h} /\ place'[h] # None
      BY <1>0, <2>0, <2>1 DEF Control, QueryTyped
    <3> QED BY <1>0, <3>1 DEF Stopped
  <2>4. query = "bykey" => sought' = <<>> BY <1>0, <2>0 DEF Control
  <2>5. Control' BY <1>0, <1>1, <2>0, <2>3, <2>4 DEF Control, Stopped
  <2>6. MissedRightly' BY <1>0, <2>0 DEF MissedRightly
  <2>7. ASSUME NEW k \in Keys, start[k] # None, DeviceInv(k) PROVE DeviceInv(k)'
    <3>1. Good(k, Newest(k)) /\ Good(k, Newest(k))' BY <1>0, <2>7, GoodStill DEF DeviceInv
    <3>2. split' = split /\ (~split => Ready(k)')
      BY <1>0, <1>1, <2>7, MapsStill, GoodStill DEF DeviceInv, Ready, Held, maps
    <3>3. ~split /\ answer'[k] # None => Good(k, answer[k])'
      BY <1>0, <2>7, GoodStill DEF DeviceInv, Good
    <3>4. ASSUME ~split, k \in asked', ~InSought(k)' PROVE Good(k, place[k])'
      <4>1. CASE k = h
        <5>1. place'[k] = Newest(k) BY <1>0, <2>0, <2>1, <4>1 DEF QueryTyped
        <5> QED BY <1>0, <3>1, <5>1, GoodStill DEF Good
      <4>2. CASE k # h
        <5>1. ~InSought(k)
          <6> SUFFICES ASSUME NEW i \in DOMAIN sought, sought[i] = k PROVE FALSE BY DEF InSought
          <6>1. i # 1 /\ i \in 1 .. Len(sought) BY <1>0, <4>2
          <6>2. i - 1 \in DOMAIN Tail(sought) /\ Tail(sought)[i - 1] = k BY <1>0, <6>1
          <6> QED BY <2>0, <3>4, <6>2 DEF InSought
        <5>2. Good(k, place[k]) /\ place'[k] = place[k]
          BY <1>0, <2>0, <2>7, <3>4, <4>2, <5>1 DEF DeviceInv, QueryTyped
        <5> QED BY <1>0, <5>2, GoodStill DEF Good
      <4> QED BY <4>1, <4>2
    <3>5. Covered(k)'
      <4>1. query = "bykey" => LooksAgain' BY <1>0, <1>1 DEF Control
      <4>2. query = "distance" => Stopped' BY <1>0 DEF Stopped
      <4> QED BY <1>0, <4>1, <4>2 DEF Covered
    <3> QED BY <3>1, <3>2, <3>3, <3>4, <3>5 DEF DeviceInv
  <2> QED BY <1>0, <2>2, <2>5, <2>6, <2>7, QueryStepInv
<1>3. CASE h \notin Held(active)
  <2>0. UNCHANGED <<place, sought>> /\ missed' = TRUE BY <1>0, <1>3 DEF Find
  <2>1. QueryTyped' BY <1>0, <2>0 DEF QueryTyped, history, maps
  <2>2. Stopped' <=> Stopped BY <1>0, <2>0 DEF Stopped
  <2>3. Control' BY <1>0, <1>1, <2>0, <2>2 DEF Control
  <2>4. ~raced => MissedRightly'
    BY <1>0, <1>3, <2>0 DEF QueryInv, DeviceInv, Ready, MissedRightly, history
  <2>5. ASSUME NEW k \in Keys, start[k] # None, DeviceInv(k) PROVE DeviceInv(k)'
    <3>1. Good(k, Newest(k))' BY <1>0, <2>5, GoodStill DEF DeviceInv
    <3>2. split' = split /\ (~split => Ready(k)')
      BY <1>0, <1>1, <2>5, MapsStill, GoodStill DEF DeviceInv, Ready, Held, maps
    <3>3. ~split /\ answer'[k] # None => Good(k, answer[k])'
      BY <1>0, <2>5, GoodStill DEF DeviceInv, Good
    <3>4. ~split /\ k \in asked' => InSought(k)' \/ Good(k, place[k])'
      BY <1>0, <2>0, <2>5, GoodStill DEF DeviceInv, InSought, Good
    <3>5. Covered(k)' BY <1>0, <1>1, <2>0 DEF Covered
    <3> QED BY <3>1, <3>2, <3>3, <3>4, <3>5 DEF DeviceInv
  <2> QED BY <1>0, <2>1, <2>3, <2>4, <2>5, QueryStepInv
<1> QED BY <1>2, <1>3

LEMMA FindElsewhereInv == QueryInv /\ FindElsewhere => QueryInv'
<1> SUFFICES ASSUME QueryInv, FindElsewhere PROVE QueryInv' OBVIOUS
<1> USE QueryAssumption
<1> DEFINE h == Head(sought)
<1>0. /\ MapsTyped /\ QueryTyped /\ Control /\ UNCHANGED <<maps, history>>
      /\ UNCHANGED <<query, source, left, slave, answer, asked>>
      /\ missed /\ missed' = FALSE /\ sought # <<>> /\ sought \in Seq(Keys)
      /\ LooksAgain /\ source = Nothing /\ h \in Keys
      /\ query \in {"bykey", "distance"} /\ query \notin WithLast
      /\ sought' = Tail(sought) /\ place' = [place EXCEPT ![h] = Found(slave, h)]
      /\ steps' = IF h \in Held(slave) THEN steps ELSE <<>>
  BY DEF QueryInv, FindElsewhere, QueryTyped, Control, LooksAgain, WithLast
<1>1. /\ Found(slave, h) \in Records \cup {None}
      /\ h \in Held(slave) => Found(slave, h) # None
      /\ h \notin Held(slave) => Found(slave, h) = None
  BY <1>0, Appended DEF Found, Held, MapsTyped, QueryTyped, LastData
<1>2. steps \in MainSteps \cup SlaveSteps \cup SecondSteps \/ steps = <<"lastdata">> \/ steps = <<>>
  BY <1>0 DEF Control, SecondToCome, LastToCome, MainSteps, SlaveSteps, SecondSteps, LastSteps
<1>3. StepsFact(steps) /\ StepsFact(<<>>) BY <1>0, NextParts, StepParts
<1>4. QueryTyped'
  <2>1. Tail(sought) \in Seq(Keys) BY <1>0
  <2>2. place' \in [Keys -> Records \cup {None}] BY <1>0, <1>1 DEF QueryTyped
  <2>3. UNCHANGED <<stored, start, before, split>> BY <1>0 DEF history, maps
  <2> QED BY <1>0, <2>1, <2>2, <2>3 DEF QueryTyped
<1>5. query = "bykey" => sought' = <<>> /\ asked' = {h} /\ MainNext BY <1>0 DEF Control
<1>6. query = "distance" => steps' = <<>> BY <1>0 DEF Control
<1>7. /\ query = "bykey" /\ h \in Held(slave) => steps' = steps /\ ~Stopped' /\ LooksAgain'
      /\ query = "bykey" /\ h \notin Held(slave) => steps' = <<>> /\ Stopped' /\ ~LooksAgain'
      /\ query = "distance" => Stopped'
  <2>1. place'[h] = Found(slave, h) BY <1>0 DEF QueryTyped
  <2> QED BY <1>0, <1>1, <1>2, <1>3, <1>5, <2>1 DEF Stopped, LooksAgain, StepsFact, MainNext
<1>8. Control'
  <2>1. /\ SecondToCome' \/ LastToCome' \/ steps' = <<>>
        /\ ~LastToCome' /\ query' \notin WithLast
    <3>1. ~LastToCome BY <1>0 DEF Control
    <3> QED BY <1>0, <1>3, <3>1 DEF Control, SecondToCome, LastToCome, StepsFact
  <2>2. Stopped' => steps' = <<>> /\ source' = Nothing BY <1>0, <1>5, <1>6, <1>7
  <2>3. source' = Nothing /\ source' # LastData BY <1>0 DEF Nothing, LastData
  <2>4. query = "bykey" => sought' = <<>> BY <1>5
  <2>5. query' # NoQuery BY <1>0 DEF Control
  <2>6. left' = {} BY <1>0 DEF Control
  <2> QED BY <1>0, <1>6, <2>1, <2>2, <2>3, <2>4, <2>5, <2>6 DEF Control
<1>9. MissedRightly' BY <1>0 DEF MissedRightly
<1>10. ASSUME ~raced, NEW k \in Keys, start[k] # None, DeviceInv(k) PROVE DeviceInv(k)'
  <2>1. Good(k, Newest(k))' BY <1>0, <1>10, GoodStill DEF DeviceInv
  <2>2. split' = split /\ (~split => Ready(k)')
    BY <1>0, <1>10, MapsStill, GoodStill DEF DeviceInv, Ready, Held, maps
  <2>3. ~split /\ answer'[k] # None => Good(k, answer[k])'
    BY <1>0, <1>10, GoodStill DEF DeviceInv, Good
  <2>4. ASSUME ~split, k \in asked', ~InSought(k)' PROVE Good(k, place[k])'
    <3>1. k # h BY <1>0, <1>10, <2>4 DEF QueryInv, MissedRightly
    <3>2. ~InSought(k)
      <4> SUFFICES ASSUME NEW i \in DOMAIN sought, sought[i] = k PROVE FALSE BY DEF InSought
      <4>1. i # 1 /\ i \in 1 .. Len(sought) BY <1>0, <3>1
      <4>2. i - 1 \in DOMAIN Tail(sought) /\ Tail(sought)[i - 1] = k BY <1>0, <4>1
      <4> QED BY <1>0, <2>4, <4>2 DEF InSought
    <3>3. Good(k, place[k]) /\ place'[k] = place[k]
      BY <1>0, <1>10, <2>4, <3>1, <3>2 DEF DeviceInv, QueryTyped
    <3> QED BY <1>0, <3>3, GoodStill DEF Good
  <2>5. Covered(k)' BY <1>0, <1>7 DEF Covered
  <2> QED BY <2>1, <2>2, <2>3, <2>4, <2>5 DEF DeviceInv
<1> QED BY <1>0, <1>4, <1>8, <1>9, <1>10, QueryStepInv

-----------------------------------------------------------------------------
(* The invariant holds throughout. *)
LEMMA QueryNextInv == QueryInv /\ [Beside \/ Query]_<<maps, qvars>> => QueryInv'
<1> SUFFICES ASSUME QueryInv, [Beside \/ Query]_<<maps, qvars>> PROVE QueryInv' OBVIOUS
<1>1. CASE Beside BY <1>1, BesideInv
<1>2. CASE Query
  <2>1. ASSUME NEW q \in DOMAIN Plan, NEW ks \in Named(q), Ask(q, ks) PROVE QueryInv'
    BY <2>1, AskInv
  <2>2. CASE Reply
    <3>1. MapsTyped' /\ (Settling => Settling') /\ raced' = raced
      BY <2>2, MapsStill DEF QueryInv, Reply
    <3> QED BY <2>2, <3>1, ForgetInv DEF QueryInv, Reply
  <2> QED
    BY <1>2, <2>1, <2>2, FindInv, FindElsewhereInv, ReadSlaveInv, ScanMainInv, ScanSecondInv,
       ScanLastInv, MeetInv, EndScanInv
    DEF Query
<1>3. CASE UNCHANGED <<maps, qvars>>
  <2>1. UNCHANGED <<maps, history>> /\ UNCHANGED <<query, steps, source, left, slave, answer, lookups>>
    BY <1>3 DEF qvars
  <2>2. /\ LooksAgain' <=> LooksAgain
        /\ Stopped' <=> Stopped
        /\ SecondToCome' <=> SecondToCome
        /\ LastToCome' <=> LastToCome
        /\ MainNext' <=> MainNext
        /\ SlaveNext' <=> SlaveNext
    BY <2>1 DEF lookups, LooksAgain, Stopped, SecondToCome, LastToCome, MainNext, SlaveNext
  <2>3. QueryTyped' BY <2>1 DEF QueryInv, QueryTyped, history, lookups, maps
  <2>4. Control' BY <2>1, <2>2 DEF QueryInv, Control, lookups, history
  <2>5. ~raced => MissedRightly' BY <2>1 DEF QueryInv, MissedRightly, lookups, history
  <2>6. ASSUME NEW k \in Keys, start[k] # None, DeviceInv(k) PROVE DeviceInv(k)'
    <3>1. Good(k, Newest(k))' BY <2>1, <2>6, GoodStill DEF DeviceInv
    <3>2. split' = split /\ (~split => Ready(k)')
      BY <2>1, <2>2, <2>6, MapsStill, GoodStill DEF DeviceInv, Ready, Held, maps
    <3>3. ~split /\ answer'[k] # None => Good(k, answer[k])'
      BY <2>1, <2>6, GoodStill DEF DeviceInv, Good
    <3>4. ~split /\ k \in asked' => InSought(k)' \/ Good(k, place[k])'
      BY <2>1, <2>6, GoodStill DEF DeviceInv, InSought, Good, lookups
    <3>5. FoundLater(k) => FoundLater(k)'
      <4>1. SlaveToScan' = SlaveToScan /\ Held(SlaveToScan)' = Held(SlaveToScan)
        BY <2>1, <2>2 DEF SlaveToScan, Held, Other, maps
      <4> QED BY <2>1, <2>2, <4>1, GoodStill DEF FoundLater
    <3>6. MustMeet(k) => MustMeet(k)'
      <4>1. Found(source, k)' = Found(source, k)
        <5>1. PICK s : s = source OBVIOUS
        <5>2. Found(s, k)' = Found(s, k) BY <2>1, MapsStill
        <5> QED BY <2>1, <5>1, <5>2 DEF Found
      <4>2. Good(k, Found(source, k)) => Good(k, Found(source, k))'
        BY <2>1, <4>1, GoodStill DEF Good
      <4> QED BY <2>1, <4>2, GoodStill DEF MustMeet
    <3>7. ~split => Covered(k)' BY <2>1, <2>2, <2>6, <3>5, <3>6 DEF DeviceInv, Covered
    <3> QED BY <3>1, <3>2, <3>3, <3>4, <3>7 DEF DeviceInv
  <2> QED BY <2>1, <2>3, <2>4, <2>5, <2>6, QueryStepInv
<1> QED BY <1>1, <1>2, <1>3

LEMMA QueryCorrect == QuerySpec => []QueryInv
<1> QED BY QueryInitInv, QueryNextInv, PTL DEF QuerySpec

LEMMA FreshByInv == QueryInv => AnswersFresh
<1> SUFFICES ASSUME QueryInv, Finished, ~raced, ~split
             PROVE  /\ \A k \in asked : Fresh(place, k)
                    /\ \/ query = "distance" \/ (\E k \in asked : place[k] = None)
                       \/ \A k \in Keys : Fresh(answer, k)
  BY DEF AnswersFresh
<1>0. steps = <<>> /\ sought = <<>> /\ source = Nothing /\ asked \subseteq Keys
      /\ Control /\ left = {}
  BY DEF Finished, QueryInv, QueryTyped, Control
<1>1. ~LooksAgain /\ ~LastToCome
  <2>1. StepsFact(<<>>) BY StepParts
  <2> QED BY <1>0, <2>1 DEF LooksAgain, LastToCome, StepsFact
<1>2. \A k \in Keys : start[k] # None => DeviceInv(k) BY DEF QueryInv
<1>3. ASSUME NEW k \in asked PROVE Fresh(place, k)
  <2>1. ~InSought(k) BY <1>0 DEF InSought
  <2> QED BY <1>0, <1>2, <2>1 DEF DeviceInv, Good, Fresh
<1>4. ASSUME ~Stopped, NEW k \in Keys PROVE Fresh(answer, k)
  <2>1. start[k] # None => answer[k] # None
    BY <1>0, <1>1, <1>2, <1>4 DEF DeviceInv, Covered, MustMeet, FoundLater
  <2> QED BY <1>2, <2>1 DEF DeviceInv, Good, Fresh
<1> QED BY <1>0, <1>3, <1>4 DEF Stopped

(* Whatever passes and writers do beside a query, and for any number of     *)
(* devices and records, each position it reports was the last one of its    *)
(* device when the query began, or was stored since, except across a swap   *)
(* between its two looks at the pointer (query_* of lastpos_query.cpp and    *)
(* realpos_query.cpp, without a lock on either map).                       *)
THEOREM FreshAnswers == QuerySpec => []AnswersFresh
<1> QED BY QueryCorrect, FreshByInv, PTL
=============================================================================
