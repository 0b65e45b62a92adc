------------------------------ MODULE GpsInfo ------------------------------
(***************************************************************************)
(* The information clients keep of a device ("name=..,model=.."), beside   *)
(* the register of ids of GpsidWriter: a map, and a file to which the REST *)
(* thread appends a line for each write.  GpsInfoToMem reads the file back *)
(* at the next start, writes one line for each device to a .bak file and   *)
(* renames it over the first.  Of the two registers the id register is     *)
(* loaded first; the same process, killed at any step, keeps both, and the *)
(* REST thread writes to one at a time.                                    *)
(*                                                                         *)
(* The file is its lines of each device: the order of lines of different   *)
(* devices only decides which columns queries know, which is left out.  A  *)
(* value is characterised by how a line of it reads back: not at all when  *)
(* it has no comma, and up to its first blank otherwise.  A file that does *)
(* not open ends the start, as a kill does.                                *)
(***************************************************************************)
EXTENDS GpsidWriter, Sequences, SequencesExt, FiniteSetsExt

CONSTANTS
  Infos,     (* values clients send *)
  Readable,  (* values with a comma *)
  ReadAs,    (* what is read back of them *)
  NoInfo,    (* nothing known of a device *)
  MaxInfos   (* bound: how many values are sent *)

ASSUME InfoAssumption ==
  /\ ReadAs \in [Readable -> Infos] /\ Readable \subseteq Infos
  /\ NoInfo \notin Infos \cup Ids
  /\ MaxInfos \in Nat

VARIABLES
  info_file,    \* the lines of each device
  info_bak,     \* the lines of the .bak file while it is written
  gpsinfodata,  \* m_gpsinfodata
  phase,        \* progress of the start
  writing,      \* the device whose line the REST thread has still to append
  \* history
  accepted,     \* the last value written to the file
  infos

register == <<gpsid_file, gpsid_map, is_init, up, writer, history>>
info     == <<info_file, info_bak, gpsinfodata, phase, writing, accepted, infos>>

Unknown == [k \in Ids |-> NoInfo]
NoLines == [k \in Ids |-> <<>>]

InfoInit ==
  /\ Init
  /\ info_file = NoLines /\ info_bak = NoLines /\ gpsinfodata = Unknown
  /\ phase = "down" /\ writing = NoInfo
  /\ accepted = Unknown /\ infos = 0

-----------------------------------------------------------------------------
(* GpsInfoToMem.  Of the lines of a device the last one with a comma counts. *)
ReadLines(k) ==
  LET line   == info_file[k]
      parsed == {i \in DOMAIN line : line[i] \in Readable}
  IN IF parsed = {} THEN NoInfo ELSE ReadAs[line[Max(parsed)]]

Known     == {k \in Ids : gpsinfodata[k] # NoInfo}
Compacted == {k \in Ids : info_bak[k] # <<>>}

Load ==
  /\ phase = "down" /\ Start
  /\ phase' = "compact"
  /\ gpsinfodata' = [k \in Ids |-> ReadLines(k)]
  /\ info_bak' = NoLines
  /\ UNCHANGED <<info_file, writing, accepted, infos>>

CompactLine(k) ==
  /\ phase = "compact"
  /\ k \in Known \ Compacted
  /\ info_bak' = [info_bak EXCEPT ![k] = <<gpsinfodata[k]>>]
  /\ UNCHANGED <<info_file, gpsinfodata, phase, writing, accepted, infos, register>>

BugRenameEarly == TRUE
AllCompacted   == Compacted = Known

Rename ==
  /\ phase = "compact" /\ AllCompacted
  /\ info_file' = info_bak
  /\ info_bak' = NoLines
  /\ phase' = "up"
  /\ UNCHANGED <<gpsinfodata, writing, accepted, infos, register>>

Kill ==
  /\ Crash
  /\ info_bak' = NoLines /\ gpsinfodata' = Unknown
  /\ phase' = "down" /\ writing' = NoInfo
  /\ UNCHANGED <<info_file, accepted, infos>>

(* gps_info_writer::write_gpsinfo: the map, then the file; that a write to *)
(* the file fails is not noticed                                           *)
RestIdle == writing = NoInfo /\ \A w \in RestWriters : wpc[w] = "idle"

WriteInfo(k, v) ==
  /\ phase = "up" /\ RestIdle
  /\ infos < MaxInfos
  /\ infos' = infos + 1
  /\ gpsinfodata' = [gpsinfodata EXCEPT ![k] = v]
  /\ writing' = k
  /\ UNCHANGED <<info_file, info_bak, phase, accepted, register>>

AppendInfo(k) ==
  /\ writing = k
  /\ \/ /\ info_file' = [info_file EXCEPT ![k] = Append(@, gpsinfodata[k])]
        /\ accepted' = [accepted EXCEPT ![k] = gpsinfodata[k]]
        /\ UNCHANGED fails
     \/ /\ fails < MaxFails
        /\ fails' = fails + 1
        /\ accepted' = [accepted EXCEPT ![k] = NoInfo]
        /\ UNCHANGED info_file
  /\ writing' = NoInfo
  /\ UNCHANGED <<info_bak, gpsinfodata, phase, infos, gpsid_file, gpsid_map, is_init, up,
                 writer, logged, exempt, raced, crashes>>

(* the threads of GpsidWriter, once both registers are loaded *)
Beside ==
  /\ phase = "up"
  /\ \E w \in Writers :
       (w \in RestWriters => writing = NoInfo) /\ (Receive(w) \/ WriteLog(w) \/ InsertGpsIDMsg(w))
  /\ UNCHANGED info

InfoNext ==
  \/ Load \/ Rename \/ Kill \/ Beside
  \/ \E k \in Ids : \/ CompactLine(k) \/ AppendInfo(k)
                    \/ \E v \in Infos : WriteInfo(k, v)

InfoSpec == InfoInit /\ [][InfoNext]_<<register, info>>

-----------------------------------------------------------------------------
(* What a client last wrote of a device is what queries find, however the  *)
(* process is killed and restarted, if a line of the value reads back as   *)
(* it was.  (A value of one column is gone at the next start, where an     *)
(* older one reappears; one with a blank is cut there, and what is left of *)
(* it may be gone at the start after that.)                                *)
ReadsBack(v) == v \in Readable /\ ReadAs[v] = v

InfoKept ==
  phase = "up" =>
    \A k \in Ids : k # writing /\ accepted[k] # NoInfo /\ ReadsBack(accepted[k]) =>
      gpsinfodata[k] = accepted[k]
=============================================================================
