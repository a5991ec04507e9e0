------------------------------ MODULE SmsStore ------------------------------
(***************************************************************************)
(* The local ("TA") message storage the layer patches into ModemManager:   *)
(* smsdb.json, which holds the PDUs of stored messages, the index counter  *)
(* and the default storage; the messages ModemManager lists on the bus;    *)
(* and the default route kept by the modem.                                *)
(*                                                                         *)
(* Every operation reads the file, changes one thing and writes the whole  *)
(* file back, replacing it atomically.  A message of several parts takes   *)
(* one such operation per part.  Reads and writes may fail, the modem may  *)
(* refuse a request, and the daemon may stop anywhere: it then loads its   *)
(* list from the file.                                                     *)
(*                                                                         *)
(* What ModemManager itself does around the patched functions (its bus     *)
(* calls, its list, the order of its enabling steps) is modelled from how  *)
(* the patches use it.                                                     *)
(***************************************************************************)
EXTENDS Naturals, FiniteSets

CONSTANTS
    Sms,        \* messages
    Parts,      \* number of parts of each
    MaxRef,     \* bound: indexes given out, far below the 32 bits of msg_ref
    MaxFaults   \* bound: failing reads and writes and refused requests

ASSUME PartsAssumption == Parts \in [Sms -> Nat \ {0}]
ASSUME BoundsAssumption == MaxRef \in Nat /\ MaxFaults \in Nat

VARIABLES
    db,        \* smsdb.json
    route,     \* the modem's route: "me", or "none" when it stores nothing
    phase,     \* of the messaging interface
    default,   \* property sms-default-storage
    setting,   \* SetDefaultStorage in progress: the storage, or "no"
    asked,     \* history: the storages the user may expect to be in use
    list,      \* the messages on the bus
    kept,      \* history: stored, as the user was told, and not to be deleted
    op,        \* Store or Delete in progress, with the part it is at
    faults     \* failures so far

vars == <<db, route, phase, default, setting, asked, list, kept, op, faults>>

Storages == {"me", "ta"}
Loaded == {"load", "enabled"}

NoOp == [kind |-> "none"]
Unlisted(m) == [status |-> "none", idx |-> [p \in 1 .. Parts[m] |-> 0]]
Cleared == [m \in Sms |-> Unlisted(m)]

Init ==
    /\ db = [present |-> FALSE, storage |-> "unknown", ref |-> 0, entries |-> [i \in {} |-> i]]
    /\ route = "none" /\ phase = "off" /\ default = "unknown"
    /\ setting = "no" /\ asked = Storages
    /\ list = Cleared /\ kept = {} /\ op = NoOp /\ faults = 0

NoFault == UNCHANGED faults
Fault == faults < MaxFaults /\ faults' = faults + 1

-----------------------------------------------------------------------------
(* mm-sms-storage.c: what a successful operation leaves in the file.       *)

Indexes == DOMAIN db.entries

\* Mutant: the index is the number of stored messages, not a counter.
M_NewRef == Cardinality(Indexes) + 1

\* msg_ref is read back from the file and counts on.
NewRef == db.ref + 1

\* mm_sms_storage_store_message
WithPart(m, p) ==
    [db EXCEPT !.present = TRUE, !.ref = NewRef,
               !.entries = [i \in Indexes \cup {NewRef} |->
                   IF i = NewRef THEN [sms |-> m, part |-> p] ELSE @[i]]]

\* mm_sms_storage_delete_message: an index that is not there is no error.
WithoutIndex(i) ==
    [db EXCEPT !.entries = [j \in Indexes \ {i} |-> @[j]]]

\* Mutant: a file that is not there is not created.
M_WithDefault(s) == [db EXCEPT !.storage = s]

\* mm_sms_update_default_storage_type
WithDefault(s) == [db EXCEPT !.present = TRUE, !.storage = s]

\* Callers of the update only warn when it fails.
UpdateDefault(s) ==
    \/ db' = WithDefault(s) /\ NoFault
    \/ UNCHANGED db /\ Fault

-----------------------------------------------------------------------------
(* From the start of the daemon to an enabled messaging interface.         *)

Start ==
    /\ phase = "off"
    /\ phase' = "routes"
    /\ UNCHANGED <<db, route, default, setting, asked, list, kept, op, faults>>

\* The modem's own route comes first, then what the file remembers, then TA.
RouteOf(saved) ==
    IF route = "me" THEN "me"
    ELSE IF saved # "unknown" THEN saved ELSE "ta"

\* The error of a failed read is freed but still handed to the update, which
\* writes through it when it fails in turn: undefined behaviour.
Unsaved(readFailed) == IF readFailed THEN {"defaults", "crashed"} ELSE {"defaults"}

\* wms_get_routes_ready.  A file that cannot be read counts as unknown.
GetRoutesReady ==
    /\ phase = "routes"
    /\ \/ /\ default' = RouteOf(db.storage)
          /\ \/ NoFault /\ db' = WithDefault(default') /\ phase' = "defaults"
             \/ Fault /\ UNCHANGED db /\ phase' \in Unsaved(route = "none" /\ ~db.present)
       \/ /\ route = "none" /\ Fault
          /\ default' = RouteOf("unknown")
          /\ \/ db' = WithDefault(default') /\ phase' = "defaults"
             \/ UNCHANGED db /\ phase' \in Unsaved(TRUE)
       \/ Fault /\ phase' = "defaults" /\ UNCHANGED <<default, db>>  \* no answer
    /\ UNCHANGED <<route, setting, asked, list, kept, op>>

\* ENABLING_STEP_STORAGE_DEFAULTS: an unknown default becomes ME.
StorageDefaults ==
    /\ phase = "defaults"
    /\ phase' = "set-routes"
    /\ default' = IF default = "unknown" THEN "me" ELSE default
    /\ UpdateDefault(default')
    /\ UNCHANGED <<route, setting, asked, list, kept, op>>

\* messaging_set_default_storage: with TA the modem is to store nothing.
RouteFor(s) == IF s = "ta" THEN "none" ELSE "me"

EnableRoutes ==
    /\ phase = "set-routes"
    /\ phase' = "load"
    /\ \/ route' = RouteFor(default) /\ NoFault
       \/ UNCHANGED route /\ Fault
    /\ UNCHANGED <<db, default, setting, asked, list, kept, op>>

\* Two entries for the same part of a message: the second one cannot be added,
\* and its NULL error is dereferenced for the log.
Clash(I) ==
    \E i, j \in I : /\ i # j /\ db.entries[i] = db.entries[j]
                    /\ Parts[db.entries[i].sms] > 1

\* The list as load_messages_from_ta_storage builds it from these indexes.
Listed(I) ==
    [m \in Sms |->
        LET mine == {i \in I : db.entries[i].sms = m}
        IN  [status |-> IF mine = {} THEN "none" ELSE "stored",
             idx |-> [p \in 1 .. Parts[m] |->
                 IF \E i \in mine : db.entries[i].part = p
                 THEN CHOOSE i \in mine : db.entries[i].part = p ELSE 0]]]

\* Mutant: messages are loaded only when TA is the default storage.
M_Load(I) ==
    /\ phase' = IF Clash(I) THEN "crashed" ELSE "enabled"
    /\ list' = IF Clash(I) \/ default # "ta" THEN list ELSE Listed(I)

Load(I) ==
    /\ phase' = IF Clash(I) THEN "crashed" ELSE "enabled"
    /\ list' = IF Clash(I) THEN list ELSE Listed(I)

\* load_messages_from_ta_storage.  A message that cannot be read is skipped;
\* when the indexes cannot be read, for want of a file too, it returns without
\* completing its task.
LoadFromTa ==
    /\ phase = "load"
    /\ \/ /\ db.present
          /\ \/ NoFault /\ Load(Indexes)
             \/ Fault /\ \E i \in Indexes : Load(Indexes \ {i})
       \/ /\ \/ ~db.present /\ NoFault
             \/ db.present /\ Fault
          /\ phase' = "hung" /\ UNCHANGED list
    /\ UNCHANGED <<db, route, default, setting, asked, kept, op>>

-----------------------------------------------------------------------------
(* Requests of the user.  Store and Delete run to their end in one go; the *)
(* modem's answer to SetDefaultStorage comes back any time later.          *)

Idle == phase = "enabled" /\ op = NoOp

SetDefault(s) ==
    /\ Idle /\ setting = "no"
    /\ \/ /\ NoFault
          /\ route' = RouteFor(s) /\ setting' = s
       \/ Fault /\ UNCHANGED <<route, setting>>    \* refused: an error for the user
    /\ asked' = asked \cup {s}
    /\ UNCHANGED <<db, phase, default, list, kept, op>>

\* Mutant: the file is not told.
M_SetDefaultReady ==
    /\ Idle /\ setting # "no"
    /\ default' = setting /\ setting' = "no" /\ asked' = {setting}
    /\ UNCHANGED <<db, route, phase, list, kept, op, faults>>

\* handle_set_default_storage_ready
SetDefaultReady ==
    /\ Idle /\ setting # "no"
    /\ default' = setting /\ setting' = "no" /\ asked' = {setting}
    /\ UpdateDefault(setting)
    /\ UNCHANGED <<route, phase, list, kept, op>>

\* A message is created by the user or comes in over the air.
NewSms(m) ==
    /\ Idle /\ list[m].status = "none"
    /\ \A i \in Indexes : db.entries[i].sms # m
    /\ list' = [list EXCEPT ![m].status = "fresh"]
    /\ UNCHANGED <<db, route, phase, default, setting, asked, kept, op, faults>>

StoreSms(m) ==
    /\ Idle /\ list[m].status = "fresh"
    /\ op' = [kind |-> "store", sms |-> m, part |-> 1]
    /\ UNCHANGED <<db, route, phase, default, setting, asked, list, kept, faults>>

\* Mutant: the index is set before the part is known to be stored.
M_StorePart ==
    /\ op.kind = "store" /\ db.ref < MaxRef
    /\ LET m == op.sms
           last == op.part = Parts[m]
       IN  \/ /\ NoFault
              /\ db' = WithPart(m, op.part)
              /\ list' = [list EXCEPT ![m] =
                     [status |-> IF last THEN "stored" ELSE @.status,
                      idx |-> [@.idx EXCEPT ![1] = NewRef]]]
              /\ kept' = IF last THEN kept \cup {m} ELSE kept
              /\ op' = IF last THEN NoOp ELSE [op EXCEPT !.part = @ + 1]
           \/ /\ Fault
              /\ op' = NoOp
              /\ list' = [list EXCEPT ![m].idx[1] = NewRef]
              /\ UNCHANGED <<db, kept>>
    /\ UNCHANGED <<route, phase, default, setting, asked>>

\* sms_store_next_part.  The index goes into the first part of the message,
\* whichever part was stored.  A failure ends the request.
StorePart ==
    /\ op.kind = "store"
    /\ LET m == op.sms
           last == op.part = Parts[m]
       IN  \/ /\ NoFault /\ db.ref < MaxRef
              /\ db' = WithPart(m, op.part)
              /\ list' = [list EXCEPT ![m] =
                     [status |-> IF last THEN "stored" ELSE @.status,
                      idx |-> [@.idx EXCEPT ![1] = NewRef]]]
              /\ kept' = IF last THEN kept \cup {m} ELSE kept
              /\ op' = IF last THEN NoOp ELSE [op EXCEPT !.part = @ + 1]
           \/ /\ Fault
              /\ op' = NoOp
              /\ UNCHANGED <<db, list, kept>>
    /\ UNCHANGED <<route, phase, default, setting, asked>>

DeleteSms(m) ==
    /\ Idle /\ list[m].status \in {"stored", "partial"}
    /\ op' = [kind |-> "delete", sms |-> m, part |-> 1, failed |-> FALSE]
    /\ kept' = kept \ {m}
    /\ UNCHANGED <<db, route, phase, default, setting, asked, list, faults>>

\* delete_next_part, for a part that has an index.  The index is reset whether
\* or not the entry could be removed.
DeletePart ==
    /\ op.kind = "delete" /\ op.part <= Parts[op.sms]
    /\ LET i == list[op.sms].idx[op.part]
       IN  \/ /\ i # 0
              /\ \/ NoFault /\ db' = WithoutIndex(i) /\ op' = [op EXCEPT !.part = @ + 1]
                 \/ Fault /\ UNCHANGED db
                    /\ op' = [op EXCEPT !.part = @ + 1, !.failed = TRUE]
              /\ list' = [list EXCEPT ![op.sms].idx[op.part] = 0]
           \/ /\ i = 0
              /\ op' = [op EXCEPT !.part = @ + 1]
              /\ UNCHANGED <<db, list, faults>>
    /\ UNCHANGED <<route, phase, default, setting, asked, kept>>

\* Without a failure the message leaves the list.
DeleteDone ==
    /\ op.kind = "delete" /\ op.part > Parts[op.sms]
    /\ list' = [list EXCEPT ![op.sms].status = IF op.failed THEN "partial" ELSE "gone"]
    /\ op' = NoOp
    /\ UNCHANGED <<db, route, phase, default, setting, asked, kept, faults>>

\* The daemon stops, by itself or with the board; the modem may lose its route.
Restart ==
    /\ phase # "off" /\ phase' = "off"
    /\ route' \in {route, "none"}
    /\ default' = "unknown" /\ setting' = "no"
    /\ list' = Cleared /\ op' = NoOp
    /\ UNCHANGED <<db, asked, kept, faults>>

Next ==
    \/ Start \/ GetRoutesReady \/ StorageDefaults \/ EnableRoutes \/ LoadFromTa
    \/ \E s \in Storages : SetDefault(s)
    \/ SetDefaultReady
    \/ \E m \in Sms : NewSms(m) \/ StoreSms(m) \/ DeleteSms(m)
    \/ StorePart \/ DeletePart \/ DeleteDone
    \/ Restart

Spec == Init /\ [][Next]_vars

-----------------------------------------------------------------------------
(* Properties.                                                             *)

Statuses == {"none", "fresh", "stored", "partial", "gone"}
Phases == {"off", "routes", "defaults", "set-routes", "hung", "crashed"} \cup Loaded
Entry == UNION {[sms : {m}, part : 1 .. Parts[m]] : m \in Sms}
Ops == {NoOp}
       \cup [kind : {"store"}, sms : Sms, part : Nat]
       \cup [kind : {"delete"}, sms : Sms, part : Nat, failed : BOOLEAN]

Entries == UNION {[I -> Entry] : I \in SUBSET (1 .. MaxRef)}
File == [present : BOOLEAN, storage : Storages \cup {"unknown"},
         ref : 0 .. MaxRef, entries : Entries]
DbOK == db \in File /\ Indexes \subseteq 1 .. db.ref

ListOK ==
    /\ list \in [Sms -> [status : Statuses,
                         idx : UNION {[1 .. Parts[m] -> 0 .. MaxRef] : m \in Sms}]]
    /\ \A m \in Sms : list[m].idx \in [1 .. Parts[m] -> 0 .. MaxRef]

InterfaceOK ==
    /\ route \in {"me", "none"} /\ phase \in Phases
    /\ default \in Storages \cup {"unknown"} /\ setting \in Storages \cup {"no"}
    /\ asked \subseteq Storages /\ faults \in 0 .. MaxFaults

\* The types of the state: entries have the indexes given out so far.
TypeOK == DbOK /\ ListOK /\ InterfaceOK /\ kept \subseteq Sms /\ op \in Ops

\* An index ModemManager holds for a message never names a PDU of another one
\* in smsdb.json, through restarts, failed requests and deletions that free
\* lower indexes: deleting by index cannot hit a stranger.
IndexOwned ==
    \A m \in Sms : \A p \in 1 .. Parts[m] :
        list[m].idx[p] \in Indexes => db.entries[list[m].idx[p]].sms = m

\* A message the user was told is stored has every part in the file, under an
\* index of its own, until the user asks to delete it: across restarts, failing
\* writes, and whatever else is written to the file meanwhile.
StoredComplete ==
    \A m \in kept : \A p \in 1 .. Parts[m] :
        \E i \in Indexes : db.entries[i] = [sms |-> m, part |-> p]

\* The default storage in use is the last one the user was told is set, or one
\* whose request was cut off: it "persists across boot" wherever the daemon
\* stops, even when the modem loses its route.
DefaultKept == phase \in Loaded /\ faults = 0 => default \in asked

\* Once messaging is enabled every PDU in the file belongs to a message on the
\* bus, or to one deleted since the start, whatever the default storage is.
FileListed ==
    phase = "enabled" /\ faults = 0 =>
        \A i \in Indexes : list[db.entries[i].sms].status # "none"

\* Enabling messaging gets stuck in the load of the messages, or takes the
\* daemon with it, only after a request or an access to the file has failed:
\* never for a file that is not there yet, whatever was stored, deleted and cut
\* off by restarts before.
StartsUnlessFaults == phase \in {"hung", "crashed"} => faults > 0

\* "Don't treat the error as critical": a message that cannot be added to the
\* list does not end the daemon.
LoadSurvives == [][phase = "load" => phase' # "crashed"]_vars

\* "Set the index in the part we hold": each part of a stored message holds the
\* index of its own entry.
PartsIndexed ==
    \A m \in Sms : list[m].status = "stored" /\ op.kind # "delete" =>
        \A p \in 1 .. Parts[m] :
            /\ list[m].idx[p] \in Indexes
            /\ db.entries[list[m].idx[p]] = [sms |-> m, part |-> p]

\* "We reset the index, as there is no longer that part": a message that was
\* deleted has no PDU left in the file.
DeletedGone ==
    \A m \in Sms : list[m].status = "gone" =>
        \A i \in Indexes : db.entries[i].sms # m
=============================================================================
