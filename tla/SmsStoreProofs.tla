--------------------------- MODULE SmsStoreProofs ---------------------------
(***************************************************************************)
(* For any messages with any number of parts, any bound on the indexes and *)
(* any number of failures: indexes never go astray, and what was stored    *)
(* stays.  Neither holds by induction alone.  An index handed out next is  *)
(* above every one in use, in the file or in memory (IdxInv); a message    *)
(* becomes kept when its last part is stored, so the parts before the one  *)
(* at hand must be there (OpInv); and a deletion, which goes by index,     *)
(* spares kept messages because indexes are owned.                         *)
(*                                                                         *)
(* As long as nothing has failed: the default storage is one that was      *)
(* asked for, all of the file is on the bus, and messaging starts.  The    *)
(* second invariant, CalmInv, follows the requests in progress.            *)
(***************************************************************************)
EXTENDS SmsStore, TLAPS

InFile(m, p) == \E i \in Indexes : db.entries[i] = [sms |-> m, part |-> p]

OpInv ==
    /\ op.kind = "store" =>
          op.part \in 1 .. Parts[op.sms] /\ \A p \in 1 .. op.part - 1 : InFile(op.sms, p)
    /\ op.kind = "delete" => op.part \in Nat \ {0} /\ op.sms \notin kept

IdxInv == \A m \in Sms : \A p \in 1 .. Parts[m] : list[m].idx[p] <= db.ref

IInv == TypeOK /\ OpInv /\ IdxInv /\ IndexOwned /\ StoredComplete

\* A step that leaves the entries, the list and the requests alone.
LEMMA Frame ==
  ASSUME IInv, DbOK', InterfaceOK',
         db'.entries = db.entries, db'.ref = db.ref, UNCHANGED <<list, kept, op>>
  PROVE  IInv'
<1>1. Indexes' = Indexes
  BY DEF Indexes
<1>2. TypeOK'
  BY DEF IInv, TypeOK, ListOK
<1>3. OpInv' /\ IdxInv'
  BY <1>1 DEF IInv, OpInv, IdxInv, InFile
<1>4. IndexOwned' /\ StoredComplete'
  BY <1>1 DEF IInv, IndexOwned, StoredComplete
<1>5. QED
  BY <1>2, <1>3, <1>4 DEF IInv

\* Writing the default storage back keeps all the rest of the file.
LEMMA DefaultWritten ==
  ASSUME DbOK, NEW s \in Storages, db' = WithDefault(s)
  PROVE  DbOK' /\ db'.entries = db.entries /\ db'.ref = db.ref
<1>1. /\ db' \in File
      /\ db'.ref = db.ref /\ db'.entries = db.entries
  BY DEF DbOK, File, WithDefault
<1>2. QED
  BY <1>1 DEF DbOK, Indexes

LEMMA FaultsCounted == ASSUME InterfaceOK, NoFault \/ Fault PROVE faults' \in 0 .. MaxFaults
BY BoundsAssumption DEF InterfaceOK, NoFault, Fault

LEMMA DefaultUpdated ==
  ASSUME DbOK, InterfaceOK, NEW s \in Storages, UpdateDefault(s)
  PROVE  /\ DbOK' /\ db'.entries = db.entries /\ db'.ref = db.ref
         /\ faults' \in 0 .. MaxFaults
<1>1. CASE db' = WithDefault(s) /\ NoFault
  BY <1>1, DefaultWritten, FaultsCounted
<1>2. CASE UNCHANGED db /\ Fault
  BY <1>2, FaultsCounted DEF DbOK, Indexes
<1>3. QED
  BY <1>1, <1>2 DEF UpdateDefault

LEMMA ClearedOK ==
  /\ Cleared \in [Sms -> [status : Statuses,
                          idx : UNION {[1 .. Parts[m] -> 0 .. MaxRef] : m \in Sms}]]
  /\ \A m \in Sms : /\ Cleared[m].idx \in [1 .. Parts[m] -> 0 .. MaxRef]
                    /\ \A p \in 1 .. Parts[m] : Cleared[m].idx[p] = 0
<1>1. ASSUME NEW m \in Sms
      PROVE  /\ Unlisted(m).idx \in [1 .. Parts[m] -> 0 .. MaxRef]
             /\ \A p \in 1 .. Parts[m] : Unlisted(m).idx[p] = 0
             /\ Unlisted(m) \in [status : Statuses,
                   idx : UNION {[1 .. Parts[n] -> 0 .. MaxRef] : n \in Sms}]
  BY BoundsAssumption DEF Unlisted, Statuses
<1>2. QED
  BY <1>1 DEF Cleared

LEMMA InitIInv == Init => IInv
<1> SUFFICES ASSUME Init PROVE IInv
  OBVIOUS
<1>1. Indexes = {}
  BY DEF Init, Indexes
<1>2. DbOK
  <2>1. db.entries \in [{} -> Entry] /\ {} \in SUBSET (1 .. MaxRef)
    BY DEF Init
  <2>2. db.entries \in Entries
    BY <2>1 DEF Entries
  <2>3. db \in File
    BY <2>2, BoundsAssumption DEF Init, File, Storages
  <2>4. QED
    BY <1>1, <2>3 DEF DbOK
<1>3. ListOK /\ \A m \in Sms : \A p \in 1 .. Parts[m] : list[m].idx[p] = 0
  BY ClearedOK DEF Init, ListOK
<1>4. InterfaceOK /\ kept = {} /\ op \in Ops /\ op.kind = "none"
  BY BoundsAssumption DEF Init, InterfaceOK, Storages, Phases, Ops, NoOp
<1>5. TypeOK /\ OpInv
  BY <1>2, <1>3, <1>4 DEF TypeOK, OpInv
<1>6. IdxInv /\ IndexOwned /\ StoredComplete
  BY <1>1, <1>3, <1>4 DEF Init, IdxInv, IndexOwned, StoredComplete
<1>7. QED
  BY <1>5, <1>6 DEF IInv

-----------------------------------------------------------------------------
(* The steps, from those that do not touch messages to those that do.      *)

LEMMA FrameSteps ==
  ASSUME IInv, \/ Start \/ GetRoutesReady \/ StorageDefaults \/ EnableRoutes
               \/ SetDefaultReady \/ \E s \in Storages : SetDefault(s)
  PROVE  IInv'
<1> USE DEF IInv, TypeOK
<1>0. ASSUME UNCHANGED db PROVE DbOK' /\ db'.entries = db.entries /\ db'.ref = db.ref
  BY <1>0 DEF DbOK, Indexes
<1>1. CASE Start
  <2>1. InterfaceOK'
    BY <1>1 DEF Start, InterfaceOK, Phases
  <2>2. QED
    BY <1>0, <1>1, <2>1, Frame DEF Start
<1>2. CASE GetRoutesReady
  <2>1. RouteOf(db.storage) \in Storages /\ RouteOf("unknown") \in Storages
    BY DEF RouteOf, DbOK, File, Storages
  <2>2. PICK s \in Storages : db' = WithDefault(s) \/ UNCHANGED db
    BY <1>2, <2>1 DEF GetRoutesReady
  <2>3. DbOK' /\ db'.entries = db.entries /\ db'.ref = db.ref
    BY <1>0, <2>2, DefaultWritten
  <2>4. faults' \in 0 .. MaxFaults
    BY <1>2, FaultsCounted DEF GetRoutesReady
  <2>5. default' \in Storages \cup {"unknown"} /\ phase' \in Phases
    BY <1>2, <2>1 DEF GetRoutesReady, InterfaceOK, Unsaved, Phases
  <2>6. InterfaceOK'
    BY <1>2, <2>4, <2>5 DEF GetRoutesReady, InterfaceOK
  <2>7. QED
    BY <1>2, <2>3, <2>6, Frame DEF GetRoutesReady
<1>3. CASE StorageDefaults
  <2>1. default' \in Storages
    BY <1>3 DEF StorageDefaults, InterfaceOK, Storages
  <2>2. /\ DbOK' /\ db'.entries = db.entries /\ db'.ref = db.ref
        /\ faults' \in 0 .. MaxFaults
    BY <1>3, <2>1, DefaultUpdated DEF StorageDefaults
  <2>3. InterfaceOK'
    BY <1>3, <2>1, <2>2 DEF StorageDefaults, InterfaceOK, Phases
  <2>4. QED
    BY <1>3, <2>2, <2>3, Frame DEF StorageDefaults
<1>4. CASE EnableRoutes
  <2>1. faults' \in 0 .. MaxFaults
    BY <1>4, FaultsCounted DEF EnableRoutes
  <2>2. InterfaceOK'
    BY <1>4, <2>1 DEF EnableRoutes, InterfaceOK, Phases, Loaded, RouteFor
  <2>3. QED
    BY <1>0, <1>4, <2>2, Frame DEF EnableRoutes
<1>5. CASE SetDefaultReady
  <2>1. setting \in Storages
    BY <1>5 DEF SetDefaultReady, InterfaceOK
  <2>2. /\ DbOK' /\ db'.entries = db.entries /\ db'.ref = db.ref
        /\ faults' \in 0 .. MaxFaults
    BY <1>5, <2>1, DefaultUpdated DEF SetDefaultReady
  <2>3. InterfaceOK'
    BY <1>5, <2>1, <2>2 DEF SetDefaultReady, InterfaceOK
  <2>4. QED
    BY <1>5, <2>2, <2>3, Frame DEF SetDefaultReady
<1>6. ASSUME NEW s \in Storages, SetDefault(s) PROVE IInv'
  <2>1. faults' \in 0 .. MaxFaults
    BY <1>6, FaultsCounted DEF SetDefault
  <2>2. InterfaceOK'
    BY <1>6, <2>1 DEF SetDefault, InterfaceOK, RouteFor
  <2>3. QED
    BY <1>0, <1>6, <2>2, Frame DEF SetDefault
<1>7. QED
  BY <1>1, <1>2, <1>3, <1>4, <1>5, <1>6

\* What is loaded carries the indexes of its own entries.
LEMMA ListedOK ==
  ASSUME DbOK, NEW I \in SUBSET Indexes, NEW m \in Sms
  PROVE  /\ Listed(I)[m] \in [status : Statuses,
                idx : UNION {[1 .. Parts[n] -> 0 .. MaxRef] : n \in Sms}]
         /\ Listed(I)[m].idx \in [1 .. Parts[m] -> 0 .. MaxRef]
         /\ \A p \in 1 .. Parts[m] :
                /\ Listed(I)[m].idx[p] <= db.ref
                /\ Listed(I)[m].idx[p] # 0 => db.entries[Listed(I)[m].idx[p]].sms = m
<1> DEFINE mine == {i \in I : db.entries[i].sms = m}
           Idx(p) == IF \E i \in mine : db.entries[i].part = p
                     THEN CHOOSE i \in mine : db.entries[i].part = p ELSE 0
           Status == IF mine = {} THEN "none" ELSE "stored"
<1>1. Listed(I)[m] = [status |-> Status, idx |-> [p \in 1 .. Parts[m] |-> Idx(p)]]
  BY DEF Listed
<1>2. ASSUME NEW p \in 1 .. Parts[m]
      PROVE  /\ Idx(p) \in 0 .. MaxRef /\ Idx(p) <= db.ref
             /\ Idx(p) # 0 => db.entries[Idx(p)].sms = m
  <2>1. db.ref \in 0 .. MaxRef /\ Indexes \subseteq 1 .. db.ref
    BY DEF DbOK, File
  <2>2. CASE \E i \in mine : db.entries[i].part = p
    <3>1. Idx(p) \in mine
      BY <2>2
    <3>2. ASSUME NEW i \in mine
          PROVE  i \in 0 .. MaxRef /\ i <= db.ref /\ db.entries[i].sms = m
      <4>1. i \in Indexes /\ db.entries[i].sms = m
        OBVIOUS
      <4>2. i \in 1 .. db.ref
        BY <2>1, <4>1
      <4>3. QED
        BY <2>1, <4>1, <4>2, BoundsAssumption
    <3> HIDE DEF Idx, mine
    <3>3. QED
      BY <3>1, <3>2
  <2>3. CASE ~ \E i \in mine : db.entries[i].part = p
    BY <2>1, <2>3, BoundsAssumption
  <2>4. QED
    BY <2>2, <2>3
<1>3. Status \in Statuses
  BY DEF Statuses
<1> HIDE DEF mine, Idx, Status
<1>4. QED
  BY <1>1, <1>2, <1>3

LEMMA LoadStep == ASSUME IInv, LoadFromTa PROVE IInv'
<1> USE DEF IInv, TypeOK
<1>1. DbOK' /\ Indexes' = Indexes /\ db' = db /\ kept' = kept /\ op' = op
  BY DEF LoadFromTa, DbOK, Indexes
<1>2. PICK I \in SUBSET Indexes : list' = list \/ list' = Listed(I)
  BY DEF LoadFromTa, Load
<1>3. /\ ListOK' /\ IdxInv' /\ IndexOwned'
  <2>1. CASE list' = list
    BY <1>1, <2>1 DEF ListOK, IdxInv, IndexOwned
  <2>2. CASE list' = Listed(I)
    <3>1. ListOK'
      <4>1. Listed(I) = [m \in Sms |-> Listed(I)[m]]
        BY DEF Listed
      <4>2. QED
        BY <1>1, <2>2, <4>1, ListedOK DEF ListOK
    <3>2. IdxInv'
      BY <1>1, <2>2, ListedOK DEF IdxInv
    <3>3. IndexOwned'
      <4>1. 0 \notin Indexes
        BY DEF DbOK, File
      <4>2. QED
        BY <1>1, <2>2, <4>1, ListedOK DEF IndexOwned
    <3>4. QED
      BY <3>1, <3>2, <3>3
  <2>3. QED
    BY <1>2, <2>1, <2>2
<1>4. faults' \in 0 .. MaxFaults
  BY FaultsCounted DEF LoadFromTa
<1>5. InterfaceOK'
  BY <1>4 DEF LoadFromTa, Load, InterfaceOK, Phases, Loaded
<1>6. OpInv' /\ StoredComplete'
  BY <1>1 DEF OpInv, StoredComplete, InFile
<1>7. QED
  BY <1>1, <1>3, <1>5, <1>6

\* Requests that only change what the user sees, and a new life of the daemon.
LEMMA RequestSteps ==
  ASSUME IInv, \/ DeleteDone \/ Restart
               \/ \E m \in Sms : NewSms(m) \/ StoreSms(m) \/ DeleteSms(m)
  PROVE  IInv'
<1> USE DEF IInv, TypeOK
<1>0. ASSUME UNCHANGED db
      PROVE  DbOK' /\ Indexes' = Indexes
  BY <1>0 DEF DbOK, Indexes
<1>1. CASE DeleteDone
  <2>1. InterfaceOK' /\ op' \in Ops /\ op'.kind = "none" /\ kept' = kept
    BY <1>1 DEF DeleteDone, InterfaceOK, Ops, NoOp
  <2>2. /\ ListOK'
        /\ \A m \in Sms : list'[m].idx = list[m].idx
    <3>1. PICK st \in Statuses : list' = [list EXCEPT ![op.sms].status = st]
      BY <1>1 DEF DeleteDone, Statuses
    <3>2. op.sms \in Sms
      BY <1>1 DEF DeleteDone, Ops, NoOp
    <3>3. ASSUME NEW m \in Sms
          PROVE  /\ list'[m].idx = list[m].idx
                 /\ list'[m] \in [status : Statuses,
                       idx : UNION {[1 .. Parts[n] -> 0 .. MaxRef] : n \in Sms}]
      <4> DEFINE Form == [status : Statuses,
                          idx : UNION {[1 .. Parts[n] -> 0 .. MaxRef] : n \in Sms}]
      <4>1. DOMAIN list = Sms /\ list[m] \in Form
        BY DEF ListOK
      <4>2. list'[m] = IF m = op.sms THEN [list[m] EXCEPT !.status = st] ELSE list[m]
        BY ONLY <3>1, <4>1, m \in Sms
      <4>3. list'[m].idx = list[m].idx /\ list'[m] \in Form
        BY ONLY <4>1, <4>2, st \in Statuses
      <4>4. QED
        BY ONLY <4>3
    <3>4. DOMAIN list' = Sms /\ list' = [m \in Sms |-> list'[m]]
      BY <3>1 DEF ListOK
    <3>5. QED
      BY <3>3, <3>4 DEF ListOK
  <2>3. IdxInv' /\ IndexOwned' /\ StoredComplete' /\ OpInv'
    BY <1>0, <1>1, <2>1, <2>2 DEF DeleteDone, IdxInv, IndexOwned, StoredComplete, OpInv
  <2>4. QED
    BY <1>0, <1>1, <2>1, <2>2, <2>3 DEF DeleteDone
<1>2. CASE Restart
  <2>1. InterfaceOK' /\ op' \in Ops /\ op'.kind = "none" /\ kept' = kept
    BY <1>2 DEF Restart, InterfaceOK, Ops, NoOp, Phases
  <2>2. ListOK' /\ \A m \in Sms : \A p \in 1 .. Parts[m] : list'[m].idx[p] = 0
    BY <1>2, ClearedOK DEF Restart, ListOK
  <2>3. IdxInv' /\ IndexOwned' /\ StoredComplete' /\ OpInv'
    <3>1. db.ref \in Nat /\ 0 \notin Indexes /\ db' = db /\ Indexes' = Indexes
      BY <1>2 DEF Restart, DbOK, File, Indexes
    <3>2. QED
      BY <2>1, <2>2, <3>1 DEF IdxInv, IndexOwned, StoredComplete, OpInv
  <2>4. QED
    BY <1>0, <1>2, <2>1, <2>2, <2>3 DEF Restart
<1>3. ASSUME NEW m \in Sms, NewSms(m) PROVE IInv'
  <2>1. InterfaceOK' /\ op' = op /\ kept' = kept
    BY <1>3 DEF NewSms, InterfaceOK
  <2>2. /\ ListOK'
        /\ \A n \in Sms : list'[n].idx = list[n].idx
    BY <1>3 DEF NewSms, ListOK, Statuses
  <2>3. IdxInv' /\ IndexOwned' /\ StoredComplete' /\ OpInv'
    BY <1>0, <1>3, <2>1, <2>2
    DEF NewSms, IdxInv, IndexOwned, StoredComplete, OpInv, InFile
  <2>4. QED
    BY <1>0, <1>3, <2>1, <2>2, <2>3 DEF NewSms
<1>4. ASSUME NEW m \in Sms, StoreSms(m) PROVE IInv'
  <2>1. InterfaceOK' /\ list' = list /\ kept' = kept /\ op' \in Ops
    BY <1>4 DEF StoreSms, InterfaceOK, Ops
  <2>2. OpInv'
    BY <1>4, PartsAssumption DEF StoreSms, OpInv
  <2>3. db' = db /\ Indexes' = Indexes
    BY <1>0, <1>4 DEF StoreSms
  <2>4. ListOK' /\ IdxInv'
    BY <2>1, <2>3 DEF ListOK, IdxInv
  <2>5. IndexOwned' /\ StoredComplete'
    BY <2>1, <2>3 DEF IndexOwned, StoredComplete
  <2>6. QED
    BY <1>0, <1>4, <2>1, <2>2, <2>4, <2>5 DEF StoreSms
<1>5. ASSUME NEW m \in Sms, DeleteSms(m) PROVE IInv'
  <2>1. InterfaceOK' /\ list' = list /\ kept' = kept \ {m} /\ op' \in Ops
    BY <1>5 DEF DeleteSms, InterfaceOK, Ops
  <2>2. OpInv'
    BY <1>5 DEF DeleteSms, OpInv
  <2>3. ListOK' /\ IdxInv' /\ IndexOwned' /\ StoredComplete'
    BY <1>0, <1>5, <2>1 DEF DeleteSms, ListOK, IdxInv, IndexOwned, StoredComplete
  <2>4. QED
    BY <1>0, <1>5, <2>1, <2>2, <2>3 DEF DeleteSms
<1>6. QED
  BY <1>1, <1>2, <1>3, <1>4, <1>5

\* A new entry gets an index above all others and disturbs none of them.
LEMMA PartWritten ==
  ASSUME DbOK, db.ref < MaxRef, NEW m \in Sms, NEW p \in 1 .. Parts[m],
         db' = WithPart(m, p)
  PROVE  /\ DbOK' /\ NewRef \notin Indexes /\ NewRef \in 1 .. MaxRef
         /\ Indexes' = Indexes \cup {NewRef} /\ db'.ref = NewRef
         /\ db'.entries[NewRef] = [sms |-> m, part |-> p]
         /\ \A i \in Indexes : db'.entries[i] = db.entries[i]
<1>1. /\ db.ref \in 0 .. MaxRef /\ Indexes \subseteq 1 .. db.ref
      /\ NewRef = db.ref + 1 /\ NewRef \in 1 .. MaxRef /\ NewRef \notin Indexes
  BY BoundsAssumption DEF DbOK, File, NewRef
<1> DEFINE new == [i \in Indexes \cup {NewRef} |->
                     IF i = NewRef THEN [sms |-> m, part |-> p] ELSE db.entries[i]]
<1>2. [sms |-> m, part |-> p] \in Entry
  BY DEF Entry
<1>3. \A i \in Indexes : db.entries[i] \in Entry
  BY DEF DbOK, File, Entries, Indexes
<1>4. new \in [Indexes \cup {NewRef} -> Entry]
  BY <1>2, <1>3
<1>5. Indexes \cup {NewRef} \subseteq 1 .. NewRef
  <2>1. \A i \in 1 .. db.ref : i \in 1 .. NewRef
    BY <1>1
  <2>2. NewRef \in 1 .. NewRef
    BY <1>1
  <2>3. QED
    BY <1>1, <2>1, <2>2
<1>6. new \in Entries
  <2>1. 1 .. NewRef \subseteq 1 .. MaxRef
    BY <1>1, BoundsAssumption
  <2>2. Indexes \cup {NewRef} \in SUBSET (1 .. MaxRef)
    BY <1>5, <2>1
  <2> HIDE DEF new
  <2>3. QED
    BY <1>4, <2>2 DEF Entries
<1>7. /\ DOMAIN new = Indexes \cup {NewRef}
      /\ new[NewRef] = [sms |-> m, part |-> p]
      /\ \A i \in Indexes : new[i] = db.entries[i]
  BY <1>1
<1>8. db' = [db EXCEPT !.present = TRUE, !.ref = NewRef, !.entries = new]
  BY DEF WithPart
<1> HIDE DEF new
<1>9. db' \in File /\ db'.ref = NewRef /\ db'.entries = new
  <2>1. NewRef \in 0 .. MaxRef
    BY <1>1, BoundsAssumption
  <2>2. QED
    BY <1>6, <1>8, <2>1 DEF DbOK, File
<1>10. Indexes' = Indexes \cup {NewRef}
  BY <1>7, <1>9 DEF Indexes
<1>11. Indexes' \subseteq 1 .. db'.ref
  BY <1>5, <1>9, <1>10
<1>12. QED
  BY <1>1, <1>7, <1>9, <1>10, <1>11 DEF DbOK

LEMMA StoreStep == ASSUME IInv, StorePart PROVE IInv'
<1>0. PICK m, k : m = op.sms /\ k = op.part
  OBVIOUS
<1> DEFINE last == k = Parts[m]
<1>1. /\ DbOK /\ ListOK /\ InterfaceOK /\ kept \subseteq Sms
      /\ op.kind = "store" /\ m \in Sms /\ k \in 1 .. Parts[m]
      /\ Parts[m] \in Nat \ {0}
      /\ \A p \in 1 .. k - 1 : InFile(m, p)
  BY <1>0, PartsAssumption DEF IInv, TypeOK, OpInv, StorePart, Ops, NoOp
<1>2. InterfaceOK'
  BY <1>1, FaultsCounted DEF StorePart, InterfaceOK
<1>3. CASE Fault /\ op' = NoOp /\ UNCHANGED <<db, list, kept>>
  <2>1. Indexes' = Indexes /\ op' \in Ops /\ op'.kind = "none"
    BY <1>3 DEF Indexes, Ops, NoOp
  <2>2. TypeOK'
    BY <1>1, <1>2, <1>3, <2>1 DEF TypeOK, DbOK, ListOK
  <2>3. OpInv' /\ IdxInv'
    BY <1>3, <2>1 DEF OpInv, IInv, IdxInv
  <2>4. IndexOwned' /\ StoredComplete'
    BY <1>3, <2>1 DEF IInv, IndexOwned, StoredComplete
  <2>5. QED
    BY <2>2, <2>3, <2>4 DEF IInv
<1>4. CASE /\ NoFault /\ db.ref < MaxRef /\ db' = WithPart(m, k)
           /\ list' = [list EXCEPT ![m] =
                  [status |-> IF last THEN "stored" ELSE @.status,
                   idx |-> [@.idx EXCEPT ![1] = NewRef]]]
           /\ kept' = IF last THEN kept \cup {m} ELSE kept
           /\ op' = IF last THEN NoOp ELSE [op EXCEPT !.part = @ + 1]
  <2>1. /\ DbOK' /\ NewRef \notin Indexes /\ NewRef \in 1 .. MaxRef
        /\ Indexes' = Indexes \cup {NewRef} /\ db'.ref = NewRef
        /\ db'.entries[NewRef] = [sms |-> m, part |-> k]
        /\ \A i \in Indexes : db'.entries[i] = db.entries[i]
    BY <1>1, <1>4, PartWritten
  <2>2. NewRef = db.ref + 1 /\ db.ref \in Nat /\ Indexes \subseteq 1 .. db.ref
    BY <1>1 DEF NewRef, DbOK, File
  <2>3. /\ InFile(m, k)'
        /\ \A n \in Sms : \A p \in 1 .. Parts[n] : InFile(n, p) => InFile(n, p)'
    <3>1. InFile(m, k)'
      BY <2>1 DEF InFile
    <3>2. ASSUME NEW n \in Sms, NEW p \in 1 .. Parts[n], InFile(n, p)
          PROVE  InFile(n, p)'
      <4>1. PICK i \in Indexes : db.entries[i] = [sms |-> n, part |-> p]
        BY <3>2 DEF InFile
      <4>2. i \in Indexes' /\ db'.entries[i] = [sms |-> n, part |-> p]
        BY <2>1, <4>1
      <4>3. QED
        BY <4>2 DEF InFile
    <3>3. QED
      BY <3>1, <3>2
  <2>4. /\ \A n \in Sms \ {m} : list'[n] = list[n]
        /\ list'[m] = [status |-> IF last THEN "stored" ELSE list[m].status,
                       idx |-> [list[m].idx EXCEPT ![1] = NewRef]]
        /\ list[m].idx \in [1 .. Parts[m] -> 0 .. MaxRef]
        /\ DOMAIN list' = Sms
    BY <1>1, <1>4 DEF ListOK
  <2>5. /\ list'[m].idx \in [1 .. Parts[m] -> 0 .. MaxRef]
        /\ list'[m].idx[1] = NewRef
        /\ \A p \in 1 .. Parts[m] : p # 1 => list'[m].idx[p] = list[m].idx[p]
    BY <1>1, <2>1, <2>4, BoundsAssumption
  <2>6. ListOK'
    <3>1. list'[m].status \in Statuses
      BY <1>1, <2>4 DEF ListOK, Statuses
    <3>2. list'[m] \in [status : Statuses,
             idx : UNION {[1 .. Parts[n] -> 0 .. MaxRef] : n \in Sms}]
      BY <1>1, <2>4, <2>5, <3>1
    <3>3. QED
      BY <1>1, <1>4, <2>4, <2>5, <3>2 DEF ListOK
  <2>7. /\ op' \in Ops /\ OpInv'
    <3>1. CASE last
      BY <1>4, <3>1 DEF Ops, NoOp, OpInv
    <3>2. CASE ~last
      <4>1. op \in [kind : {"store"}, sms : Sms, part : Nat]
        BY <1>1 DEF IInv, TypeOK, Ops, NoOp
      <4>2. op' = [kind |-> "store", sms |-> m, part |-> k + 1]
        BY <1>0, <1>4, <3>2, <4>1
      <4>3. op' \in Ops /\ op'.part \in 1 .. Parts[m]
        BY <1>1, <3>2, <4>2 DEF Ops
      <4>4. \A p \in 1 .. op'.part - 1 : InFile(m, p)'
        <5>1. \A p \in 1 .. op'.part - 1 : p = k \/ p \in 1 .. k - 1
          BY <1>1, <4>2
        <5>2. \A p \in 1 .. k - 1 : p \in 1 .. Parts[m]
          BY <1>1
        <5>3. QED
          BY <1>1, <2>3, <5>1, <5>2
      <4>5. QED
        BY <4>2, <4>3, <4>4 DEF OpInv, InFile
    <3>3. QED
      BY <3>1, <3>2
  <2>8. IdxInv'
    <3> SUFFICES ASSUME NEW n \in Sms, NEW p \in 1 .. Parts[n]
                 PROVE  list'[n].idx[p] <= db'.ref
      BY DEF IdxInv
    <3>1. list[n].idx[p] \in Nat /\ list[n].idx[p] <= db.ref
      <4>1. list[n].idx \in [1 .. Parts[n] -> 0 .. MaxRef]
        BY <1>1 DEF ListOK
      <4>2. list[n].idx[p] \in 0 .. MaxRef
        BY <4>1
      <4>3. QED
        BY <4>2, BoundsAssumption DEF IInv, IdxInv
    <3>2. CASE n = m /\ p = 1
      BY <2>1, <2>2, <2>5, <3>2
    <3>3. CASE ~(n = m /\ p = 1)
      <4>1. list'[n].idx[p] = list[n].idx[p]
        BY <2>4, <2>5, <3>3
      <4>2. QED
        BY <2>1, <2>2, <3>1, <4>1
    <3>4. QED
      BY <3>2, <3>3
  <2>9. IndexOwned'
    <3> SUFFICES ASSUME NEW n \in Sms, NEW p \in 1 .. Parts[n], list'[n].idx[p] \in Indexes'
                 PROVE  db'.entries[list'[n].idx[p]].sms = n
      BY DEF IndexOwned
    <3>1. CASE n = m /\ p = 1
      BY <2>1, <2>5, <3>1
    <3>2. CASE ~(n = m /\ p = 1)
      <4>1. list'[n].idx[p] = list[n].idx[p]
        BY <2>4, <2>5, <3>2
      <4>2. list[n].idx[p] <= db.ref
        BY DEF IInv, IdxInv
      <4>3. list[n].idx[p] \in Indexes
        BY <2>1, <2>2, <4>1, <4>2
      <4>4. QED
        BY <2>1, <4>1, <4>3 DEF IInv, IndexOwned
    <3>3. QED
      BY <3>1, <3>2
  <2>10. StoredComplete'
    <3>1. \A n \in kept : \A p \in 1 .. Parts[n] : InFile(n, p)'
      BY <1>1, <2>3 DEF IInv, StoredComplete, InFile
    <3>2. last => \A p \in 1 .. Parts[m] : InFile(m, p)'
      <4>1. last => \A p \in 1 .. Parts[m] : p = k \/ p \in 1 .. k - 1
        BY <1>1
      <4>2. QED
        BY <1>1, <2>3, <4>1
    <3>3. QED
      BY <1>4, <3>1, <3>2 DEF StoredComplete, InFile
  <2>11. kept' \subseteq Sms
    BY <1>1, <1>4
  <2>12. QED
    BY <1>2, <2>1, <2>6, <2>7, <2>8, <2>9, <2>10, <2>11 DEF IInv, TypeOK
<1>5. QED
  BY <1>0, <1>3, <1>4 DEF StorePart

\* Deleting an index the message owns cannot hit a message that is kept.
LEMMA DeleteStep == ASSUME IInv, DeletePart PROVE IInv'
<1>0. PICK m, k, i : m = op.sms /\ k = op.part /\ i = list[m].idx[k]
  OBVIOUS
<1>1. /\ DbOK /\ ListOK /\ InterfaceOK /\ kept \subseteq Sms
      /\ op.kind = "delete" /\ m \in Sms /\ m \notin kept /\ k \in 1 .. Parts[m]
      /\ op \in [kind : {"delete"}, sms : Sms, part : Nat, failed : BOOLEAN]
  BY <1>0, PartsAssumption DEF IInv, TypeOK, OpInv, DeletePart, Ops, NoOp
<1>2. list[m].idx \in [1 .. Parts[m] -> 0 .. MaxRef]
  BY <1>1 DEF ListOK
<1>3. i \in Indexes => db.entries[i].sms = m
  BY <1>0, <1>1 DEF IInv, IndexOwned
<1>4. /\ InterfaceOK' /\ kept' = kept
      /\ db' = db \/ db' = WithoutIndex(i)
      /\ list' = list \/ list' = [list EXCEPT ![m].idx[k] = 0]
  BY <1>0, <1>1, FaultsCounted DEF DeletePart, InterfaceOK
<1>5. op' \in Ops /\ op'.kind = "delete" /\ op'.part = k + 1 /\ op'.sms = m
  <2>1. PICK f \in BOOLEAN : op' = [kind |-> "delete", sms |-> m, part |-> k + 1, failed |-> f]
    <3>1. \/ op' = [op EXCEPT !.part = @ + 1]
          \/ op' = [op EXCEPT !.part = @ + 1, !.failed = TRUE]
      BY DEF DeletePart
    <3>2. PICK g \in BOOLEAN : op = [kind |-> "delete", sms |-> m, part |-> k, failed |-> g]
      BY <1>0, <1>1
    <3>3. QED
      BY <3>1, <3>2
  <2>2. k + 1 \in Nat
    BY <1>0, <1>1
  <2>3. QED
    BY <1>1, <2>1, <2>2 DEF Ops
<1>6. /\ DbOK' /\ db'.ref = db.ref /\ Indexes' \subseteq Indexes
      /\ \A j \in Indexes \ {i} : j \in Indexes'
      /\ \A j \in Indexes' : db'.entries[j] = db.entries[j]
  <2>1. CASE db' = db
    BY <1>1, <2>1 DEF DbOK, Indexes
  <2>2. CASE db' = WithoutIndex(i)
    <3> DEFINE rest == [j \in Indexes \ {i} |-> db.entries[j]]
    <3>1. /\ \A j \in Indexes : db.entries[j] \in Entry
          /\ Indexes \in SUBSET (1 .. MaxRef) /\ Indexes \subseteq 1 .. db.ref
      BY <1>1 DEF DbOK, File, Entries, Indexes
    <3>2. rest \in [Indexes \ {i} -> Entry] /\ Indexes \ {i} \in SUBSET (1 .. MaxRef)
      BY <3>1
    <3>3. rest \in Entries
      <4> HIDE DEF rest
      <4>1. QED
        BY <3>2 DEF Entries
    <3>4. DOMAIN rest = Indexes \ {i} /\ \A j \in Indexes \ {i} : rest[j] = db.entries[j]
      OBVIOUS
    <3>5. db' = [db EXCEPT !.entries = rest]
      BY <2>2 DEF WithoutIndex
    <3> HIDE DEF rest
    <3>6. db' \in File /\ db'.ref = db.ref /\ db'.entries = rest
      BY <1>1, <3>3, <3>5 DEF DbOK, File
    <3>7. QED
      BY <3>1, <3>4, <3>6 DEF DbOK, Indexes
  <2>3. QED
    BY <1>4, <2>1, <2>2
<1>7. /\ ListOK'
      /\ \A n \in Sms : \A p \in 1 .. Parts[n] :
            list'[n].idx[p] = list[n].idx[p] \/ list'[n].idx[p] = 0
  <2>1. CASE list' = list
    BY <1>1, <2>1 DEF ListOK
  <2>2. CASE list' = [list EXCEPT ![m].idx[k] = 0]
    <3>1. /\ \A n \in Sms \ {m} : list'[n] = list[n]
          /\ list'[m] = [status |-> list[m].status, idx |-> [list[m].idx EXCEPT ![k] = 0]]
          /\ DOMAIN list' = Sms /\ list[m].status \in Statuses
      BY <1>1, <2>2 DEF ListOK
    <3>2. /\ list'[m].idx \in [1 .. Parts[m] -> 0 .. MaxRef]
          /\ \A p \in 1 .. Parts[m] :
                list'[m].idx[p] = list[m].idx[p] \/ list'[m].idx[p] = 0
      BY <1>1, <1>2, <3>1, BoundsAssumption
    <3>3. list'[m] \in [status : Statuses,
             idx : UNION {[1 .. Parts[n] -> 0 .. MaxRef] : n \in Sms}]
      BY <1>1, <3>1, <3>2
    <3>4. QED
      BY <1>1, <2>2, <3>1, <3>2, <3>3 DEF ListOK
  <2>3. QED
    BY <1>4, <2>1, <2>2
<1>8. db.ref \in Nat /\ 0 \notin Indexes
  BY <1>1 DEF DbOK, File
<1>9. OpInv'
  BY <1>1, <1>4, <1>5 DEF OpInv
<1>10. IdxInv'
  BY <1>6, <1>7, <1>8 DEF IInv, IdxInv
<1>11. IndexOwned'
  <2> SUFFICES ASSUME NEW n \in Sms, NEW p \in 1 .. Parts[n], list'[n].idx[p] \in Indexes'
               PROVE  db'.entries[list'[n].idx[p]].sms = n
    BY DEF IndexOwned
  <2>1. list'[n].idx[p] = list[n].idx[p]
    BY <1>6, <1>7, <1>8
  <2>2. QED
    BY <1>6, <2>1 DEF IInv, IndexOwned
<1>12. StoredComplete'
  <2> SUFFICES ASSUME NEW n \in kept, NEW p \in 1 .. Parts[n]
               PROVE  \E j \in Indexes' : db'.entries[j] = [sms |-> n, part |-> p]
    BY <1>4 DEF StoredComplete
  <2>1. PICK j \in Indexes : db.entries[j] = [sms |-> n, part |-> p]
    BY DEF IInv, StoredComplete
  <2>2. j # i
    BY <1>1, <1>3, <2>1
  <2>3. QED
    BY <1>6, <2>1, <2>2
<1>13. QED
  BY <1>1, <1>4, <1>5, <1>6, <1>7, <1>9, <1>10, <1>11, <1>12 DEF IInv, TypeOK

LEMMA NextIInv == IInv /\ [Next]_vars => IInv'
<1> SUFFICES ASSUME IInv, [Next]_vars PROVE IInv'
  OBVIOUS
<1>1. CASE UNCHANGED vars
  BY <1>1 DEF vars, IInv, TypeOK, DbOK, ListOK, InterfaceOK, OpInv, InFile, IdxInv,
              IndexOwned, StoredComplete, Indexes
<1>2. CASE Next
  BY <1>2, FrameSteps, LoadStep, RequestSteps, StoreStep, DeleteStep DEF Next
<1>3. QED
  BY <1>1, <1>2

\* The strengthened invariant holds in every state of every behaviour.
THEOREM Inductive == Spec => []IInv
BY InitIInv, NextIInv, PTL DEF Spec

\* Type correctness: indexes in the file never run ahead of the counter.
THEOREM TypeCorrect == Spec => []TypeOK
BY Inductive, PTL DEF IInv

\* Indexes held for one message never name a PDU of another one, whatever
\* fails and whenever the daemon restarts.
THEOREM IndexesOwned == Spec => []IndexOwned
BY Inductive, PTL DEF IInv

\* What the user was told is stored is completely in the file until the user
\* deletes it.
THEOREM NothingLost == Spec => []StoredComplete
BY Inductive, PTL DEF IInv
-----------------------------------------------------------------------------
(* As long as nothing has failed.  What the user asked for and what is in  *)
(* the file and at the modem move one after the other, and a restart may   *)
(* come in between: StorageInv says how far apart they can be.  No part is *)
(* written twice, because only a message without entries can be new, and   *)
(* one that is new and being stored has the parts so far (OnceInv).        *)

Started == {"defaults", "set-routes"} \cup Loaded

PendingInv ==
    /\ op.kind # "none" => phase = "enabled"
    /\ op.kind = "store" => list[op.sms].status = "fresh"
    /\ op.kind = "delete" => list[op.sms].status \in {"stored", "partial"}
    /\ setting # "no" => phase = "enabled" /\ route = RouteFor(setting) /\ setting \in asked

StorageInv ==
    /\ db.storage \in asked \cup {"unknown"}
    /\ db.storage = "unknown" => asked = Storages
    /\ route = "me" => "me" \in asked
    /\ phase \in Started => default \in asked /\ db.present

OnceInv ==
    /\ \A i, j \in Indexes : db.entries[i] = db.entries[j] => i = j
    /\ \A i \in Indexes : list[db.entries[i].sms].status = "fresh" =>
           op.kind = "store" /\ op.sms = db.entries[i].sms /\ db.entries[i].part < op.part

FaultFree == faults = 0 => StorageInv /\ OnceInv

CalmInv == IInv /\ PendingInv /\ FaultFree /\ FileListed /\ StartsUnlessFaults

\* A failure is never forgotten.
LEMMA NothingFailed ==
  ASSUME InterfaceOK, Next, faults' = 0
  PROVE  faults = 0 /\ ~Fault
<1>1. faults \in Nat
  BY BoundsAssumption DEF InterfaceOK
<1>2. ~Fault
  BY <1>1 DEF Fault
<1>3. UNCHANGED faults \/ Fault
  BY DEF Next, Start, GetRoutesReady, StorageDefaults, EnableRoutes, LoadFromTa, UpdateDefault,
         SetDefault, SetDefaultReady, NewSms, StoreSms, DeleteSms, StorePart, DeletePart,
         DeleteDone, Restart, NoFault
<1>4. QED
  BY <1>2, <1>3

LEMMA InitCalm == Init => CalmInv
<1> SUFFICES ASSUME Init PROVE CalmInv
  OBVIOUS
<1>1. Indexes = {}
  BY DEF Init, Indexes
<1>2. PendingInv
  BY DEF Init, PendingInv, NoOp
<1>3. StorageInv
  BY DEF Init, StorageInv, Started, Loaded
<1>4. OnceInv /\ FileListed /\ StartsUnlessFaults
  BY <1>1 DEF Init, OnceInv, FileListed, StartsUnlessFaults
<1>5. QED
  BY <1>2, <1>3, <1>4, InitIInv DEF CalmInv, FaultFree

\* What is in progress: a message stays new until its last part is stored.
LEMMA NextPending == ASSUME IInv, PendingInv, Next PROVE PendingInv'
<1> USE DEF PendingInv
<1>1. op \in Ops /\ ListOK /\ InterfaceOK
  BY DEF IInv, TypeOK
<1>2. CASE \/ Start \/ GetRoutesReady \/ StorageDefaults \/ EnableRoutes \/ LoadFromTa
  <2>1. phase # "enabled" /\ op' = op /\ setting' = setting
    BY <1>2 DEF Start, GetRoutesReady, StorageDefaults, EnableRoutes, LoadFromTa
  <2>2. op.kind = "none" /\ setting = "no"
    BY <1>1, <2>1 DEF Ops, NoOp
  <2>3. QED
    BY <2>1, <2>2
<1>3. ASSUME NEW s \in Storages, SetDefault(s) PROVE PendingInv'
  BY <1>3 DEF SetDefault, Idle
<1>4. CASE SetDefaultReady
  BY <1>4 DEF SetDefaultReady, Idle
<1>5. ASSUME NEW m \in Sms, NewSms(m) \/ StoreSms(m) \/ DeleteSms(m) PROVE PendingInv'
  BY <1>1, <1>5 DEF NewSms, StoreSms, DeleteSms, Idle, NoOp, ListOK
<1>6. CASE StorePart
  <2>0. UNCHANGED <<phase, setting, route, asked>>
    BY <1>6 DEF StorePart
  <2>1. \/ op' = NoOp
        \/ op' = [op EXCEPT !.part = @ + 1] /\ op.part # Parts[op.sms]
    BY <1>6, Zenon DEF StorePart
  <2>2. CASE op' = NoOp
    BY <2>0, <2>2 DEF NoOp
  <2>3. CASE op' # NoOp
    <3>1. op \in [kind : {"store"}, sms : Sms, part : Nat]
      BY <1>1, <1>6 DEF StorePart, Ops, NoOp
    <3>2. op'.kind = "store" /\ op'.sms = op.sms
      BY <2>1, <2>3, <3>1
    <3>3. list'[op.sms].status = list[op.sms].status
      BY <1>1, <1>6, <2>3, <3>1 DEF StorePart, ListOK
    <3>4. QED
      BY <2>0, <3>1, <3>2, <3>3
  <2>4. QED
    BY <2>2, <2>3
<1>7. CASE DeletePart
  <2>1. op \in [kind : {"delete"}, sms : Sms, part : Nat, failed : BOOLEAN]
    BY <1>1, <1>7 DEF DeletePart, Ops, NoOp
  <2>2. op'.kind = "delete" /\ op'.sms = op.sms
    BY <1>7, <2>1 DEF DeletePart
  <2>3. list'[op.sms].status = list[op.sms].status
    BY <1>1, <1>7, <2>1 DEF DeletePart, ListOK
  <2>4. QED
    BY <1>7, <2>1, <2>2, <2>3 DEF DeletePart
<1>8. CASE DeleteDone \/ Restart
  BY <1>8 DEF DeleteDone, Restart, NoOp
<1>9. QED
  BY <1>2, <1>3, <1>4, <1>5, <1>6, <1>7, <1>8 DEF Next

\* The file, the modem and the property agree on a storage that the user asked
\* for, wherever a request is cut off.
LEMMA NextStorage ==
  ASSUME IInv, PendingInv, FaultFree, Next, faults' = 0
  PROVE  StorageInv'
<1>1. StorageInv /\ ~Fault
  BY NothingFailed DEF IInv, TypeOK, FaultFree
<1>2. InterfaceOK /\ db \in File
  BY DEF IInv, TypeOK, DbOK
<1> USE DEF StorageInv, Started, Loaded
<1>3. ASSUME NEW s, db' = WithDefault(s) PROVE db'.storage = s /\ db'.present
  BY <1>2, <1>3 DEF WithDefault, File
<1>4. CASE Start
  BY <1>1, <1>4 DEF Start
<1>5. CASE GetRoutesReady
  <2>1. /\ default' = RouteOf(db.storage) /\ db' = WithDefault(default')
        /\ phase' = "defaults" /\ UNCHANGED <<route, asked>>
    BY <1>1, <1>5 DEF GetRoutesReady
  <2>2. default' \in asked
    BY <1>1, <1>2, <2>1 DEF RouteOf, Storages, InterfaceOK
  <2>3. QED
    BY <1>1, <1>2, <1>3, <2>1, <2>2 DEF InterfaceOK, Storages
<1>6. CASE StorageDefaults
  <2>1. default' = default /\ db' = WithDefault(default)
    BY <1>1, <1>2, <1>6 DEF StorageDefaults, UpdateDefault, InterfaceOK, Storages
  <2>2. QED
    BY <1>1, <1>2, <1>3, <1>6, <2>1 DEF StorageDefaults, InterfaceOK, Storages
<1>7. CASE EnableRoutes
  <2>1. route' = "me" => default = "me"
    BY <1>1, <1>2, <1>7 DEF EnableRoutes, RouteFor, InterfaceOK, Storages
  <2>2. QED
    BY <1>1, <1>7, <2>1 DEF EnableRoutes
<1>8. CASE LoadFromTa
  BY <1>1, <1>8 DEF LoadFromTa, Load
<1>9. ASSUME NEW s \in Storages, SetDefault(s) PROVE StorageInv'
  <2>1. route' = "me" => s = "me"
    BY <1>1, <1>9 DEF SetDefault, RouteFor, Storages
  <2>2. asked' = asked \cup {s} /\ UNCHANGED <<db, phase, default>>
    BY <1>9 DEF SetDefault
  <2>3. asked = Storages => asked' = Storages
    BY <2>2
  <2>4. QED
    BY <1>1, <2>1, <2>2, <2>3
<1>10. CASE SetDefaultReady
  <2>1. /\ setting \in Storages /\ db' = WithDefault(setting) /\ asked' = {setting}
        /\ default' = setting /\ route' = route /\ route = RouteFor(setting)
    BY <1>1, <1>2, <1>10 DEF SetDefaultReady, UpdateDefault, PendingInv, InterfaceOK
  <2>2. QED
    BY <1>3, <2>1 DEF RouteFor, Storages
<1>11. ASSUME NEW m \in Sms, NewSms(m) \/ StoreSms(m) \/ DeleteSms(m) PROVE StorageInv'
  BY <1>1, <1>11 DEF NewSms, StoreSms, DeleteSms
<1>12. CASE StorePart
  <2>1. db' = WithPart(op.sms, op.part)
    BY <1>1, <1>12 DEF StorePart
  <2>2. db'.storage = db.storage /\ db'.present
    BY <1>2, <2>1 DEF WithPart, File
  <2>3. QED
    BY <1>1, <1>12, <2>2 DEF StorePart
<1>13. CASE DeletePart
  <2>1. db'.storage = db.storage /\ db'.present = db.present
    BY <1>2, <1>13 DEF DeletePart, WithoutIndex, File
  <2>2. QED
    BY <1>1, <1>13, <2>1 DEF DeletePart
<1>14. CASE DeleteDone
  BY <1>1, <1>14 DEF DeleteDone
<1>15. CASE Restart
  BY <1>1, <1>15 DEF Restart
<1>16. QED
  BY <1>4, <1>5, <1>6, <1>7, <1>8, <1>9, <1>10, <1>11, <1>12, <1>13, <1>14, <1>15 DEF Next

\* Entries only go, except for the part that is being stored.
LEMMA EntriesKept ==
  ASSUME IInv, Next, ~StorePart
  PROVE  /\ Indexes' \subseteq Indexes
         /\ \A i \in Indexes' : db'.entries[i] = db.entries[i]
<1>1. db \in File
  BY DEF IInv, TypeOK, DbOK
<1>2. ASSUME NEW s, db' = WithDefault(s) PROVE db'.entries = db.entries
  BY <1>1, <1>2 DEF WithDefault, File
<1>3. ASSUME NEW i, db' = WithoutIndex(i)
      PROVE  db'.entries = [j \in Indexes \ {i} |-> db.entries[j]]
  BY <1>1, <1>3 DEF WithoutIndex, File
<1>4. CASE DeletePart
  <2>1. db' = db \/ \E i : db' = WithoutIndex(i)
    BY <1>4 DEF DeletePart
  <2>2. QED
    BY <1>3, <2>1 DEF Indexes
<1>5. CASE GetRoutesReady \/ StorageDefaults \/ SetDefaultReady
  <2>1. db' = db \/ \E s : db' = WithDefault(s)
    BY <1>5 DEF GetRoutesReady, StorageDefaults, SetDefaultReady, UpdateDefault
  <2>2. QED
    BY <1>2, <2>1 DEF Indexes
<1>6. ASSUME db' = db
      PROVE  /\ Indexes' \subseteq Indexes
             /\ \A i \in Indexes' : db'.entries[i] = db.entries[i]
  BY <1>6 DEF Indexes
<1>7. QED
  BY <1>4, <1>5, <1>6 DEF Next, Start, EnableRoutes, LoadFromTa, SetDefault, NewSms, StoreSms,
                          DeleteSms, DeleteDone, Restart

LEMMA EntryTypes ==
  ASSUME DbOK, NEW i \in Indexes
  PROVE  db.entries[i] \in Entry /\ db.entries[i].sms \in Sms
<1>1. db.entries[i] \in Entry
  BY DEF DbOK, File, Entries, Indexes
<1>2. QED
  BY <1>1 DEF Entry

\* What storing a part does when it succeeds.
LEMMA PartStored ==
  ASSUME IInv, PendingInv, StorePart, ~Fault
  PROVE  /\ op.sms \in Sms /\ op.part \in 1 .. Parts[op.sms]
         /\ Indexes' = Indexes \cup {NewRef} /\ NewRef \notin Indexes
         /\ db'.entries[NewRef] = [sms |-> op.sms, part |-> op.part]
         /\ \A i \in Indexes : db'.entries[i] = db.entries[i]
         /\ \A n \in Sms \ {op.sms} : list'[n] = list[n]
         /\ \/ list'[op.sms].status = "stored"
            \/ /\ list'[op.sms].status = "fresh"
               /\ op'.kind = "store" /\ op'.sms = op.sms /\ op'.part = op.part + 1
         /\ phase' = phase
<1>1. /\ DbOK /\ ListOK /\ op.kind = "store" /\ op.part \in 1 .. Parts[op.sms]
      /\ op \in [kind : {"store"}, sms : Sms, part : Nat]
  BY DEF IInv, TypeOK, OpInv, StorePart, Ops, NoOp
<1>2. /\ db.ref < MaxRef /\ db' = WithPart(op.sms, op.part) /\ phase' = phase
      /\ list' = [list EXCEPT ![op.sms] =
             [status |-> IF op.part = Parts[op.sms] THEN "stored" ELSE @.status,
              idx |-> [@.idx EXCEPT ![1] = NewRef]]]
      /\ op' = IF op.part = Parts[op.sms] THEN NoOp ELSE [op EXCEPT !.part = @ + 1]
  BY Zenon DEF StorePart
<1>3. op.sms \in Sms
  BY <1>1
<1>4. /\ Indexes' = Indexes \cup {NewRef} /\ NewRef \notin Indexes
      /\ db'.entries[NewRef] = [sms |-> op.sms, part |-> op.part]
      /\ \A i \in Indexes : db'.entries[i] = db.entries[i]
  BY <1>1, <1>2, <1>3, PartWritten
<1>5. \A n \in Sms \ {op.sms} : list'[n] = list[n]
  BY <1>1, <1>2 DEF ListOK
<1>6. list'[op.sms].status = IF op.part = Parts[op.sms] THEN "stored" ELSE "fresh"
  BY <1>1, <1>2, <1>3 DEF ListOK, PendingInv
<1>7. op.part # Parts[op.sms] =>
        op'.kind = "store" /\ op'.sms = op.sms /\ op'.part = op.part + 1
  BY <1>1, <1>2
<1>8. QED
  BY <1>1, <1>2, <1>3, <1>4, <1>5, <1>6, <1>7

\* When the list of a message changes, other than by the store of a part.
LEMMA StatusMoves ==
  ASSUME IInv, PendingInv, Next, ~StorePart, NEW m \in Sms
  PROVE  \/ list'[m].status = list[m].status /\ (phase = "load" => phase' # "enabled")
         \/ list'[m].status = "none" /\ phase' = "off"
         \/ /\ phase = "load"
            /\ \E I \in SUBSET Indexes : /\ list'[m] = Listed(I)[m]
                                         /\ ~Fault => I = Indexes
         \/ NewSms(m)
         \/ list[m].status # "none" /\ list'[m].status \in {"partial", "gone"} /\ phase # "load"
<1>1. ListOK /\ op \in Ops
  BY DEF IInv, TypeOK
<1>2. CASE \/ Start \/ GetRoutesReady \/ StorageDefaults \/ EnableRoutes \/ SetDefaultReady
           \/ \E s \in Storages : SetDefault(s)
           \/ \E n \in Sms : StoreSms(n) \/ DeleteSms(n)
  <2>1. list' = list /\ phase # "load"
    BY <1>2 DEF Start, GetRoutesReady, StorageDefaults, EnableRoutes, SetDefaultReady, SetDefault,
                StoreSms, DeleteSms, Idle
  <2>2. QED
    BY <2>1
<1>3. CASE LoadFromTa
  <2>1. CASE /\ list' = list /\ phase' # "enabled"
    BY <2>1
  <2>2. CASE /\ phase = "load"
             /\ \E I \in SUBSET Indexes : list' = Listed(I) /\ (~Fault => I = Indexes)
    BY <2>2
  <2>3. QED
    BY <1>3, <2>1, <2>2 DEF LoadFromTa, Load
<1>4. ASSUME NEW n \in Sms, NewSms(n), n # m PROVE list'[m] = list[m] /\ phase # "load"
  BY <1>1, <1>4 DEF NewSms, ListOK, Idle
<1>5. CASE DeletePart
  <2>1. op \in [kind : {"delete"}, sms : Sms, part : Nat, failed : BOOLEAN]
    BY <1>1, <1>5 DEF DeletePart, Ops, NoOp
  <2>2. list'[m].status = list[m].status
    <3>1. list' = list \/ list' = [list EXCEPT ![op.sms].idx[op.part] = 0]
      BY <1>5 DEF DeletePart
    <3>2. op.sms \in Sms /\ list \in [Sms -> [status : Statuses,
                          idx : UNION {[1 .. Parts[n] -> 0 .. MaxRef] : n \in Sms}]]
      BY <1>1, <2>1 DEF ListOK
    <3>3. CASE op.sms = m
      BY <3>1, <3>2, <3>3
    <3>4. CASE op.sms # m
      BY <3>1, <3>2, <3>4
    <3>5. QED
      BY <3>3, <3>4
  <2>3. phase = "enabled"
    BY <1>5 DEF PendingInv, DeletePart
  <2>4. QED
    BY <2>2, <2>3
<1>6. CASE DeleteDone
  <2>1. op \in [kind : {"delete"}, sms : Sms, part : Nat, failed : BOOLEAN]
    BY <1>1, <1>6 DEF DeleteDone, Ops, NoOp
  <2>2. phase = "enabled" /\ list[op.sms].status # "none"
    BY <1>6 DEF PendingInv, DeleteDone
  <2>3. CASE op.sms = m
    BY <1>1, <1>6, <2>1, <2>2, <2>3 DEF DeleteDone, ListOK
  <2>4. CASE op.sms # m
    BY <1>1, <1>6, <2>1, <2>2, <2>4 DEF DeleteDone, ListOK
  <2>5. QED
    BY <2>3, <2>4
<1>7. CASE Restart
  BY <1>7 DEF Restart, Cleared, Unlisted
<1>8. QED
  BY <1>2, <1>3, <1>4, <1>5, <1>6, <1>7 DEF Next

\* What is loaded is not new, and a message with an entry is listed.
LEMMA ListedStatus ==
  ASSUME NEW I, NEW m \in Sms
  PROVE  /\ Listed(I)[m].status \in {"none", "stored"}
         /\ \A i \in I : db.entries[i].sms = m => Listed(I)[m].status # "none"
BY DEF Listed

\* No part is written twice: a message with entries in the file is not new, and
\* one being stored has the parts before the one at hand.
LEMMA NextOnce ==
  ASSUME IInv, PendingInv, FaultFree, Next, faults' = 0
  PROVE  OnceInv'
<1>1. OnceInv /\ ~Fault
  BY NothingFailed DEF IInv, TypeOK, FaultFree
<1>2. DbOK /\ ListOK /\ op \in Ops
  BY DEF IInv, TypeOK
<1>3. CASE StorePart
  <2>1. /\ op.sms \in Sms /\ op.part \in 1 .. Parts[op.sms]
        /\ Indexes' = Indexes \cup {NewRef} /\ NewRef \notin Indexes
        /\ db'.entries[NewRef] = [sms |-> op.sms, part |-> op.part]
        /\ \A i \in Indexes : db'.entries[i] = db.entries[i]
        /\ \A n \in Sms \ {op.sms} : list'[n] = list[n]
        /\ \/ list'[op.sms].status = "stored"
           \/ /\ list'[op.sms].status = "fresh"
              /\ op'.kind = "store" /\ op'.sms = op.sms /\ op'.part = op.part + 1
    BY <1>1, <1>3, PartStored
  <2>2. op.kind = "store" /\ list[op.sms].status = "fresh" /\ op.part \in Nat
    BY <1>3, <2>1, PartsAssumption DEF PendingInv, StorePart
  <2>3. ASSUME NEW i \in Indexes, db.entries[i].sms = op.sms
        PROVE  db.entries[i].part < op.part /\ db.entries[i].part \in Nat
    <3>1. db.entries[i].part < op.part
      BY <1>1, <2>2, <2>3 DEF OnceInv
    <3>2. db.entries[i] \in Entry
      BY <1>2, EntryTypes
    <3>3. PICK n \in Sms : db.entries[i] \in [sms : {n}, part : 1 .. Parts[n]]
      BY <3>2 DEF Entry
    <3>4. db.entries[i].part \in Nat
      BY <3>3, PartsAssumption
    <3>5. QED
      BY <3>1, <3>4
  <2>4. ASSUME NEW i \in Indexes PROVE db.entries[i] # [sms |-> op.sms, part |-> op.part]
    BY <2>2, <2>3
  <2>5. \A i, j \in Indexes' : db'.entries[i] = db'.entries[j] => i = j
    BY <1>1, <2>1, <2>4 DEF OnceInv
  <2>6. ASSUME NEW i \in Indexes', list'[db'.entries[i].sms].status = "fresh"
        PROVE  op'.kind = "store" /\ op'.sms = db'.entries[i].sms /\ db'.entries[i].part < op'.part
    <3>1. CASE i = NewRef
      BY <2>1, <2>2, <2>6, <3>1
    <3>2. CASE i # NewRef
      <4>1. i \in Indexes /\ db'.entries[i] = db.entries[i] /\ db.entries[i].sms \in Sms
        BY <1>2, <2>1, <3>2, EntryTypes
      <4>2. CASE db.entries[i].sms = op.sms
        BY <2>1, <2>2, <2>3, <2>6, <4>1, <4>2
      <4>3. CASE db.entries[i].sms # op.sms
        BY <1>1, <2>1, <2>6, <4>1, <4>3 DEF OnceInv
      <4>4. QED
        BY <4>2, <4>3
    <3>3. QED
      BY <3>1, <3>2
  <2>7. QED
    BY <2>5, <2>6 DEF OnceInv
<1>4. CASE ~StorePart
  <2>1. /\ Indexes' \subseteq Indexes
        /\ \A i \in Indexes' : db'.entries[i] = db.entries[i]
    BY <1>4, EntriesKept
  <2>2. \A i, j \in Indexes' : db'.entries[i] = db'.entries[j] => i = j
    BY <1>1, <2>1 DEF OnceInv
  <2>3. ASSUME NEW i \in Indexes', list'[db'.entries[i].sms].status = "fresh"
        PROVE  op'.kind = "store" /\ op'.sms = db'.entries[i].sms /\ db'.entries[i].part < op'.part
    <3>1. PICK m \in Sms : m = db.entries[i].sms /\ i \in Indexes /\ db'.entries[i] = db.entries[i]
      BY <1>2, <2>1, EntryTypes
    <3>2. ~NewSms(m)
      BY <3>1 DEF NewSms
    <3>3. list[m].status = "fresh"
      <4>1. \A I : Listed(I)[m].status # "fresh"
        BY ListedStatus
      <4>2. list'[m].status = "fresh"
        BY <2>3, <3>1
      <4>3. QED
        BY <1>4, <3>2, <4>1, <4>2, StatusMoves
    <3>4. op.kind = "store" /\ op.sms = m /\ db.entries[i].part < op.part
      BY <1>1, <3>1, <3>3 DEF OnceInv
    <3>5. op' = op
      <4>1. ~Restart
        BY <2>3, <3>1 DEF Restart, Cleared, Unlisted
      <4>2. op # NoOp
        BY <3>4 DEF NoOp
      <4>3. QED
        BY <1>4, <3>4, <4>1, <4>2 DEF Next, Start, GetRoutesReady, StorageDefaults, EnableRoutes,
            LoadFromTa, SetDefault, SetDefaultReady, NewSms, StoreSms, DeleteSms, DeletePart,
            DeleteDone, Idle
    <3>6. QED
      BY <3>1, <3>4, <3>5
  <2>4. QED
    BY <2>2, <2>3 DEF OnceInv
<1>5. QED
  BY <1>3, <1>4

\* An entry belongs to a message on the bus.
LEMMA NextListed ==
  ASSUME IInv, PendingInv, FileListed, Next
  PROVE  FileListed'
<1> SUFFICES ASSUME phase' = "enabled", faults' = 0, NEW i \in Indexes'
             PROVE  list'[db'.entries[i].sms].status # "none"
  BY DEF FileListed
<1>1. DbOK /\ InterfaceOK /\ faults = 0 /\ ~Fault
  BY NothingFailed DEF IInv, TypeOK
<1>2. CASE StorePart
  <2>1. /\ op.sms \in Sms /\ Indexes' = Indexes \cup {NewRef}
        /\ db'.entries[NewRef] = [sms |-> op.sms, part |-> op.part]
        /\ \A j \in Indexes : db'.entries[j] = db.entries[j]
        /\ \A n \in Sms \ {op.sms} : list'[n] = list[n]
        /\ list'[op.sms].status # "none" /\ phase' = phase
    BY <1>1, <1>2, PartStored
  <2>2. CASE i = NewRef
    BY <2>1, <2>2
  <2>3. CASE i # NewRef
    <3>1. i \in Indexes /\ db'.entries[i] = db.entries[i] /\ db.entries[i].sms \in Sms
      BY <1>1, <2>1, <2>3, EntryTypes
    <3>2. list[db.entries[i].sms].status # "none"
      BY <1>1, <2>1, <3>1 DEF FileListed
    <3>3. QED
      BY <2>1, <3>1, <3>2
  <2>4. QED
    BY <2>2, <2>3
<1>3. CASE ~StorePart
  <2>1. PICK m \in Sms : m = db.entries[i].sms /\ i \in Indexes /\ db'.entries[i] = db.entries[i]
    BY <1>1, <1>3, EntriesKept, EntryTypes
  <2>2. CASE phase = "load"
    <3>1. list'[m] = Listed(Indexes)[m]
      BY <1>1, <1>3, <2>2, StatusMoves DEF NewSms, Idle
    <3>2. QED
      BY <2>1, <3>1, ListedStatus
  <2>3. CASE phase # "load"
    <3>1. phase = "enabled"
      BY <1>3, <2>3 DEF Next, Start, GetRoutesReady, Unsaved, StorageDefaults,
          EnableRoutes, LoadFromTa, SetDefault, SetDefaultReady, NewSms, StoreSms, DeleteSms,
          DeletePart, DeleteDone, Restart
    <3>2. list[m].status # "none" /\ ~NewSms(m)
      BY <1>1, <2>1, <3>1 DEF FileListed, NewSms
    <3>3. QED
      BY <1>3, <2>1, <2>3, <3>2, StatusMoves
  <2>4. QED
    BY <2>2, <2>3
<1>4. QED
  BY <1>2, <1>3

\* Only a failure stops the daemon on its way to an enabled interface.
LEMMA NextStarts ==
  ASSUME IInv, FaultFree, StartsUnlessFaults, Next
  PROVE  StartsUnlessFaults'
<1> SUFFICES ASSUME faults' = 0, phase' \in {"hung", "crashed"} PROVE FALSE
  <2>1. InterfaceOK'
    BY NextIInv DEF IInv, TypeOK
  <2>2. faults' \in Nat
    BY <2>1, BoundsAssumption DEF InterfaceOK
  <2>3. QED
    BY <2>2 DEF StartsUnlessFaults
<1>1. faults = 0 /\ ~Fault /\ StorageInv /\ OnceInv
  BY NothingFailed DEF IInv, TypeOK, FaultFree
<1>2. phase \notin {"hung", "crashed"}
  BY <1>1 DEF StartsUnlessFaults
<1>3. ~Clash(Indexes)
  BY <1>1 DEF Clash, OnceInv
<1>4. CASE LoadFromTa
  <2>1. db.present
    BY <1>1, <1>4 DEF LoadFromTa, StorageInv, Started, Loaded
  <2>2. Load(Indexes)
    BY <1>1, <1>4, <2>1 DEF LoadFromTa
  <2>3. QED
    BY <1>3, <2>2 DEF Load
<1>5. QED
  BY <1>1, <1>2, <1>4 DEF Next, Start, GetRoutesReady, StorageDefaults, EnableRoutes,
          SetDefault, SetDefaultReady, NewSms, StoreSms, DeleteSms, StorePart, DeletePart,
          DeleteDone, Restart

LEMMA NextCalm == CalmInv /\ [Next]_vars => CalmInv'
<1> SUFFICES ASSUME CalmInv, [Next]_vars PROVE CalmInv'
  OBVIOUS
<1> USE DEF CalmInv
<1>1. IInv'
  BY NextIInv
<1>2. CASE UNCHANGED vars
  BY <1>1, <1>2 DEF vars, PendingInv, FaultFree, StorageInv, OnceInv, FileListed,
                    StartsUnlessFaults, Indexes
<1>3. CASE Next
  <2>1. PendingInv' /\ FileListed' /\ StartsUnlessFaults'
    BY <1>3, NextPending, NextListed, NextStarts
  <2>2. FaultFree'
    BY <1>3, NextStorage, NextOnce DEF FaultFree
  <2>3. QED
    BY <1>1, <2>1, <2>2
<1>4. QED
  BY <1>2, <1>3

\* The second strengthened invariant holds in every state of every behaviour.
THEOREM Calm == Spec => []CalmInv
BY InitCalm, NextCalm, PTL DEF Spec

\* The default storage in use is one the user asked for, wherever the daemon
\* stops between the modem's answer, the property and the file.
THEOREM DefaultsPersist == Spec => []DefaultKept
<1>1. CalmInv => DefaultKept
  BY DEF CalmInv, FaultFree, StorageInv, Started, DefaultKept
<1>2. QED
  BY <1>1, Calm, PTL

\* Whatever is in the file is on the bus once messaging is enabled.
THEOREM AllListed == Spec => []FileListed
BY Calm, PTL DEF CalmInv

\* Messaging gets stuck or takes the daemon with it only after a failure.
THEOREM StartsSafely == Spec => []StartsUnlessFaults
BY Calm, PTL DEF CalmInv
=============================================================================
