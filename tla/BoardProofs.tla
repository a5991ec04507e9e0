---------------------------- MODULE BoardProofs -----------------------------
(***************************************************************************)
(* The TEE partition for any number of power cuts, weston-start.sh for any *)
(* number of display cards, and the board: these two and the storage of    *)
(* ModemManager, which SmsStoreProofs is about.                            *)
(***************************************************************************)
EXTENDS MCBoard, SmsStoreProofs, FiniteSetTheorems

-----------------------------------------------------------------------------
(* TeePartition.  None of its invariants is inductive by itself: what is   *)
(* mounted was checked because the service is active, the service is       *)
(* active because the disk is good, and stored objects imply a finished    *)
(* file system, which keeps the script away from mkfs.                     *)

TeeInv ==
    /\ TeeTypeOK
    /\ ScriptAlone
    /\ mounted => svc = "active"
    /\ svc = "active" => type = "ext4" /\ status = 0
    /\ stored = 1 => type = "ext4" /\ svc # "mkfs"
    /\ svc = "fsck" => type = "ext4"
    /\ StoredKept

LEMMA InitTee == TeeInit => TeeInv
<1> SUFFICES ASSUME TeeInit PROVE TeeInv
  OBVIOUS
<1>1. status \in {0, 8} /\ type \in {"none", "ext4"} /\ cuts \in 0 .. MaxCuts
  BY CutsAssumption DEF TeeInit
<1>2. /\ up = FALSE /\ dev = FALSE /\ job = FALSE /\ mounted = FALSE
      /\ svc = "inactive" /\ stored = 0 /\ intact = 0
  BY DEF TeeInit
<1>3. TeeTypeOK
  BY <1>1, <1>2 DEF TeeTypeOK, Scripts
<1>4. ScriptAlone /\ StoredKept
  BY <1>2 DEF ScriptAlone, StoredKept
<1>5. QED
  BY <1>2, <1>3, <1>4 DEF TeeInv

LEMMA NextTee == TeeInv /\ [TeeNext]_teeVars => TeeInv'
<1> SUFFICES ASSUME TeeInv, [TeeNext]_teeVars PROVE TeeInv'
  OBVIOUS
<1> USE CutsAssumption
    DEF TeeInv, TeeTypeOK, ScriptAlone, StoredKept, Scripts, teeVars, disk, files
<1>1. CASE Boot
  BY <1>1 DEF Boot
<1>2. CASE DeviceAdd
  BY <1>2 DEF DeviceAdd
<1>3. CASE StartService
  BY <1>3 DEF StartService
<1>4. CASE Probe
  BY <1>4 DEF Probe
<1>5. CASE Mkfs
  BY <1>5 DEF Mkfs
<1>6. CASE Fsck
  BY <1>6 DEF Fsck
<1>7. CASE Mount
  <2>1. CASE svc = "active" /\ mounted' = TRUE
    BY <1>7, <2>1 DEF Mount
  <2>2. CASE svc = "failed" /\ UNCHANGED mounted
    BY <1>7, <2>2 DEF Mount
  <2>3. QED
    BY <1>7, <2>1, <2>2 DEF Mount
<1>8. CASE Store
  BY <1>8 DEF Store
<1>9. CASE Shutdown
  BY <1>9 DEF Shutdown, Off
<1>10. CASE PowerCut
  <2>1. Off /\ cuts' \in 0 .. MaxCuts /\ UNCHANGED files
    BY <1>10 DEF PowerCut
  <2>2. CASE mounted /\ status' \in {0, 4, 8} /\ UNCHANGED type
    BY <2>1, <2>2 DEF Off
  <2>3. CASE svc = "mkfs" /\ type' \in {"none", "ext4"} /\ status' = 8
    BY <2>1, <2>3 DEF Off
  <2>4. CASE ~mounted /\ svc # "mkfs" /\ UNCHANGED disk
    BY <2>1, <2>4 DEF Off
  <2>5. QED
    BY <1>10, <2>2, <2>3, <2>4 DEF PowerCut
<1>11. CASE UNCHANGED teeVars
  BY <1>11
<1>12. QED
  BY <1>1, <1>2, <1>3, <1>4, <1>5, <1>6, <1>7, <1>8, <1>9, <1>10, <1>11 DEF TeeNext

LEMMA TeeInductive == TeeSpec => []TeeInv
BY InitTee, NextTee, PTL DEF TeeSpec

\* The state keeps its types, over any number of power cuts.
THEOREM TeeTypes == TeeSpec => []TeeTypeOK
<1>1. TeeInv => TeeTypeOK
  BY DEF TeeInv
<1>2. QED
  BY <1>1, TeeInductive, PTL

\* check-tee-partition-fs.sh never runs beside the mount.
THEOREM Alone == TeeSpec => []ScriptAlone
<1>1. TeeInv => ScriptAlone
  BY DEF TeeInv
<1>2. QED
  BY <1>1, TeeInductive, PTL

\* What is mounted passed its check, over any number of power cuts.
THEOREM MountsClean == TeeSpec => []MountedClean
<1>1. TeeInv => MountedClean
  BY DEF TeeInv, MountedClean
<1>2. QED
  BY <1>1, TeeInductive, PTL

\* No sequence of boots and power cuts makes the script wipe stored objects.
THEOREM NothingWiped == TeeSpec => []StoredKept
<1>1. TeeInv => StoredKept
  BY DEF TeeInv
<1>2. QED
  BY <1>1, TeeInductive, PTL

-----------------------------------------------------------------------------
(* weston-start.sh, for any number of cards, numbered in any order.        *)

\* Sorting puts every card that was found on a line of its own, in the order of
\* the addresses.
LEMMA SortedInOrder ==
    ASSUME found \subseteq Cards
    PROVE  /\ \A i, j \in DOMAIN Sorted : i < j => Addr[Sorted[i]] < Addr[Sorted[j]]
           /\ ToSet(Sorted) = found
<1> DEFINE Upto(c) == {a \in found : Addr[a] <= Addr[c]}
           n == Cardinality(found)
           line == [c \in found |-> Line(c)]
<1>1. /\ IsFiniteSet(found) /\ n \in Nat
      /\ \A c \in found : Addr[c] \in Nat
      /\ \A a, b \in found : Addr[a] = Addr[b] => a = b
  <2>1. IsFiniteSet(found)
    BY AddrAssumption, FS_Subset
  <2>2. QED
    BY <2>1, AddrAssumption, FS_CardinalityType
<1>2. ASSUME NEW c \in found PROVE IsFiniteSet(Upto(c)) /\ Line(c) \in 1 .. n
  <2>1. Upto(c) \in SUBSET found /\ c \in Upto(c)
    BY <1>1
  <2>2. IsFiniteSet(Upto(c)) /\ Cardinality(Upto(c)) <= n
    BY <1>1, <2>1, FS_Subset
  <2>3. Cardinality(Upto(c)) \in Nat /\ Cardinality(Upto(c)) # 0
    BY <2>1, <2>2, FS_CardinalityType, FS_EmptySet
  <2>4. Line(c) = Cardinality(Upto(c))
    BY DEF Line
  <2>5. QED
    BY <1>1, <2>2, <2>3, <2>4
<1>3. ASSUME NEW a \in found, NEW b \in found, Addr[a] < Addr[b] PROVE Line(a) < Line(b)
  <2>1. Upto(a) \in SUBSET Upto(b)
    BY <1>1, <1>3
  <2>2. b \in Upto(b) /\ b \notin Upto(a)
    BY <1>1, <1>3
  <2>3. Cardinality(Upto(a)) <= Cardinality(Upto(b)) /\ Cardinality(Upto(a)) # Cardinality(Upto(b))
    BY <1>2, <2>1, <2>2, FS_Subset
  <2>4. Line(a) = Cardinality(Upto(a)) /\ Line(b) = Cardinality(Upto(b))
    BY DEF Line
  <2>5. Line(a) \in Nat /\ Line(b) \in Nat
    <3>1. Line(a) \in 1 .. n /\ Line(b) \in 1 .. n
      BY <1>2
    <3>2. QED
      BY <1>1, <3>1
  <2>6. QED
    BY <2>3, <2>4, <2>5
<1> HIDE DEF Upto, n
<1>4. ASSUME NEW a \in found, NEW b \in found, Line(a) = Line(b) PROVE a = b
  <2>1. ~(Addr[a] < Addr[b]) /\ ~(Addr[b] < Addr[a])
    <3>1. Line(a) \in 1 .. n /\ Line(b) \in 1 .. n
      BY <1>2
    <3>2. QED
      BY <1>1, <1>3, <1>4, <3>1
  <2>2. QED
    BY <1>1, <2>1
<1>5. line \in Injection(found, 1 .. n)
  BY <1>2, <1>4 DEF Injection, IsInjective
<1>6. IsFiniteSet(1 .. n) /\ Cardinality(1 .. n) = n
  BY <1>1, FS_Interval
<1>7. line \in Surjection(found, 1 .. n)
  BY <1>5, <1>6, FS_Injection DEF n
<1>8. ASSUME NEW i \in 1 .. n PROVE Sorted[i] \in found /\ Line(Sorted[i]) = i
  <2>1. \E c \in found : Line(c) = i
    BY <1>7 DEF Surjection
  <2>2. Sorted[i] = CHOOSE c \in found : Line(c) = i
    BY DEF Sorted, n
  <2>3. QED
    BY <2>1, <2>2
<1>9. DOMAIN Sorted = 1 .. n
  BY DEF Sorted, n
<1>10. ASSUME NEW i \in DOMAIN Sorted, NEW j \in DOMAIN Sorted, i < j
       PROVE  Addr[Sorted[i]] < Addr[Sorted[j]]
  <2>1. /\ Sorted[i] \in found /\ Sorted[j] \in found
        /\ Line(Sorted[i]) = i /\ Line(Sorted[j]) = j /\ i \in Nat /\ j \in Nat
    BY <1>1, <1>8, <1>9
  <2>2. Sorted[i] # Sorted[j]
    BY <1>10, <2>1
  <2>3. ~(Addr[Sorted[j]] < Addr[Sorted[i]])
    BY <1>3, <1>10, <2>1
  <2>4. QED
    BY <1>1, <2>1, <2>2, <2>3
<1>11. ToSet(Sorted) = found
  <2>1. ASSUME NEW c \in found PROVE c \in ToSet(Sorted)
    <3>1. Line(c) \in DOMAIN Sorted
      BY <1>2, <1>9
    <3>2. Sorted[Line(c)] = c
      BY <1>4, <1>8, <1>9, <3>1
    <3>3. QED
      BY <3>1, <3>2 DEF ToSet
  <2>2. QED
    BY <1>8, <1>9, <2>1 DEF ToSet
<1>12. QED
  BY <1>10, <1>11

\* A card has its connectors only with its number, and of a board that was settled
\* when the script began, the script finds every card.
WestonInv ==
    /\ kms \subseteq Linked /\ todo \subseteq Cards /\ found \subseteq Cards
    /\ DOMAIN number = Cards
    /\ pc = "boot" => ~settled /\ found = {}
    /\ pc # "weston" => order = <<>>
    /\ settled => kms = Cards
    /\ settled => todo \cup found = Cards
    /\ CardsInOrder

LEMMA InitWeston == WestonInit => WestonInv
BY DEF WestonInit, WestonInv, CardsInOrder, ConsistentOrder, AllCardsWhenSettled, Linked, ToSet

LEMMA NextWeston == WestonInv /\ [WestonNext]_westonVars => WestonInv'
<1> SUFFICES ASSUME WestonInv, [WestonNext]_westonVars PROVE WestonInv'
  OBVIOUS
<1> USE DEF WestonInv
<1>1. UNCHANGED <<order, pc, settled>> => CardsInOrder'
  BY DEF CardsInOrder, ConsistentOrder, AllCardsWhenSettled
<1>2. ASSUME NEW c \in Cards, ProbeCard(c) PROVE WestonInv'
  <2>1. Linked \subseteq Linked' /\ DOMAIN number' = Cards
    <3>1. Cardinality(Linked) + 1 # 0
      <4>1. IsFiniteSet(Linked)
        BY AddrAssumption, FS_Subset DEF Linked
      <4>2. Cardinality(Linked) \in Nat
        BY <4>1, FS_CardinalityType
      <4>3. QED
        BY <4>2
    <3>2. /\ DOMAIN number' = Cards /\ number'[c] = Cardinality(Linked) + 1
          /\ \A a \in Cards : a # c => number'[a] = number[a]
      BY <1>2 DEF ProbeCard
    <3>3. QED
      BY <3>1, <3>2 DEF Linked
  <2>2. UNCHANGED <<kms, pc, todo, found, order, settled>>
    BY <1>2 DEF ProbeCard
  <2>3. QED
    BY <1>1, <2>1, <2>2
<1>3. ASSUME NEW c \in Cards, AddConnectors(c) PROVE WestonInv'
  <2>1. /\ c \in Linked /\ kms' = kms \cup {c} /\ Linked' = Linked
        /\ UNCHANGED <<number, pc, todo, found, order, settled>>
    BY <1>3 DEF AddConnectors, Linked
  <2>2. QED
    BY <1>1, <2>1
<1>4. CASE Glob
  <2>1. /\ pc = "boot" /\ pc' = "scan" /\ todo' = Linked /\ settled' = (kms = Cards)
        /\ Linked' = Linked /\ UNCHANGED <<number, kms, found, order>>
    BY <1>4 DEF Glob, Linked
  <2>2. Linked \subseteq Cards
    BY DEF Linked
  <2>3. CardsInOrder'
    BY <2>1 DEF CardsInOrder, ConsistentOrder, AllCardsWhenSettled
  <2>4. settled' => kms' = Cards /\ todo' = Cards
    BY <2>1, <2>2
  <2>5. QED
    BY <2>1, <2>2, <2>3, <2>4
<1>5. ASSUME NEW c \in Cards, Look(c) PROVE WestonInv'
  <2>1. /\ pc = "scan" /\ c \in todo /\ todo' = todo \ {c} /\ found' = found \cup ({c} \cap kms)
        /\ Linked' = Linked /\ UNCHANGED <<number, kms, pc, order, settled>>
    BY <1>5 DEF Look, Linked
  <2>2. settled => todo' \cup found' = Cards
    BY <2>1
  <2>3. QED
    BY <1>1, <2>1, <2>2
<1>6. CASE StartWeston
  <2>1. /\ pc = "scan" /\ todo = {} /\ pc' = "weston" /\ order' = Sorted
        /\ Linked' = Linked /\ UNCHANGED <<number, kms, todo, found, settled>>
    BY <1>6 DEF StartWeston, Linked
  <2>2. /\ \A i, j \in DOMAIN order' : i < j => Addr[order'[i]] < Addr[order'[j]]
        /\ ToSet(order') = found
    BY <2>1, SortedInOrder
  <2>3. CardsInOrder'
    BY <2>1, <2>2 DEF CardsInOrder, ConsistentOrder, AllCardsWhenSettled
  <2>4. QED
    BY <2>1, <2>3
<1>7. CASE UNCHANGED westonVars
  BY <1>7 DEF westonVars, CardsInOrder, ConsistentOrder, AllCardsWhenSettled, Linked
<1>8. QED
  BY <1>2, <1>3, <1>4, <1>5, <1>6, <1>7 DEF WestonNext

\* CardsInOrder: Weston gets its cards in the order of their addresses, and all
\* of them on a settled board, for any number of cards probed in any order.
THEOREM OrderedCards == WestonSpec => []CardsInOrder
<1>1. WestonInv => CardsInOrder
  BY DEF WestonInv
<1>2. QED
  BY <1>1, InitWeston, NextWeston, PTL DEF WestonSpec

-----------------------------------------------------------------------------
(* The parts together.                                                     *)

\* Each behaviour of the model is one of every part: what was proved of the
\* partition, the message storage and the display script holds in it.
THEOREM BoardParts == BoardSpec => TeeSpec /\ Spec /\ WestonSpec
<1>1. BoardInit => TeeInit /\ Init /\ WestonInit
  BY DEF BoardInit
<1>2. [BoardNext]_<<part, teeVars, vars, westonVars>> =>
          [TeeNext]_teeVars /\ [Next]_vars /\ [WestonNext]_westonVars
  BY DEF BoardNext, DisplayUp
<1>3. QED
  BY <1>1, <1>2, PTL DEF BoardSpec, TeeSpec, Spec, WestonSpec

\* The types of the partition and of the message storage, for any number of
\* power cuts, messages, parts and faults.
THEOREM BoardTypes == BoardSpec => []BoardTypesOK
BY BoardParts, TeeTypes, TypeCorrect, PTL DEF BoardTypesOK
=============================================================================
