---------------------------- MODULE WestonStart -----------------------------
(***************************************************************************)
(* weston-start.sh while the kernel is still probing display cards: cards  *)
(* get their number, their link under /dev/dri/by-path and later their     *)
(* connectors in any order, before the script runs or while it does.       *)
(***************************************************************************)
EXTENDS Naturals, FiniteSets, SequencesExt

CONSTANTS
    Cards,  \* display cards of the board
    Addr    \* rank of a card's platform address in the order of sort

ASSUME AddrAssumption ==
    /\ IsFiniteSet(Cards) /\ Addr \in [Cards -> Nat]
    /\ \A a, b \in Cards : Addr[a] = Addr[b] => a = b

VARIABLES
    number,  \* N of cardN, in the order of probing; 0 before
    kms,     \* cards whose connectors are in /sys/class/drm
    pc,      \* "boot", "scan" or "weston"
    todo,    \* links the glob gave, not looked at yet
    found,   \* kms_cards
    order,   \* sorted_cards, the first being the primary card
    settled  \* history: every card had its connectors when the script began

westonVars == <<number, kms, pc, todo, found, order, settled>>

WestonInit ==
    /\ number = [c \in Cards |-> 0] /\ kms = {}
    /\ pc = "boot" /\ todo = {} /\ found = {} /\ order = <<>> /\ settled = FALSE

Linked == {c \in Cards : number[c] # 0}

ProbeCard(c) ==
    /\ number[c] = 0
    /\ number' = [number EXCEPT ![c] = Cardinality(Linked) + 1]
    /\ UNCHANGED <<kms, pc, todo, found, order, settled>>

AddConnectors(c) ==
    /\ c \in Linked \ kms
    /\ kms' = kms \cup {c}
    /\ UNCHANGED <<number, pc, todo, found, order, settled>>

\* The glob over the links is expanded once.
Glob ==
    /\ pc = "boot"
    /\ pc' = "scan" /\ todo' = Linked /\ settled' = (kms = Cards)
    /\ UNCHANGED <<number, kms, found, order>>

\* Mutant: kms_cards is assigned, not appended to.
M_Look(c) ==
    /\ pc = "scan" /\ c \in todo
    /\ todo' = todo \ {c} /\ found' = {c} \cap kms
    /\ UNCHANGED <<number, kms, pc, order, settled>>

\* A card counts if it has a connector by the time it is looked at.
Look(c) ==
    /\ pc = "scan" /\ c \in todo
    /\ todo' = todo \ {c} /\ found' = found \cup ({c} \cap kms)
    /\ UNCHANGED <<number, kms, pc, order, settled>>

\* Its line in the output of sort on platform_addr:card_name.
Line(c) == Cardinality({a \in found : Addr[a] <= Addr[c]})
Sorted == [n \in 1 .. Cardinality(found) |-> CHOOSE c \in found : Line(c) = n]

StartWeston ==
    /\ pc = "scan" /\ todo = {}
    /\ pc' = "weston" /\ order' = Sorted
    /\ UNCHANGED <<number, kms, todo, found, settled>>

WestonNext ==
    \/ \E c \in Cards : ProbeCard(c) \/ AddConnectors(c) \/ Look(c)
    \/ Glob \/ StartWeston

WestonSpec == WestonInit /\ [][WestonNext]_westonVars

-----------------------------------------------------------------------------
(* Properties.                                                             *)

\* "This ensures consistent ordering regardless of probe order": the cards
\* handed to Weston are in the order of their addresses, whichever were there
\* in time and however the kernel numbered them.
ConsistentOrder ==
    \A i, j \in DOMAIN order : i < j => Addr[order[i]] < Addr[order[j]]

\* Only a board that was still probing when the script began starts Weston
\* without one of its cards, or with a primary card other than its first.
AllCardsWhenSettled == settled /\ pc = "weston" => ToSet(order) = Cards

\* The primary card depends on the board alone: what is found is in the order of
\* the addresses, and on a settled board all is found.
CardsInOrder == ConsistentOrder /\ AllCardsWhenSettled
=============================================================================
