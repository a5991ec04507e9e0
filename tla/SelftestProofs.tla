--------------------------- MODULE SelftestProofs ---------------------------
(***************************************************************************)
(* The parser of the selftest, for any tree, its matrix tests, for any     *)
(* machines, kernels and number of failing calls, and the types of both in *)
(* the specification of all its classes.                                   *)
(***************************************************************************)
EXTENDS MCSelftest, FiniteSetTheorems, SequenceTheorems, WellFoundedInduction, TLAPS

\* Every non-empty set of numbers has a least one.
LEMMA LeastNat ==
    ASSUME NEW T, T \subseteq Nat, T # {}
    PROVE  \E x \in T : \A y \in T : ~(y < x)
<1>1. PICK x \in T : \A y \in T : ~(<<y, x>> \in OpToRel(<, Nat))
  BY NatLessThanWellFounded, WFMin
<1>2. QED
  BY <1>1 DEF OpToRel

-----------------------------------------------------------------------------
(* ItsText.                                                                *)

Prefix(s, k) == [i \in 1 .. k |-> s[i]]

\* Nodes of a section that have been closed.
Closed(sec) ==
    IF at.sec < sec THEN 0
    ELSE IF at.sec > sec THEN Len(Nodes(sec))
    ELSE IF at.node = 0 THEN 0 ELSE at.node - 1

\* Where in the file the parser is, and which nodes are open there.
PlaceInv ==
    /\ tree \in Trees
    /\ at \in [sec : 0 .. 4, node : Nat, line : Nat]
    /\ at.sec = 0 => /\ at.node = 0 /\ at.line \in 1 .. 3
                     /\ path = IF at.line = 3 THEN <<"/">> ELSE <<>>
    /\ at.sec \in 1 .. 2 =>
          /\ at.node \in 0 .. Len(Nodes(at.sec)) + 1
          /\ at.node \notin 1 .. Len(Nodes(at.sec)) => at.line = 0
          /\ at.node \in 1 .. Len(Nodes(at.sec)) => at.line \in 0 .. Len(AtNode.props) + 1
          /\ path = IF at.node = 0 THEN <<"/">>
                    ELSE IF at.line = 0 THEN <<"/", Sections[at.sec]>>
                    ELSE <<"/", Sections[at.sec], AtNode.name>>
    /\ at.sec = 3 => path = <<"/">>
    /\ AtEnd => path = <<>>

\* What has been read of the node that is open.
OpenInv ==
    at.sec \in 1 .. 2 /\ at.line > 0 => props = Props(Prefix(AtNode.props, at.line - 1))

\* What has been filed of the nodes that are closed.
FiledInv ==
    /\ images = Reading(Prefix(tree.images, Closed(1)))
    /\ configurations = Reading(Prefix(tree.configurations, Closed(2)))

TextInv == PlaceInv /\ OpenInv /\ FiledInv

-----------------------------------------------------------------------------
\* Of several places with one key, LastWith is the last.
LEMMA LastIs ==
    ASSUME NEW keys, NEW i \in DOMAIN keys, DOMAIN keys \subseteq Nat,
           \A j \in DOMAIN keys : j > i => keys[j] # keys[i]
    PROVE  LastWith(keys, keys[i]) = i
<1> DEFINE L(l) == keys[l] = keys[i] /\ \A j \in DOMAIN keys : j > l => keys[j] # keys[i]
           last == CHOOSE l \in DOMAIN keys : L(l)
<1>1. LastWith(keys, keys[i]) = last
  BY DEF LastWith
<1>2. L(i)
  OBVIOUS
<1>3. last \in DOMAIN keys /\ L(last)
  <2> HIDE DEF L
  <2>1. QED
    BY <1>2
<1>4. ~(last > i) /\ ~(i > last)
  BY <1>3
<1>5. last \in Nat /\ i \in Nat
  BY <1>3
<1>6. QED
  BY <1>1, <1>4, <1>5

\* There is one for every key.
LEMMA LastOf ==
    ASSUME NEW n \in Nat, NEW keys, DOMAIN keys = 1 .. n, NEW i \in 1 .. n
    PROVE  /\ LastWith(keys, keys[i]) \in 1 .. n
           /\ keys[LastWith(keys, keys[i])] = keys[i]
           /\ \A j \in 1 .. n : j > LastWith(keys, keys[i]) => keys[j] # keys[i]
<1> DEFINE Back == {d \in 0 .. n : n - d \in 1 .. n /\ keys[n - d] = keys[i]}
           L(l) == keys[l] = keys[i] /\ \A j \in DOMAIN keys : j > l => keys[j] # keys[i]
           last == CHOOSE l \in DOMAIN keys : L(l)
<1>1. n - i \in Back
  <2>1. n - i \in 0 .. n /\ n - (n - i) = i
    OBVIOUS
  <2>2. QED
    BY <2>1
<1>2. PICK d \in Back : \A e \in Back : ~(e < d)
  <2>1. Back \subseteq Nat
    OBVIOUS
  <2> HIDE DEF Back
  <2>2. QED
    BY <1>1, <2>1, LeastNat
<1>3. ASSUME NEW j \in 1 .. n, j > n - d PROVE keys[j] # keys[i]
  <2>1. n - j \in 0 .. n /\ n - (n - j) = j /\ n - j < d
    BY <1>2, <1>3
  <2>2. n - j \notin Back
    BY <1>2, <2>1
  <2>3. QED
    BY <2>1, <2>2
<1>4. n - d \in DOMAIN keys /\ L(n - d)
  BY <1>2, <1>3
<1>5. last \in DOMAIN keys /\ L(last)
  <2> HIDE DEF L
  <2>1. QED
    BY <1>4
<1>6. LastWith(keys, keys[i]) = last
  BY DEF LastWith
<1>7. QED
  BY <1>5, <1>6

\* One more place: its key is now last there, every other one where it was.
LEMMA LastGrows ==
    ASSUME NEW n \in Nat, NEW keys, DOMAIN keys = 1 .. n + 1,
           NEW before, DOMAIN before = 1 .. n, \A i \in 1 .. n : before[i] = keys[i]
    PROVE  /\ LastWith(keys, keys[n + 1]) = n + 1
           /\ \A i \in 1 .. n : keys[i] # keys[n + 1] =>
                 /\ LastWith(keys, keys[i]) = LastWith(before, keys[i])
                 /\ LastWith(keys, keys[i]) \in 1 .. n
<1>1. n + 1 \in DOMAIN keys /\ DOMAIN keys \subseteq Nat /\ DOMAIN before \subseteq Nat
      /\ ~(\E j \in DOMAIN keys : j > n + 1)
  OBVIOUS
<1>2. LastWith(keys, keys[n + 1]) = n + 1
  BY <1>1, LastIs
<1>3. ASSUME NEW i \in 1 .. n, keys[i] # keys[n + 1]
      PROVE  /\ LastWith(keys, keys[i]) = LastWith(before, keys[i])
             /\ LastWith(keys, keys[i]) \in 1 .. n
  <2> DEFINE l == LastWith(before, before[i])
  <2>1. l \in 1 .. n /\ before[l] = before[i] /\ \A j \in 1 .. n : j > l => before[j] # before[i]
    BY ONLY LastOf, n \in Nat, DOMAIN before = 1 .. n, i \in 1 .. n DEF l
  <2> HIDE DEF l
  <2>2. keys[l] = keys[i] /\ \A j \in DOMAIN keys : j > l => keys[j] # keys[l]
    <3>1. keys[l] = keys[i] /\ \A j \in 1 .. n : j > l => keys[j] # keys[l]
      BY <2>1
    <3>2. \A j \in DOMAIN keys : j \in 1 .. n \/ j = n + 1
      OBVIOUS
    <3>3. QED
      BY <1>3, <3>1, <3>2
  <2>3. l \in DOMAIN keys
    BY <2>1
  <2>4. LastWith(keys, keys[l]) = l
    BY ONLY <1>1, <2>2, <2>3, LastIs
  <2>5. QED
    BY <2>1, <2>2, <2>4 DEF l
<1>4. QED
  BY <1>2, <1>3

\* A section, or a node, as a dictionary: of two entries with one key, the later.
DictOf(keys, vals) == [k \in {keys[i] : i \in DOMAIN keys} |-> vals[LastWith(keys, k)]]

\* One entry more is what d[k] = v makes of the entries before.
LEMMA DictGrows ==
    ASSUME NEW n \in Nat, NEW keys, DOMAIN keys = 1 .. n + 1,
           NEW before, DOMAIN before = 1 .. n, \A i \in 1 .. n : before[i] = keys[i],
           NEW vals, NEW old, \A i \in 1 .. n : old[i] = vals[i]
    PROVE  DictOf(keys, vals) = Put(DictOf(before, old), keys[n + 1], vals[n + 1])
<1> DEFINE more == DictOf(keys, vals)
           less == DictOf(before, old)
<1>1. /\ DOMAIN more = {keys[i] : i \in DOMAIN keys}
      /\ \A k \in DOMAIN more : more[k] = vals[LastWith(keys, k)]
      /\ more = [k \in DOMAIN more |-> more[k]]
  BY DEF DictOf
<1>2. /\ DOMAIN less = {before[i] : i \in DOMAIN before}
      /\ \A k \in DOMAIN less : less[k] = old[LastWith(before, k)]
  BY DEF DictOf
<1>3. /\ LastWith(keys, keys[n + 1]) = n + 1
      /\ \A i \in 1 .. n : keys[i] # keys[n + 1] =>
            /\ LastWith(keys, keys[i]) = LastWith(before, keys[i])
            /\ LastWith(keys, keys[i]) \in 1 .. n
  BY LastGrows
<1>4. DOMAIN keys = (1 .. n) \cup {n + 1}
  OBVIOUS
<1> HIDE DEF more, less
<1>5. DOMAIN more = DOMAIN less \cup {keys[n + 1]}
  BY <1>1, <1>2, <1>4
<1>6. ASSUME NEW k \in DOMAIN more
      PROVE  more[k] = IF k = keys[n + 1] THEN vals[n + 1] ELSE less[k]
  <2>1. CASE k = keys[n + 1]
    BY <1>1, <1>3, <2>1
  <2>2. CASE k # keys[n + 1]
    <3>1. PICK i \in 1 .. n : k = keys[i]
      BY <1>1, <1>4, <2>2
    <3>2. LastWith(keys, k) = LastWith(before, k) /\ LastWith(keys, k) \in 1 .. n
      BY <1>3, <2>2, <3>1
    <3>3. k \in DOMAIN less
      BY <1>2, <3>1
    <3>4. QED
      BY <1>1, <1>2, <2>2, <3>2, <3>3
  <2>3. QED
    BY <2>1, <2>2
<1>7. more = Put(less, keys[n + 1], vals[n + 1])
  BY <1>1, <1>5, <1>6 DEF Put
<1>8. QED
  BY <1>7 DEF more, less

\* The readings of ItsTree are such dictionaries.
LEMMA ReadingsAreDicts ==
    ASSUME NEW n \in Nat, NEW s
    PROVE  /\ Props(Prefix(s, n)) = DictOf([i \in 1 .. n |-> s[i].key],
                                         [i \in 1 .. n |-> Reread(Written(s[i].val))])
           /\ Reading(Prefix(s, n)) = DictOf([i \in 1 .. n |-> s[i].name],
                                           [i \in 1 .. n |-> Props(s[i].props)])
<1>1. DOMAIN Prefix(s, n) = 1 .. n /\ \A i \in 1 .. n : Prefix(s, n)[i] = s[i]
  BY DEF Prefix
<1>2. ASSUME NEW keys, DOMAIN keys = 1 .. n, NEW k \in {keys[i] : i \in DOMAIN keys}
      PROVE  LastWith(keys, k) \in 1 .. n
  <2>1. PICK i \in 1 .. n : k = keys[i]
    BY <1>2
  <2>2. QED
    BY ONLY LastOf, n \in Nat, <1>2, <2>1
<1>3. Props(Prefix(s, n)) = DictOf([i \in 1 .. n |-> s[i].key],
                                 [i \in 1 .. n |-> Reread(Written(s[i].val))])
  <2> DEFINE keys == [i \in 1 .. n |-> s[i].key]
             vals == [i \in 1 .. n |-> Reread(Written(s[i].val))]
  <2>1. [i \in DOMAIN Prefix(s, n) |-> Prefix(s, n)[i].key] = keys /\ DOMAIN keys = 1 .. n
        /\ \A i \in 1 .. n : vals[i] = Reread(Written(Prefix(s, n)[i].val))
    BY <1>1
  <2> HIDE DEF keys, vals
  <2>2. \A k \in {keys[i] : i \in DOMAIN keys} :
            vals[LastWith(keys, k)] = Reread(Written(Prefix(s, n)[LastWith(keys, k)].val))
    BY <1>2, <2>1
  <2>3. Props(Prefix(s, n)) = [k \in {keys[i] : i \in DOMAIN keys} |->
                                  Reread(Written(Prefix(s, n)[LastWith(keys, k)].val))]
    BY <2>1 DEF Props
  <2>4. Props(Prefix(s, n)) = DictOf(keys, vals)
    BY <2>2, <2>3 DEF DictOf
  <2>5. QED
    BY <2>4 DEF keys, vals
<1>4. Reading(Prefix(s, n)) = DictOf([i \in 1 .. n |-> s[i].name],
                                   [i \in 1 .. n |-> Props(s[i].props)])
  <2> DEFINE keys == [i \in 1 .. n |-> s[i].name]
             vals == [i \in 1 .. n |-> Props(s[i].props)]
  <2>1. [i \in DOMAIN Prefix(s, n) |-> Prefix(s, n)[i].name] = keys /\ DOMAIN keys = 1 .. n
        /\ \A i \in 1 .. n : vals[i] = Props(Prefix(s, n)[i].props)
    BY <1>1
  <2> HIDE DEF keys, vals
  <2>2. \A k \in {keys[i] : i \in DOMAIN keys} :
            vals[LastWith(keys, k)] = Props(Prefix(s, n)[LastWith(keys, k)].props)
    BY <1>2, <2>1
  <2>3. Reading(Prefix(s, n)) = [k \in {keys[i] : i \in DOMAIN keys} |->
                                    Props(Prefix(s, n)[LastWith(keys, k)].props)]
    BY <2>1 DEF Reading
  <2>4. Reading(Prefix(s, n)) = DictOf(keys, vals)
    BY <2>2, <2>3 DEF DictOf
  <2>5. QED
    BY <2>4 DEF keys, vals
<1>5. QED
  BY <1>3, <1>4

\* A property read, or a node filed, after the others.
LEMMA ReadingsGrow ==
    ASSUME NEW n \in Nat, NEW s
    PROVE  /\ Props(Prefix(s, n + 1))
                = Put(Props(Prefix(s, n)), s[n + 1].key, Reread(Written(s[n + 1].val)))
           /\ Reading(Prefix(s, n + 1))
                = Put(Reading(Prefix(s, n)), s[n + 1].name, Props(s[n + 1].props))
<1>1. n + 1 \in Nat /\ n + 1 \in 1 .. n + 1 /\ \A i \in 1 .. n : i \in 1 .. n + 1
  OBVIOUS
<1>2. Props(Prefix(s, n + 1))
        = Put(Props(Prefix(s, n)), s[n + 1].key, Reread(Written(s[n + 1].val)))
  <2> DEFINE key(m) == [i \in 1 .. m |-> s[i].key]
             val(m) == [i \in 1 .. m |-> Reread(Written(s[i].val))]
  <2>1. /\ DOMAIN key(n + 1) = 1 .. n + 1 /\ DOMAIN key(n) = 1 .. n
        /\ \A i \in 1 .. n : key(n)[i] = key(n + 1)[i] /\ val(n)[i] = val(n + 1)[i]
        /\ key(n + 1)[n + 1] = s[n + 1].key
        /\ val(n + 1)[n + 1] = Reread(Written(s[n + 1].val))
    BY <1>1
  <2>2. Props(Prefix(s, n + 1)) = DictOf(key(n + 1), val(n + 1))
        /\ Props(Prefix(s, n)) = DictOf(key(n), val(n))
    BY <1>1, ReadingsAreDicts
  <2> HIDE DEF key, val
  <2>3. DictOf(key(n + 1), val(n + 1))
          = Put(DictOf(key(n), val(n)), key(n + 1)[n + 1], val(n + 1)[n + 1])
    BY ONLY <2>1, DictGrows, n \in Nat
  <2>4. QED
    BY <2>1, <2>2, <2>3
<1>3. Reading(Prefix(s, n + 1))
        = Put(Reading(Prefix(s, n)), s[n + 1].name, Props(s[n + 1].props))
  <2> DEFINE key(m) == [i \in 1 .. m |-> s[i].name]
             val(m) == [i \in 1 .. m |-> Props(s[i].props)]
  <2>1. /\ DOMAIN key(n + 1) = 1 .. n + 1 /\ DOMAIN key(n) = 1 .. n
        /\ \A i \in 1 .. n : key(n)[i] = key(n + 1)[i] /\ val(n)[i] = val(n + 1)[i]
        /\ key(n + 1)[n + 1] = s[n + 1].name
        /\ val(n + 1)[n + 1] = Props(s[n + 1].props)
    BY <1>1
  <2>2. Reading(Prefix(s, n + 1)) = DictOf(key(n + 1), val(n + 1))
        /\ Reading(Prefix(s, n)) = DictOf(key(n), val(n))
    BY <1>1, ReadingsAreDicts
  <2> HIDE DEF key, val
  <2>3. DictOf(key(n + 1), val(n + 1))
          = Put(DictOf(key(n), val(n)), key(n + 1)[n + 1], val(n + 1)[n + 1])
    BY ONLY <2>1, DictGrows, n \in Nat
  <2>4. QED
    BY <2>1, <2>2, <2>3
<1>4. QED
  BY <1>2, <1>3

\* Nothing read, and everything.
LEMMA Ends ==
    ASSUME NEW s, IsSequence(s)
    PROVE  /\ Len(s) \in Nat /\ DOMAIN s = 1 .. Len(s)
           /\ Prefix(s, Len(s)) = s
           /\ Reading(Prefix(s, 0)) = NoEntry /\ Props(Prefix(s, 0)) = NoEntry
<1>1. PICK V : s \in Seq(V)
  BY DEF IsSequence
<1>2. Len(s) \in Nat /\ DOMAIN s = 1 .. Len(s) /\ s = [i \in 1 .. Len(s) |-> s[i]]
  BY <1>1
<1>3. DOMAIN Prefix(s, 0) = {}
  BY DEF Prefix
<1>4. QED
  BY <1>2, <1>3 DEF Prefix, Reading, Props, NoEntry

\* The stack, opened and closed.
LEMMA Stack ==
    ASSUME NEW a, NEW b, NEW c
    PROVE  /\ Append(<<>>, a) = <<a>> /\ Append(<<a>>, b) = <<a, b>>
           /\ Append(<<a, b>>, c) = <<a, b, c>>
           /\ SubSeq(<<a>>, 1, 0) = <<>> /\ SubSeq(<<a, b>>, 1, 1) = <<a>>
           /\ Len(<<>>) = 0 /\ Len(<<a>>) = 1 /\ Len(<<a, b>>) = 2 /\ Len(<<a, b, c>>) = 3
           /\ <<a, b, c>>[2] = b /\ <<a, b, c>>[3] = c
           /\ <<a>> # <<>> /\ <<a, b>> # <<>> /\ <<a, b, c>> # <<>>
<1> DEFINE V == {a, b, c}
<1>1. <<>> \in Seq(V) /\ <<a>> \in Seq(V) /\ <<a, b>> \in Seq(V) /\ <<a, b, c>> \in Seq(V)
  OBVIOUS
<1>2. /\ Len(<<>>) = 0 /\ Len(<<a>>) = 1 /\ Len(<<a, b>>) = 2 /\ Len(<<a, b, c>>) = 3
      /\ <<a>>[1] = a /\ <<a, b>>[1] = a /\ <<a, b>>[2] = b
      /\ <<a, b, c>>[1] = a /\ <<a, b, c>>[2] = b /\ <<a, b, c>>[3] = c
  OBVIOUS
<1>3. Append(<<>>, a) = <<a>>
  <2> DEFINE s == Append(<<>>, a)
  <2>1. s \in Seq(V) /\ Len(s) = 1 /\ s[1] = a
    BY <1>1, <1>2, AppendProperties
  <2>2. \A i \in 1 .. 1 : i = 1
    OBVIOUS
  <2> HIDE DEF s
  <2>3. s = <<a>>
    BY <1>1, <1>2, <2>1, <2>2, SeqEqual
  <2>4. QED
    BY <2>3 DEF s
<1>4. Append(<<a>>, b) = <<a, b>>
  <2> DEFINE s == Append(<<a>>, b)
  <2>1. s \in Seq(V) /\ Len(s) = 2 /\ s[1] = a /\ s[2] = b
    BY <1>1, <1>2, AppendProperties
  <2>2. \A i \in 1 .. 2 : i = 1 \/ i = 2
    OBVIOUS
  <2> HIDE DEF s
  <2>3. s = <<a, b>>
    BY <1>1, <1>2, <2>1, <2>2, SeqEqual
  <2>4. QED
    BY <2>3 DEF s
<1>5. Append(<<a, b>>, c) = <<a, b, c>>
  <2> DEFINE s == Append(<<a, b>>, c)
  <2>1. s \in Seq(V) /\ Len(s) = 3 /\ s[1] = a /\ s[2] = b /\ s[3] = c
    BY <1>1, <1>2, AppendProperties
  <2>2. \A i \in 1 .. 3 : i = 1 \/ i = 2 \/ i = 3
    OBVIOUS
  <2> HIDE DEF s
  <2>3. s = <<a, b, c>>
    BY <1>1, <1>2, <2>1, <2>2, SeqEqual
  <2>4. QED
    BY <2>3 DEF s
<1>6. SubSeq(<<a>>, 1, 0) = <<>>
  OBVIOUS
<1>7. SubSeq(<<a, b>>, 1, 1) = <<a>>
  <2> DEFINE s == SubSeq(<<a, b>>, 1, 1)
  <2>1. s \in Seq(V) /\ Len(s) = 1 /\ s[1] = a
    BY <1>1, <1>2
  <2>2. \A i \in 1 .. 1 : i = 1
    OBVIOUS
  <2> HIDE DEF s
  <2>3. s = <<a>>
    BY <1>1, <1>2, <2>1, <2>2, SeqEqual
  <2>4. QED
    BY <2>3 DEF s
<1>8. <<a>> # <<>> /\ <<a, b>> # <<>> /\ <<a, b, c>> # <<>>
  OBVIOUS
<1>9. QED
  BY <1>2, <1>3, <1>4, <1>5, <1>6, <1>7, <1>8

\* The nodes of the tree are sequences, and so are their properties.
LEMMA Sequences ==
    ASSUME tree \in Trees
    PROVE  /\ Nodes(1) = tree.images /\ Nodes(2) = tree.configurations
           /\ Sections[1] = "images" /\ Sections[2] = "configurations"
           /\ \A sec \in 1 .. 2 :
                 /\ IsSequence(Nodes(sec)) /\ Len(Nodes(sec)) \in Nat
                 /\ \A i \in 1 .. Len(Nodes(sec)) :
                       /\ IsSequence(Nodes(sec)[i].props)
                       /\ Len(Nodes(sec)[i].props) \in Nat
<1>1. Nodes(1) = tree.images /\ Nodes(2) = tree.configurations
      /\ Sections[1] = "images" /\ Sections[2] = "configurations"
  BY DEF Nodes, Sections
<1>2. \A sec \in 1 .. 2 : Nodes(sec) \in {tree.images, tree.configurations}
  BY <1>1
<1>3. QED
  BY <1>1, <1>2, TreesAssumption, Ends

\* The header: three lines.
LEMMA HeaderLines ==
    /\ Len(Header) = 3
    /\ Header[1].kind = "skip" /\ Header[2].kind = "open" /\ Header[3].kind = "prop"
    /\ Header[2].name = "/"
BY DEF Header

\* What is filed stays filed while no node is closed.
LEMMA FiledStays ==
    ASSUME FiledInv, tree' = tree, UNCHANGED result,
           Closed(1)' = Closed(1), Closed(2)' = Closed(2)
    PROVE  FiledInv'
BY DEF FiledInv, result

\* The next line, from a place to the one after it.
LEMMA HeaderText ==
    ASSUME TextInv, TextNext, at.sec = 0
    PROVE  TextInv'
<1>1. /\ at.node = 0 /\ at.line \in 1 .. 3 /\ tree \in Trees
      /\ path = IF at.line = 3 THEN <<"/">> ELSE <<>>
      /\ at \in [sec : 0 .. 4, node : Nat, line : Nat]
  BY DEF TextInv, PlaceInv
<1>2. tree' = tree
  BY DEF TextNext, SkipLine, OpenNode, CloseNode, ReadProp
<1>3. Line = Header[at.line] /\ (LastLineHere <=> at.line = 3)
  <2>1. Line = Header[at.line]
    BY DEF Line
  <2>2. LastLineHere <=> at.line = 3
    BY HeaderLines DEF LastLineHere
  <2>3. QED
    BY <2>1, <2>2
<1>4. NextLine /\ UNCHANGED result
  BY <1>1, <1>3, HeaderLines DEF TextNext, SkipLine, OpenNode, CloseNode, ReadProp
<1>5. /\ at.line # 3 => at' = [sec |-> 0, node |-> 0, line |-> at.line + 1]
      /\ at.line = 3 => at' = [sec |-> 1, node |-> 0, line |-> 0]
  BY <1>1, <1>3, <1>4 DEF NextLine
<1>6. path' = IF at.line = 1 THEN <<>> ELSE <<"/">>
  BY <1>1, <1>3, HeaderLines, Stack DEF TextNext, SkipLine, OpenNode, CloseNode, ReadProp
<1>7. PlaceInv'
  <2>1. /\ at' \in [sec : 0 .. 4, node : Nat, line : Nat] /\ at'.node = 0
        /\ \/ at'.sec = 0 /\ at'.line \in 2 .. 3 /\ at.line = at'.line - 1
           \/ at'.sec = 1 /\ at'.line = 0 /\ at.line = 3
    BY <1>1, <1>5
  <2>2. \A sec \in 1 .. 2 : Len(Nodes(sec)') \in Nat
    BY <1>1, <1>2, Sequences DEF Nodes
  <2>3. QED
    BY <1>1, <1>2, <1>6, <2>1, <2>2 DEF PlaceInv, AtEnd
<1>8. OpenInv'
  BY <1>1, <1>5 DEF OpenInv
<1>9. Closed(1)' = Closed(1) /\ Closed(2)' = Closed(2)
  BY <1>1, <1>5 DEF Closed
<1>10. QED
  BY <1>2, <1>4, <1>7, <1>8, <1>9, FiledStays DEF TextInv

\* The brace that opens a section, and the one that closes it.
LEMMA BraceText ==
    ASSUME TextInv, TextNext, at.sec \in 1 .. 2, at.node \notin 1 .. Len(Nodes(at.sec))
    PROVE  TextInv'
<1> DEFINE last == Len(Nodes(at.sec))
<1>1. /\ at.node \in 0 .. last + 1 /\ at.line = 0 /\ tree \in Trees
      /\ path = IF at.node = 0 THEN <<"/">> ELSE <<"/", Sections[at.sec]>>
      /\ at \in [sec : 0 .. 4, node : Nat, line : Nat] /\ last \in Nat
      /\ at.node = 0 \/ at.node = last + 1
  <2>1. last \in Nat /\ tree \in Trees
    BY Sequences DEF TextInv, PlaceInv
  <2>2. QED
    BY <2>1 DEF TextInv, PlaceInv
<1>2. tree' = tree
  BY DEF TextNext, SkipLine, OpenNode, CloseNode, ReadProp
<1>3. Line = (IF at.node = 0 THEN Open(Sections[at.sec]) ELSE Close) /\ LastLineHere
  BY <1>1 DEF Line, LastLineHere
<1>4. Line.kind = (IF at.node = 0 THEN "open" ELSE "close")
      /\ (at.node = 0 => Line.name = Sections[at.sec])
  BY <1>3 DEF Open, Close
<1>5. NextLine /\ UNCHANGED result
  BY <1>1, <1>4, Stack DEF TextNext, SkipLine, OpenNode, CloseNode, ReadProp, result
<1>6. /\ at.node = 0 => at' = [sec |-> at.sec, node |-> 1, line |-> 0]
      /\ at.node # 0 => at' = [sec |-> at.sec + 1, node |-> 0, line |-> 0]
  <2>1. at' = IF at.node <= last THEN [sec |-> at.sec, node |-> at.node + 1, line |-> 0]
              ELSE [sec |-> at.sec + 1, node |-> 0, line |-> 0]
    BY <1>3, <1>5 DEF NextLine
  <2>2. (at.node <= last <=> at.node = 0) /\ 0 + 1 = 1
    BY <1>1
  <2>3. QED
    BY <2>1, <2>2
<1>7. path' = IF at.node = 0 THEN <<"/", Sections[at.sec]>> ELSE <<"/">>
  BY <1>1, <1>4, Stack DEF TextNext, SkipLine, OpenNode, CloseNode, ReadProp
<1>8. \A sec \in 1 .. 2 : Len(Nodes(sec)') \in Nat /\ Nodes(sec)' = Nodes(sec)
  BY <1>1, <1>2, Sequences DEF Nodes
<1>9. PlaceInv'
  <2>1. /\ at' \in [sec : 0 .. 4, node : Nat, line : Nat] /\ at'.line = 0
        /\ \/ at.node = 0 /\ at'.sec = at.sec /\ at'.node = 1
           \/ at.node # 0 /\ at'.sec = at.sec + 1 /\ at'.node = 0
    BY <1>1, <1>6
  <2>2. QED
    BY <1>1, <1>2, <1>7, <1>8, <2>1 DEF PlaceInv, AtEnd
<1>10. OpenInv'
  BY <1>6 DEF OpenInv
<1>11. Closed(1)' = Closed(1) /\ Closed(2)' = Closed(2)
  BY <1>1, <1>6, <1>8 DEF Closed
<1>12. QED
  BY <1>2, <1>5, <1>9, <1>10, <1>11, FiledStays DEF TextInv

\* The brace that opens a node, and its properties.
LEMMA NodeText ==
    ASSUME TextInv, TextNext, at.sec \in 1 .. 2, at.node \in 1 .. Len(Nodes(at.sec)),
           at.line <= Len(AtNode.props)
    PROVE  TextInv'
<1> DEFINE own == AtNode.props
<1>1. /\ at.line \in 0 .. Len(own) /\ tree \in Trees /\ Len(own) \in Nat
      /\ path = IF at.line = 0 THEN <<"/", Sections[at.sec]>>
                ELSE <<"/", Sections[at.sec], AtNode.name>>
      /\ at \in [sec : 0 .. 4, node : Nat, line : Nat]
      /\ IsSequence(own) /\ Len(Nodes(at.sec)) \in Nat
  <2>1. tree \in Trees
    BY DEF TextInv, PlaceInv
  <2>2. Len(own) \in Nat /\ IsSequence(own) /\ Len(Nodes(at.sec)) \in Nat
    BY <2>1, Sequences DEF AtNode
  <2>3. QED
    BY <2>1, <2>2 DEF TextInv, PlaceInv
<1>2. tree' = tree
  BY DEF TextNext, SkipLine, OpenNode, CloseNode, ReadProp
<1>3. Line = (IF at.line = 0 THEN Open(AtNode.name)
              ELSE [kind |-> "prop", key |-> own[at.line].key,
                    text |-> Written(own[at.line].val)])
      /\ ~LastLineHere
  BY <1>1 DEF Line, LastLineHere
<1>4. /\ Line.kind = IF at.line = 0 THEN "open" ELSE "prop"
      /\ at.line = 0 => Line.name = AtNode.name
      /\ at.line # 0 => Line.key = own[at.line].key /\ Line.text = Written(own[at.line].val)
  BY <1>3 DEF Open
<1>5. NextLine /\ UNCHANGED result
  BY <1>4 DEF TextNext, SkipLine, OpenNode, CloseNode, ReadProp
<1>6. at' = [sec |-> at.sec, node |-> at.node, line |-> at.line + 1]
  BY <1>1, <1>3, <1>5 DEF NextLine
<1>7. path' = <<"/", Sections[at.sec], AtNode.name>>
  BY <1>1, <1>4, Stack DEF TextNext, SkipLine, OpenNode, CloseNode, ReadProp
<1>8. /\ \A sec \in 1 .. 2 : Len(Nodes(sec)') \in Nat /\ Nodes(sec)' = Nodes(sec)
      /\ AtNode' = AtNode
  <2>1. \A sec \in 1 .. 2 : Len(Nodes(sec)') \in Nat /\ Nodes(sec)' = Nodes(sec)
    BY <1>1, <1>2, Sequences DEF Nodes
  <2>2. QED
    BY <1>6, <2>1 DEF AtNode
<1>9. PlaceInv'
  <2>1. /\ at' \in [sec : 0 .. 4, node : Nat, line : Nat]
        /\ at'.sec = at.sec /\ at'.node = at.node /\ at'.line = at.line + 1
    BY <1>1, <1>6
  <2>2. QED
    BY <1>1, <1>2, <1>7, <1>8, <2>1 DEF PlaceInv, AtEnd
<1>10. OpenInv'
  <2>1. at'.sec = at.sec /\ at'.line = at.line + 1 /\ at'.line - 1 = at.line
    BY <1>1, <1>6
  <2>2. CASE at.line = 0
    <3>1. props' = NoEntry
      <4>1. Len(<<"/", Sections[at.sec], AtNode.name>>) >= 3
        OBVIOUS
      <4>2. QED
        BY <1>4, <1>7, <2>2, <4>1 DEF TextNext, SkipLine, OpenNode, CloseNode, ReadProp
    <3>2. Props(Prefix(own, 0)) = NoEntry
      BY <1>1, Ends
    <3>3. QED
      BY <1>8, <2>1, <2>2, <3>1, <3>2 DEF OpenInv, Prefix
  <2>3. CASE at.line # 0
    <3> DEFINE n == at.line - 1
    <3>1. props = Props(Prefix(own, n)) /\ n \in Nat /\ n + 1 = at.line
      BY <1>1, <2>3 DEF TextInv, OpenInv
    <3>2. props' = Put(props, own[at.line].key, Reread(Written(own[at.line].val)))
      <4>1. Len(path) >= 3
        BY <1>1, <2>3, Stack
      <4>2. QED
        BY <1>4, <2>3, <4>1 DEF TextNext, SkipLine, OpenNode, CloseNode, ReadProp
    <3>3. Props(Prefix(own, n + 1))
            = Put(Props(Prefix(own, n)), own[n + 1].key, Reread(Written(own[n + 1].val)))
      BY <3>1, ReadingsGrow
    <3>4. props' = Props(Prefix(own, at.line))
      BY <3>1, <3>2, <3>3
    <3>5. QED
      BY <1>8, <2>1, <3>4 DEF OpenInv, Prefix
  <2>4. QED
    BY <2>2, <2>3
<1>11. Closed(1)' = Closed(1) /\ Closed(2)' = Closed(2)
  BY <1>1, <1>6, <1>8 DEF Closed
<1>12. QED
  BY <1>2, <1>5, <1>9, <1>10, <1>11, FiledStays DEF TextInv

\* The brace that closes a node: it is filed with its own properties.
LEMMA CloseText ==
    ASSUME TextInv, TextNext, at.sec \in 1 .. 2, at.node \in 1 .. Len(Nodes(at.sec)),
           ~(at.line <= Len(AtNode.props))
    PROVE  TextInv'
<1> DEFINE own == AtNode.props
           n == at.node - 1
<1>1. /\ at.line = Len(own) + 1 /\ tree \in Trees /\ Len(own) \in Nat
      /\ path = <<"/", Sections[at.sec], AtNode.name>>
      /\ at \in [sec : 0 .. 4, node : Nat, line : Nat]
      /\ IsSequence(own) /\ Len(Nodes(at.sec)) \in Nat
      /\ n \in Nat /\ n + 1 = at.node
  <2>1. tree \in Trees
    BY DEF TextInv, PlaceInv
  <2>2. Len(own) \in Nat /\ IsSequence(own) /\ Len(Nodes(at.sec)) \in Nat
    BY <2>1, Sequences DEF AtNode
  <2>3. QED
    BY <2>1, <2>2 DEF TextInv, PlaceInv
<1>2. tree' = tree
  BY DEF TextNext, SkipLine, OpenNode, CloseNode, ReadProp
<1>3. Line = Close /\ LastLineHere
  BY <1>1 DEF Line, LastLineHere
<1>4. NextLine /\ CloseNode
  BY <1>3 DEF TextNext, SkipLine, OpenNode, CloseNode, ReadProp, Close
<1>5. at' = [sec |-> at.sec, node |-> at.node + 1, line |-> 0]
  <2>1. at.node <= Len(Nodes(at.sec))
    BY <1>1
  <2>2. QED
    BY <1>3, <1>4, <2>1 DEF NextLine
<1>6. path' = <<"/", Sections[at.sec]>>
  <2>1. Len(path) = 3 /\ path # <<>> /\ 3 - 1 = 2
    BY <1>1, Stack
  <2>2. path' = SubSeq(path, 1, 2)
    BY <1>4, <2>1 DEF CloseNode
  <2>3. path = <<"/", Sections[at.sec], AtNode.name>>
    BY <1>1
  <2> DEFINE V == {"/", Sections[at.sec], AtNode.name}
             up == <<"/", Sections[at.sec]>>
  <2>4. path' \in Seq(V) /\ Len(path') = 2 /\ path'[1] = "/" /\ path'[2] = Sections[at.sec]
    BY ONLY <2>2, <2>3 DEF V
  <2>5. up \in Seq(V) /\ Len(up) = 2 /\ up[1] = "/" /\ up[2] = Sections[at.sec]
    OBVIOUS
  <2>6. \A i \in 1 .. 2 : i = 1 \/ i = 2
    OBVIOUS
  <2> HIDE DEF V, up
  <2>7. path' = up
    BY ONLY <2>4, <2>5, <2>6, SeqEqual
  <2>8. QED
    BY <2>7 DEF up
<1>7. \A sec \in 1 .. 2 : Len(Nodes(sec)') \in Nat /\ Nodes(sec)' = Nodes(sec)
  BY <1>1, <1>2, Sequences DEF Nodes
<1>8. PlaceInv'
  <2>1. /\ at' \in [sec : 0 .. 4, node : Nat, line : Nat]
        /\ at'.sec = at.sec /\ at'.node = at.node + 1 /\ at'.line = 0
    BY <1>1, <1>5
  <2>2. /\ at'.sec \in 1 .. 2 /\ ~AtEnd' /\ Nodes(at.sec)' = Nodes(at.sec)
        /\ at'.node \in 1 .. Len(Nodes(at.sec)) + 1
    <3>1. at'.sec \in 1 .. 2 /\ ~AtEnd' /\ at'.node \in 1 .. Len(Nodes(at.sec)) + 1
      BY <1>1, <2>1 DEF AtEnd
    <3>2. Nodes(at.sec)' = tree'[Sections[at.sec]]
      BY <2>1 DEF Nodes
    <3>3. QED
      BY <1>2, <3>1, <3>2 DEF Nodes
  <2>3. at'.node \in 1 .. Len(Nodes(at.sec)) => at'.line \in 0 .. Len(AtNode.props)' + 1
    <3> SUFFICES ASSUME at'.node \in 1 .. Len(Nodes(at.sec)) PROVE Len(AtNode.props)' \in Nat
      BY <2>1
    <3>1. AtNode' = Nodes(at.sec)[at.node + 1] /\ at.node + 1 \in DOMAIN Nodes(at.sec)
      BY <1>1, <2>1, <2>2, Sequences DEF AtNode
    <3>2. QED
      BY <1>1, <3>1, Sequences
  <2>4. QED
    BY <1>1, <1>2, <1>6, <2>1, <2>2, <2>3 DEF PlaceInv
<1>9. OpenInv'
  BY <1>5 DEF OpenInv
<1>10. FiledInv'
  <2>1. Len(path) = 3 /\ path[2] = Sections[at.sec] /\ path[3] = AtNode.name
    BY <1>1, Stack
  <2>2. props = Props(own)
    <3>1. at.line > 0 /\ at.line - 1 = Len(own)
      BY <1>1
    <3>2. Prefix(own, Len(own)) = own
      BY <1>1, Ends
    <3>3. QED
      BY <3>1, <3>2 DEF TextInv, OpenInv
  <2>3. /\ images = Reading(Prefix(tree.images, Closed(1)))
        /\ configurations = Reading(Prefix(tree.configurations, Closed(2)))
    BY DEF TextInv, FiledInv
  <2>4. Reading(Prefix(Nodes(at.sec), n + 1))
          = Put(Reading(Prefix(Nodes(at.sec), n)), AtNode.name, Props(own))
    BY <1>1, ReadingsGrow DEF AtNode
  <2>5. CASE at.sec = 1
    <3>1. Sections[at.sec] = "images" /\ Nodes(at.sec) = tree.images
      BY <1>1, <2>5, Sequences
    <3>2. Closed(1) = n /\ Closed(1)' = n + 1 /\ Closed(2) = 0 /\ Closed(2)' = 0
      BY <1>1, <1>5, <2>5 DEF Closed
    <3>3. /\ images' = Put(images, AtNode.name, props)
          /\ configurations' = configurations
      BY <1>4, <2>1, <3>1 DEF CloseNode
    <3>4. images' = Reading(Prefix(tree.images, n + 1))
      BY <2>2, <2>3, <2>4, <3>1, <3>2, <3>3
    <3>5. QED
      BY <1>2, <2>3, <3>2, <3>3, <3>4 DEF FiledInv
  <2>6. CASE at.sec = 2
    <3>1. Sections[at.sec] = "configurations" /\ Nodes(at.sec) = tree.configurations
      BY <1>1, <2>6, Sequences
    <3>2. Closed(2) = n /\ Closed(2)' = n + 1 /\ Closed(1)' = Closed(1)
      BY <1>1, <1>5, <1>7, <2>6 DEF Closed
    <3>3. /\ configurations' = Put(configurations, AtNode.name, props)
          /\ images' = images
      BY <1>4, <2>1, <3>1 DEF CloseNode
    <3>4. configurations' = Reading(Prefix(tree.configurations, n + 1))
      BY <2>2, <2>3, <2>4, <3>1, <3>2, <3>3
    <3>5. QED
      BY <1>2, <2>3, <3>2, <3>3, <3>4 DEF FiledInv
  <2>7. QED
    BY <2>5, <2>6
<1>11. QED
  BY <1>8, <1>9, <1>10 DEF TextInv

\* The last brace.
LEMMA LastText ==
    ASSUME TextInv, TextNext, at.sec = 3
    PROVE  TextInv'
<1>1. /\ path = <<"/">> /\ tree \in Trees
      /\ at \in [sec : 0 .. 4, node : Nat, line : Nat]
  BY DEF TextInv, PlaceInv
<1>2. tree' = tree
  BY DEF TextNext, SkipLine, OpenNode, CloseNode, ReadProp
<1>3. Line = Close /\ LastLineHere
  BY DEF Line, LastLineHere
<1>4. NextLine /\ CloseNode
  BY <1>3 DEF TextNext, SkipLine, OpenNode, CloseNode, ReadProp, Close
<1>5. at' = [sec |-> 4, node |-> 0, line |-> 0]
  BY <1>1, <1>3, <1>4 DEF NextLine
<1>6. path' = <<>> /\ UNCHANGED result
  BY <1>1, <1>4, Stack DEF CloseNode, result
<1>7. \A sec \in 1 .. 2 : Nodes(sec)' = Nodes(sec)
  BY <1>2 DEF Nodes
<1>8. PlaceInv' /\ OpenInv'
  BY <1>1, <1>2, <1>5, <1>6 DEF PlaceInv, OpenInv, AtEnd
<1>9. Closed(1)' = Closed(1) /\ Closed(2)' = Closed(2)
  BY <1>5, <1>7 DEF Closed
<1>10. QED
  BY <1>2, <1>6, <1>8, <1>9, FiledStays DEF TextInv

LEMMA NextText == ASSUME TextInv, [TextNext]_textVars PROVE TextInv'
<1>1. CASE UNCHANGED textVars
  BY <1>1 DEF textVars, file, result, TextInv, PlaceInv, OpenInv, FiledInv, Closed, Nodes,
              AtNode, AtEnd
<1>2. CASE TextNext
  <2>1. at.sec \in 0 .. 3
    BY <1>2 DEF TextInv, PlaceInv, TextNext, SkipLine, OpenNode, CloseNode, ReadProp, AtEnd
  <2>2. QED
    BY <1>2, <2>1, HeaderText, BraceText, NodeText, CloseText, LastText
<1>3. QED
  BY <1>1, <1>2

LEMMA InitText == ASSUME TextInit PROVE TextInv
<1>1. /\ tree \in Trees /\ at = [sec |-> 0, node |-> 0, line |-> 1] /\ path = <<>>
      /\ images = NoEntry /\ configurations = NoEntry
  BY DEF TextInit
<1>2. PlaceInv /\ OpenInv
  BY <1>1 DEF PlaceInv, OpenInv, AtEnd
<1>3. Closed(1) = 0 /\ Closed(2) = 0
  BY <1>1 DEF Closed
<1>4. IsSequence(tree.images) /\ IsSequence(tree.configurations)
  BY <1>1, TreesAssumption
<1>5. FiledInv
  BY <1>1, <1>3, <1>4, Ends DEF FiledInv
<1>6. QED
  BY <1>2, <1>5 DEF TextInv

LEMMA EndText == ASSUME TextInv PROVE ParsedIsTree
<1>1. SUFFICES ASSUME AtEnd
               PROVE  /\ images = Reading(tree.images)
                      /\ configurations = Reading(tree.configurations)
  BY DEF ParsedIsTree
<1>2. tree \in Trees /\ at.sec = 4
  BY <1>1 DEF TextInv, PlaceInv, AtEnd
<1>3. Closed(1) = Len(tree.images) /\ Closed(2) = Len(tree.configurations)
  BY <1>2, Sequences DEF Closed
<1>4. /\ Prefix(tree.images, Len(tree.images)) = tree.images
      /\ Prefix(tree.configurations, Len(tree.configurations)) = tree.configurations
  BY <1>2, TreesAssumption, Ends
<1>5. QED
  BY <1>3, <1>4 DEF TextInv, FiledInv

\* Whatever tree was written, _parse_its_file reads it back: every node of both sections
\* with its own properties, and of two nodes with one name the later.
THEOREM ParserReadsTheTree == TextSpec => []ParsedIsTree
<1>1. TextInit => TextInv
  BY InitText
<1>2. TextInv /\ [TextNext]_textVars => TextInv'
  BY NextText
<1>3. TextInv => ParsedIsTree
  BY EndText
<1>4. QED
  BY <1>1, <1>2, <1>3, PTL DEF TextSpec

\* What the parser keeps of a property is one of three kinds.
KindsInv == \A k \in DOMAIN props : props[k].type \in {"str", "list", "raw"}

LEMMA NextKinds == ASSUME KindsInv, [TextNext]_textVars PROVE KindsInv'
<1>1. \A text : Reread(text).type \in {"str", "list", "raw"}
  BY DEF Reread, Raw, List, Str
<1>2. CASE SkipLine \/ CloseNode \/ UNCHANGED textVars
  BY <1>2 DEF SkipLine, CloseNode, textVars, KindsInv
<1>3. CASE OpenNode
  BY <1>3 DEF OpenNode, NoEntry, KindsInv
<1>4. CASE ReadProp
  <2>1. CASE Len(path) >= 3
    <3>1. props' = Put(props, Line.key, Reread(Line.text))
      BY <1>4, <2>1 DEF ReadProp
    <3>2. QED
      BY <1>1, <3>1 DEF Put, KindsInv
  <2>2. CASE ~(Len(path) >= 3)
    BY <1>4, <2>2 DEF ReadProp, KindsInv
  <2>3. QED
    BY <2>1, <2>2
<1>5. QED
  BY <1>2, <1>3, <1>4 DEF TextNext

\* Where the parser is decides how deep its stack is.
LEMMA TextTypes == ASSUME TextInv, KindsInv PROVE TextTypeOK
<1>1. /\ tree \in Trees /\ at \in [sec : 0 .. 4, node : Nat, line : Nat]
      /\ AtEnd => path = <<>>
  BY DEF TextInv, PlaceInv
<1>2. Len(path) <= 3
  <2>1. at.sec = 0 \/ at.sec \in 1 .. 2 \/ at.sec = 3 \/ AtEnd
    BY <1>1 DEF AtEnd
  <2>2. path \in {<<>>, <<"/">>, <<"/", Sections[at.sec]>>, <<"/", Sections[at.sec], AtNode.name>>}
    BY <2>1 DEF TextInv, PlaceInv
  <2>3. \A x, y : /\ Len(<<>>) = 0 /\ Len(<<"/">>) = 1
                  /\ Len(<<"/", x>>) = 2 /\ Len(<<"/", x, y>>) = 3
    OBVIOUS
  <2>4. Len(path) \in {0, 1, 2, 3}
    BY ONLY <2>2, <2>3
  <2>5. \A n \in {0, 1, 2, 3} : n <= 3
    OBVIOUS
  <2>6. QED
    BY <2>4, <2>5
<1>3. QED
  BY <1>1, <1>2 DEF TextTypeOK, KindsInv

-----------------------------------------------------------------------------
(* KernelMatrix.                                                           *)

\* The kernels a test needs the outputs of: linux-yocto and the qcom ones.
NeededIn(S) == {KERNEL_PROVIDER_YOCTO} \cup (S \cap QcomProviders)

\* The qcom kernels of S, none forgotten and none made up.
LEMMA QcomOf ==
    ASSUME NEW S
    PROVE  /\ QcomIn(S) \in Seq(QcomProviders)
           /\ \A p \in S \cap QcomProviders :
                  \E i \in 1 .. Len(QcomIn(S)) : QcomIn(S)[i] = p
           /\ \A i \in 1 .. Len(QcomIn(S)) : QcomIn(S)[i] \in S \cap QcomProviders
           /\ QcomIn(S) # <<>> => QcomIn(S)[1] \in S \cap QcomProviders
           /\ QcomIn(S) = <<>> <=> S \cap QcomProviders = {}
<1> DEFINE a == "linux-qcom-next"
           b == "linux-qcom"
<1>1. QcomProviders = {a, b}
  <2>1. DOMAIN KERNEL_PROVIDERS_QCOM = {1, 2}
    BY DEF KERNEL_PROVIDERS_QCOM
  <2>2. QED
    BY <2>1 DEF QcomProviders, KERNEL_PROVIDERS_QCOM
<1>2. QcomIn(S) = (IF a \in S THEN <<a>> ELSE <<>>) \o (IF b \in S THEN <<b>> ELSE <<>>)
  BY DEF QcomIn, KERNEL_PROVIDERS_QCOM
<1>3. CASE a \in S /\ b \in S
  <2> DEFINE both == <<a>> \o <<b>>
  <2>1. QcomIn(S) = both
    BY <1>2, <1>3
  <2>2. <<a>> \in Seq({a, b}) /\ <<b>> \in Seq({a, b}) /\ Len(<<a>>) = 1 /\ Len(<<b>>) = 1
    OBVIOUS
  <2>3. both \in Seq({a, b}) /\ Len(both) = 2 /\ both[1] = a /\ both[2] = b
    BY ONLY <2>2
  <2>4. 1 .. 2 = {1, 2} /\ both # <<>>
    BY <2>3
  <2>5. S \cap QcomProviders = {a, b}
    BY <1>1, <1>3
  <2> HIDE DEF both
  <2>6. QED
    BY <1>1, <2>1, <2>3, <2>4, <2>5
<1>4. ASSUME NEW p \in {a, b}, S \cap {a, b} = {p}, QcomIn(S) = <<p>>
      PROVE  /\ QcomIn(S) \in Seq(QcomProviders)
             /\ \A q \in S \cap QcomProviders :
                    \E i \in 1 .. Len(QcomIn(S)) : QcomIn(S)[i] = q
             /\ \A i \in 1 .. Len(QcomIn(S)) : QcomIn(S)[i] \in S \cap QcomProviders
             /\ QcomIn(S) # <<>> => QcomIn(S)[1] \in S \cap QcomProviders
             /\ QcomIn(S) = <<>> <=> S \cap QcomProviders = {}
  <2>1. Len(<<p>>) = 1 /\ <<p>>[1] = p /\ <<p>> \in Seq({a, b}) /\ <<p>> # <<>>
    OBVIOUS
  <2>2. 1 .. 1 = {1}
    OBVIOUS
  <2>3. QED
    BY <1>1, <1>4, <2>1, <2>2
<1>5. CASE a \in S /\ b \notin S
  <2>1. QcomIn(S) = <<a>> /\ S \cap {a, b} = {a}
    BY <1>2, <1>5
  <2>2. QED
    BY <1>4, <2>1
<1>6. CASE a \notin S /\ b \in S
  <2>1. QcomIn(S) = <<b>> /\ S \cap {a, b} = {b}
    BY <1>2, <1>6
  <2>2. QED
    BY <1>4, <2>1
<1>7. CASE a \notin S /\ b \notin S
  <2>1. QcomIn(S) = <<>> /\ S \cap QcomProviders = {}
    BY <1>1, <1>2, <1>7
  <2>2. Len(<<>>) = 0 /\ <<>> \in Seq({a, b}) /\ 1 .. 0 = {}
    OBVIOUS
  <2>3. QED
    BY <1>1, <2>1, <2>2
<1>8. QED
  BY <1>3, <1>5, <1>6, <1>7

\* There are finitely many machines and kernels, so calls can be counted.
LEMMA FiniteCalls ==
    /\ IsFiniteSet(MachineSet)
    /\ IsFiniteSet(Providers)
    /\ \A l \in Layers : IsFiniteSet(l.recipes)
<1>1. Machines \in Seq(MachineSet) /\ DOMAIN Machines = 1 .. Len(Machines)
  BY MachinesAssumption
<1>2. IsFiniteSet(DOMAIN Machines)
  BY <1>1, FS_Interval
<1>3. Machines \in Surjection(DOMAIN Machines, MachineSet)
  BY <1>1 DEF MachineSet, Surjection
<1>4. IsFiniteSet(MachineSet)
  BY <1>2, <1>3, FS_Surjection
<1>5. IsFiniteSet(Providers)
  <2>1. Providers = {"linux-qcom-next", "linux-qcom", "linux-yocto"}
    <3>1. DOMAIN KERNEL_PROVIDERS_QCOM = {1, 2}
      BY DEF KERNEL_PROVIDERS_QCOM
    <3>2. QED
      BY <3>1 DEF Providers, QcomProviders, KERNEL_PROVIDERS_QCOM, KERNEL_PROVIDER_YOCTO
  <2>2. IsFiniteSet({}) /\ IsFiniteSet({"linux-yocto"})
    BY FS_EmptySet, FS_Singleton
  <2>3. IsFiniteSet({"linux-yocto"} \cup {"linux-qcom"})
    BY <2>2, FS_AddElement
  <2>4. IsFiniteSet(({"linux-yocto"} \cup {"linux-qcom"}) \cup {"linux-qcom-next"})
    BY <2>3, FS_AddElement
  <2>5. Providers = ({"linux-yocto"} \cup {"linux-qcom"}) \cup {"linux-qcom-next"}
    BY <2>1
  <2>6. QED
    BY <2>4, <2>5
<1>6. QED
  BY <1>4, <1>5, LayersAssumption, FS_Subset

\* A call that fails is counted.
LEMMA Failing ==
    ASSUME NEW lost, IsFiniteSet(lost), faults \in Nat, Fail(lost)
    PROVE  faults' \in Nat /\ (faults' = 0 => faults = 0 /\ lost = {})
<1>1. Cardinality(lost) \in Nat /\ (Cardinality(lost) = 0 <=> lost = {})
  BY FS_CardinalityType, FS_EmptySet
<1>2. QED
  BY <1>1 DEF Fail

-----------------------------------------------------------------------------
\* What the test of the machines finds nothing wrong with: a kernel the machine can
\* be built with, as PassSound has it, or the very one the test takes when no call
\* fails, as MachinesFine has it.
Buildable(m) ==
    \E q \in QcomProviders \cap layer.recipes :
        /\ Supports(m, q)
        /\ layer.extra[m] \subseteq DtFiles(m, q)
        /\ DtFiles(m, q) \subseteq layer.source[q]

Best(m) == QcomIn({p \in layer.recipes : Supports(m, p)})

BestFine(m) ==
    /\ Best(m) # <<>>
    /\ layer.extra[m] \subseteq DtFiles(m, Best(m)[1])
    /\ DtFiles(m, Best(m)[1]) \subseteq layer.source[Best(m)[1]]
    /\ Supports(m, KERNEL_PROVIDER_YOCTO) =>
          \A f \in DtFiles(m, KERNEL_PROVIDER_YOCTO) \ layer.extra[m] :
              f \in layer.source[KERNEL_PROVIDER_YOCTO] => f \in DtFiles(m, Best(m)[1])

MatrixTypes ==
    /\ layer \in Layers
    /\ stage \in {"idle", "probe", "fetch", "machines"}
    /\ stage # "idle" => matrixTest \in SourceTests
    /\ verdict \in [MatrixTests -> {"none", "pass", "fail"}]
    /\ stage # "idle" => verdict[matrixTest] = "none"
    /\ faults \in Nat /\ need \in Seq(Providers) /\ errors \in BOOLEAN

\* What the caches hold is so, and as long as no call has failed it is all there is.
CacheInv ==
    /\ available \subseteq layer.recipes
    /\ \A p \in DOMAIN machineOf :
          machineOf[p] # "None" => machineOf[p] \in MachineSet /\ Supports(machineOf[p], p)
    /\ \A p \in DOMAIN outputs :
          /\ outputs[p] = layer.source[p]
          /\ p \in DOMAIN machineOf /\ machineOf[p] # "None"
    /\ faults = 0 =>
          /\ probed => available = layer.recipes
          /\ \A p \in DOMAIN machineOf : machineOf[p] = "None" =>
                \A m \in MachineSet : ~Supports(m, p)

\* A test has the outputs of all kernels it needs, or has still to ask for them.
NeedInv ==
    /\ stage \in {"fetch", "machines"} =>
          /\ probed /\ available \cap QcomProviders # {}
          /\ \A i \in 1 .. Len(need) : need[i] \in NeededIn(available)
          /\ \A p \in NeededIn(available) :
                p \in DOMAIN outputs \/ \E i \in 1 .. Len(need) : need[i] = p
    /\ stage = "machines" => need = <<>> /\ matrixTest = "machine_dtb_entries"

\* The machines before the one at hand have been found fine, or an error is noted.
LoopInv ==
    /\ stage \in {"probe", "fetch"} => ~errors
    /\ stage = "machines" =>
          /\ mi \in 1 .. Len(Machines) + 1
          /\ ~errors => \A i \in 1 .. mi - 1 : Buildable(Machines[i])
          /\ faults = 0 =>
                /\ errors => ~MachinesFine
                /\ ~errors => \A i \in 1 .. mi - 1 : BestFine(Machines[i])

\* What each test has found out by passing.
FoundInv ==
    /\ Passed("machine_dtb_entries") => \A m \in MachineSet : Buildable(m)
    /\ Passed("no_duplicate_keys") => NoDuplicates(layer.baseInc) /\ NoDuplicates(layer.qcomInc)
    /\ Passed("compatible_combos") =>
          /\ CombosExist(UNION {layer.source[p] : p \in Providers}, CompatMap(layer.baseInc))
          /\ CombosExist(UNION {layer.source[p] : p \in QcomProviders}, CompatMap(layer.qcomInc))

MatrixInv ==
    MatrixTypes /\ CacheInv /\ NeedInv /\ LoopInv /\ FoundInv /\ OrderIrrelevant

-----------------------------------------------------------------------------
\* The layer under test does not change, nor does what is said of it.
LEMMA SameLayer ==
    ASSUME layer' = layer
    PROVE  /\ \A m : Buildable(m)' <=> Buildable(m)
           /\ \A m : BestFine(m)' <=> BestFine(m)
           /\ MachinesFine' <=> MachinesFine
           /\ \A m, p : Supports(m, p)' <=> Supports(m, p)
<1>1. \A m, p : Supports(m, p)' <=> Supports(m, p)
  BY DEF Supports
<1>2. \A m, p : DtFiles(m, p)' = DtFiles(m, p)
  BY DEF DtFiles
<1>3. \A m : Buildable(m)' <=> Buildable(m)
  BY <1>1, <1>2 DEF Buildable
<1>4. \A m : Best(m)' = Best(m)
  BY DEF Best, Supports
<1>5. \A m : BestFine(m)' <=> BestFine(m)
  BY <1>1, <1>2, <1>4 DEF BestFine
<1>6. MachinesFine' <=> MachinesFine
  BY DEF MachinesFine, Supports, DtFiles
<1>7. QED
  BY <1>1, <1>3, <1>5, <1>6

\* The layer as the test of the machines sees it.
LEMMA FineMachines ==
    MachinesFine <=> /\ \A p \in NeededIn(layer.recipes) : \E m \in MachineSet : Supports(m, p)
                     /\ \A m \in MachineSet : BestFine(m)
<1>1. NeededIn(layer.recipes) = {KERNEL_PROVIDER_YOCTO} \cup (QcomProviders \cap layer.recipes)
  BY DEF NeededIn
<1>2. QED
  BY <1>1 DEF MachinesFine, BestFine, Best

\* What was found out stays so, as long as no further test passes.
LEMMA FoundStays ==
    ASSUME FoundInv, layer' = layer,
           \A t \in MatrixTests : verdict'[t] = "pass" => verdict[t] = "pass"
    PROVE  FoundInv'
<1>1. {"machine_dtb_entries", "no_duplicate_keys", "compatible_combos"} \subseteq MatrixTests
  BY DEF MatrixTests, SourceTests, KeyTests
<1>2. /\ CombosExist(UNION {layer.source[p] : p \in Providers}, CompatMap(layer.baseInc))'
            <=> CombosExist(UNION {layer.source[p] : p \in Providers}, CompatMap(layer.baseInc))
      /\ CombosExist(UNION {layer.source[p] : p \in QcomProviders}, CompatMap(layer.qcomInc))'
            <=> CombosExist(UNION {layer.source[p] : p \in QcomProviders}, CompatMap(layer.qcomInc))
  BY DEF CombosExist, CompatMap, ComboExists, HasDtOutput
<1>3. /\ NoDuplicates(layer.baseInc)' <=> NoDuplicates(layer.baseInc)
      /\ NoDuplicates(layer.qcomInc)' <=> NoDuplicates(layer.qcomInc)
  BY DEF NoDuplicates
<1>4. QED
  BY <1>1, <1>2, <1>3, SameLayer DEF FoundInv, Passed

\* The outcome of the test of the machines stays right, as long as it stays.
LEMMA OrderStays ==
    ASSUME OrderIrrelevant, layer' = layer, faults' = 0 => faults = 0,
           verdict'["machine_dtb_entries"] = verdict["machine_dtb_entries"]
    PROVE  OrderIrrelevant'
BY SameLayer DEF OrderIrrelevant, Passed

\* A test that looks at both files only.
LEMMA BeginMatrix ==
    ASSUME MatrixInv, NEW t \in SourceTests, Begin(t)
    PROVE  MatrixInv'
<1> USE DEF MatrixInv, Begin
<1>0. /\ matrixTest' = t /\ stage' = "probe" /\ need' = <<>> /\ errors' = FALSE
      /\ verdict[t] = "none" /\ UNCHANGED <<layer, verdict, faults>>
  OBVIOUS
<1>1. MatrixTypes'
  <2>1. <<>> \in Seq(Providers)
    OBVIOUS
  <2>2. QED
    BY ONLY <1>0, <2>1, t \in SourceTests, MatrixTypes DEF MatrixTypes
<1>2. CacheInv'
  BY DEF CacheInv, caches, Supports
<1>3. NeedInv' /\ LoopInv'
  BY DEF NeedInv, LoopInv
<1>4. FoundInv' /\ OrderIrrelevant'
  BY FoundStays, OrderStays
<1>5. QED
  BY <1>1, <1>2, <1>3, <1>4

LEMMA CheckKeysMatrix ==
    ASSUME MatrixInv, NEW t \in KeyTests, CheckKeys(t)
    PROVE  MatrixInv'
<1> USE DEF MatrixInv, CheckKeys
<1> DEFINE ok == IF t = "no_duplicate_keys"
                 THEN NoDuplicates(layer.baseInc) /\ NoDuplicates(layer.qcomInc)
                 ELSE KeysDecode(layer.baseInc) /\ KeysDecode(layer.qcomInc)
<1>0. /\ stage = "idle" /\ stage' = stage /\ layer' = layer /\ UNCHANGED <<caches, run, faults>>
      /\ verdict' = [verdict EXCEPT ![t] = IF ok THEN "pass" ELSE "fail"]
  OBVIOUS
<1>1. MatrixTypes'
  BY DEF MatrixTypes, run, MatrixTests, KeyTests
<1>2. CacheInv'
  BY DEF CacheInv, caches, Supports
<1>3. NeedInv' /\ LoopInv'
  BY DEF NeedInv, LoopInv
<1>4. OrderIrrelevant'
  <2>1. t # "machine_dtb_entries" /\ "machine_dtb_entries" \in MatrixTests
    BY DEF KeyTests, MatrixTests, SourceTests
  <2>2. QED
    BY <1>0, <2>1, OrderStays DEF MatrixTypes
<1>5. FoundInv'
  <2>1. {"machine_dtb_entries", "no_duplicate_keys", "compatible_combos"} \subseteq MatrixTests
        /\ t \in MatrixTests /\ t # "machine_dtb_entries" /\ t # "compatible_combos"
    BY DEF MatrixTests, SourceTests, KeyTests
  <2>2. /\ verdict'["machine_dtb_entries"] = verdict["machine_dtb_entries"]
        /\ verdict'["compatible_combos"] = verdict["compatible_combos"]
        /\ verdict'["no_duplicate_keys"] = "pass" =>
              \/ verdict["no_duplicate_keys"] = "pass"
              \/ NoDuplicates(layer.baseInc) /\ NoDuplicates(layer.qcomInc)
    BY <1>0, <2>1 DEF MatrixTypes
  <2>3. /\ NoDuplicates(layer.baseInc)' <=> NoDuplicates(layer.baseInc)
        /\ NoDuplicates(layer.qcomInc)' <=> NoDuplicates(layer.qcomInc)
    BY <1>0 DEF NoDuplicates
  <2>4. /\ CombosExist(UNION {layer.source[p] : p \in Providers}, CompatMap(layer.baseInc))'
              <=> CombosExist(UNION {layer.source[p] : p \in Providers}, CompatMap(layer.baseInc))
        /\ CombosExist(UNION {layer.source[p] : p \in QcomProviders}, CompatMap(layer.qcomInc))'
              <=> CombosExist(UNION {layer.source[p] : p \in QcomProviders},
                              CompatMap(layer.qcomInc))
    BY <1>0 DEF CombosExist, CompatMap, ComboExists, HasDtOutput
  <2>5. QED
    BY <1>0, <2>2, <2>3, <2>4, SameLayer DEF FoundInv, Passed
<1>6. QED
  BY <1>1, <1>2, <1>3, <1>4, <1>5

\* A test that fails finds out nothing, and if it is that of the machines they are not
\* fine unless a call has failed.
LEMMA FailsRightly ==
    ASSUME MatrixTypes, FoundInv, OrderIrrelevant, layer' = layer, matrixTest' = matrixTest,
           need' = need, errors' = errors, stage # "idle", EndTest("fail"), faults' \in Nat,
           faults' = 0 => faults = 0,
           matrixTest = "machine_dtb_entries" /\ faults' = 0 => ~MachinesFine
    PROVE  MatrixTypes' /\ NeedInv' /\ LoopInv' /\ FoundInv' /\ OrderIrrelevant'
<1>0. stage' = "idle" /\ verdict' = [verdict EXCEPT ![matrixTest] = "fail"]
  BY DEF EndTest
<1>1. /\ matrixTest \in MatrixTests /\ DOMAIN verdict = MatrixTests
      /\ verdict'[matrixTest] = "fail"
      /\ \A t \in MatrixTests : t # matrixTest => verdict'[t] = verdict[t]
  BY <1>0 DEF MatrixTypes, MatrixTests
<1>2. MatrixTypes'
  BY <1>0, <1>1 DEF MatrixTypes
<1>3. NeedInv' /\ LoopInv'
  BY <1>0 DEF NeedInv, LoopInv
<1>4. FoundInv'
  BY <1>1, FoundStays
<1>5. OrderIrrelevant'
  <2>1. CASE matrixTest = "machine_dtb_entries"
    BY <1>1, <2>1, SameLayer DEF OrderIrrelevant, Passed
  <2>2. CASE matrixTest # "machine_dtb_entries"
    <3>1. "machine_dtb_entries" \in MatrixTests
      BY DEF MatrixTests, SourceTests
    <3>2. QED
      BY <1>1, <2>2, <3>1, OrderStays
  <2>3. QED
    BY <2>1, <2>2
<1>6. QED
  BY <1>2, <1>3, <1>4, <1>5

\* A layer without a qcom kernel, or with a kernel that no machine can be built with, is
\* not fine.
LEMMA NotFine ==
    /\ layer.recipes \cap QcomProviders = {} => ~MachinesFine
    /\ \A p \in NeededIn(layer.recipes) :
          (\A m \in MachineSet : ~Supports(m, p)) => ~MachinesFine
    /\ \A m \in MachineSet : ~BestFine(m) => ~MachinesFine
<1>1. ASSUME MachinesFine PROVE layer.recipes \cap QcomProviders # {}
  <2>1. KERNEL_PROVIDER_YOCTO \in NeededIn(layer.recipes)
    BY DEF NeededIn
  <2>2. PICK m \in MachineSet : BestFine(m)
    BY <1>1, <2>1, FineMachines
  <2>3. Best(m) # <<>>
    BY <2>2 DEF BestFine
  <2>4. {p \in layer.recipes : Supports(m, p)} \cap QcomProviders # {}
    BY <2>3, QcomOf DEF Best
  <2>5. QED
    BY <2>4
<1>2. QED
  BY <1>1, FineMachines

\* A sequence with one more element in front.
LEMMA Prefixed ==
    ASSUME NEW V, NEW e \in V, NEW rest \in Seq(V)
    PROVE  LET list == <<e>> \o rest
           IN  /\ list \in Seq(V) /\ Len(list) = Len(rest) + 1
               /\ list[1] = e
               /\ \A i \in 1 .. Len(rest) : list[i + 1] = rest[i]
<1>1. <<e>> \in Seq(V) /\ Len(<<e>>) = 1 /\ <<e>>[1] = e /\ Len(rest) \in Nat
  OBVIOUS
<1> DEFINE list == <<e>> \o rest
<1>2. /\ list \in Seq(V) /\ Len(list) = 1 + Len(rest)
      /\ \A i \in 1 .. 1 + Len(rest) : list[i] = IF i <= 1 THEN <<e>>[i] ELSE rest[i - 1]
  BY <1>1, ConcatProperties
<1> HIDE DEF list
<1>3. list[1] = e
  BY <1>1, <1>2
<1>4. ASSUME NEW i \in 1 .. Len(rest) PROVE list[i + 1] = rest[i]
  <2>1. i + 1 \in 1 .. 1 + Len(rest) /\ ~(i + 1 <= 1) /\ (i + 1) - 1 = i
    BY <1>1
  <2>2. QED
    BY <1>2, <2>1
<1>5. QED
  BY <1>1, <1>2, <1>3, <1>4 DEF list

\* The list of kernels a test asks for.
LEMMA NeedList ==
    ASSUME NEW S
    PROVE  LET list == <<KERNEL_PROVIDER_YOCTO>> \o QcomIn(S)
           IN  /\ list \in Seq(Providers)
               /\ \A i \in 1 .. Len(list) : list[i] \in NeededIn(S)
               /\ \A p \in NeededIn(S) : \E i \in 1 .. Len(list) : list[i] = p
<1> DEFINE rest == QcomIn(S)
           list == <<KERNEL_PROVIDER_YOCTO>> \o rest
<1>1. /\ rest \in Seq(QcomProviders)
      /\ \A p \in S \cap QcomProviders : \E i \in 1 .. Len(rest) : rest[i] = p
      /\ \A i \in 1 .. Len(rest) : rest[i] \in S \cap QcomProviders
  BY QcomOf
<1>2. rest \in Seq(Providers) /\ Len(rest) \in Nat /\ KERNEL_PROVIDER_YOCTO \in Providers
  BY <1>1 DEF Providers
<1>3. /\ list \in Seq(Providers) /\ Len(list) = Len(rest) + 1
      /\ list[1] = KERNEL_PROVIDER_YOCTO
      /\ \A i \in 1 .. Len(rest) : list[i + 1] = rest[i]
  BY <1>2, Prefixed
<1> HIDE DEF list, rest
<1>4. ASSUME NEW i \in 1 .. Len(list) PROVE list[i] \in NeededIn(S)
  <2>1. CASE i = 1
    BY <1>3, <2>1 DEF NeededIn
  <2>2. CASE i # 1
    <3>1. i - 1 \in 1 .. Len(rest) /\ (i - 1) + 1 = i
      BY <1>2, <1>3, <2>2
    <3>2. list[i] = rest[i - 1]
      BY <1>3, <3>1
    <3>3. QED
      BY <1>1, <3>1, <3>2 DEF NeededIn
  <2>3. QED
    BY <2>1, <2>2
<1>5. ASSUME NEW p \in NeededIn(S) PROVE \E i \in 1 .. Len(list) : list[i] = p
  <2>1. CASE p = KERNEL_PROVIDER_YOCTO
    <3>1. 1 \in 1 .. Len(list)
      BY <1>2, <1>3
    <3>2. QED
      BY <1>3, <2>1, <3>1
  <2>2. CASE p \in S \cap QcomProviders
    <3>1. PICK i \in 1 .. Len(rest) : rest[i] = p
      BY <1>1, <2>2
    <3>2. i + 1 \in 1 .. Len(list) /\ list[i + 1] = p
      BY <1>2, <1>3, <3>1
    <3>3. QED
      BY <3>2
  <2>3. QED
    BY <2>1, <2>2 DEF NeededIn
<1>6. QED
  BY <1>3, <1>4, <1>5 DEF list, rest

LEMMA ProbeMatrix == ASSUME MatrixInv, Probe PROVE MatrixInv'
<1> USE DEF MatrixInv
<1>1. /\ stage = "probe" /\ probed' = TRUE /\ matrixTest \in SourceTests
      /\ UNCHANGED <<layer, machineOf, outputs, matrixTest, mi, errors>>
      /\ faults \in Nat /\ layer \in Layers /\ ~errors
  BY DEF Probe, MatrixTypes, LoopInv
<1>2. /\ faults' \in Nat /\ (faults' = 0 => faults = 0)
      /\ available' \subseteq layer.recipes
      /\ faults' = 0 => available' = layer.recipes
  <2>1. CASE probed /\ UNCHANGED <<available, faults>>
    BY <1>1, <2>1 DEF CacheInv
  <2>2. ASSUME NEW lost \in SUBSET layer.recipes,
               available' = layer.recipes \ lost, Fail(lost)
        PROVE  /\ faults' \in Nat /\ (faults' = 0 => faults = 0)
               /\ available' \subseteq layer.recipes
               /\ faults' = 0 => available' = layer.recipes
    <3>1. IsFiniteSet(lost)
      BY <1>1, FiniteCalls, FS_Subset
    <3>2. QED
      BY <1>1, <2>2, <3>1, Failing
  <2>3. QED
    BY <2>1, <2>2 DEF Probe
<1>3. CacheInv'
  <2>1. \A m, p : Supports(m, p)' <=> Supports(m, p)
    BY <1>1, SameLayer
  <2>2. QED
    BY <1>1, <1>2, <2>1 DEF CacheInv
<1>4. CASE QcomIn(available') = <<>>
  <2>1. EndTest("fail") /\ need' = need
    BY <1>4 DEF Probe
  <2>2. available' \cap QcomProviders = {}
    BY <1>4, QcomOf
  <2>3. faults' = 0 => ~MachinesFine
    BY <1>2, <2>2, NotFine
  <2>4. QED
    BY <1>1, <1>2, <1>3, <2>1, <2>3, FailsRightly
<1>5. CASE QcomIn(available') # <<>>
  <2>1. /\ stage' = "fetch" /\ verdict' = verdict
        /\ need' = <<KERNEL_PROVIDER_YOCTO>> \o QcomIn(available')
    BY <1>5 DEF Probe
  <2>2. available' \cap QcomProviders # {}
    BY <1>5, QcomOf
  <2>3. /\ need' \in Seq(Providers)
        /\ \A i \in 1 .. Len(need') : need'[i] \in NeededIn(available')
        /\ \A p \in NeededIn(available') : \E i \in 1 .. Len(need') : need'[i] = p
    BY <2>1, NeedList
  <2>4. MatrixTypes'
    BY <1>1, <1>2, <2>1, <2>3 DEF MatrixTypes
  <2>5. NeedInv' /\ LoopInv'
    BY <1>1, <2>1, <2>2, <2>3 DEF NeedInv, LoopInv, NeededIn
  <2>6. FoundInv' /\ OrderIrrelevant'
    BY <1>1, <1>2, <2>1, FoundStays, OrderStays
  <2>7. QED
    BY <1>3, <2>4, <2>5, <2>6
<1>6. QED
  BY <1>4, <1>5

LEMMA FindMachineMatrix == ASSUME MatrixInv, FindMachine PROVE MatrixInv'
<1> USE DEF MatrixInv
<1> DEFINE able(lost) == {i \in DOMAIN Machines : Supports(Machines[i], Wanted)
                                                    /\ Machines[i] \notin lost}
           found(lost) == IF able(lost) = {} THEN "None"
                          ELSE Machines[CHOOSE i \in able(lost) :
                                            \A j \in able(lost) : i <= j]
<1>1. /\ stage = "fetch" /\ Wanted \notin DOMAIN outputs /\ Wanted \notin DOMAIN machineOf
      /\ UNCHANGED <<layer, probed, available, outputs, matrixTest, need, mi, errors>>
      /\ UNCHANGED <<stage, verdict>> /\ faults \in Nat
  BY DEF FindMachine, run, MatrixTypes
<1>2. PICK lost \in SUBSET {m \in MachineSet : Supports(m, Wanted)} :
          machineOf' = Remember(machineOf, Wanted, found(lost)) /\ Fail(lost)
  BY DEF FindMachine
<1>3. faults' \in Nat /\ (faults' = 0 => faults = 0 /\ lost = {})
  <2>1. IsFiniteSet(lost)
    BY <1>2, FiniteCalls, FS_Subset
  <2>2. QED
    BY <1>1, <1>2, <2>1, Failing
<1>4. /\ DOMAIN machineOf' = DOMAIN machineOf \cup {Wanted}
      /\ \A p \in DOMAIN machineOf : machineOf'[p] = machineOf[p]
      /\ machineOf'[Wanted] = found(lost)
  BY <1>1, <1>2 DEF Remember
<1>5. CASE able(lost) = {}
  <2>1. machineOf'[Wanted] = "None"
    BY <1>4, <1>5
  <2>2. lost = {} => \A m \in MachineSet : ~Supports(m, Wanted)
    BY <1>5 DEF MachineSet
  <2>3. QED
    <3>1. CacheInv'
      BY <1>1, <1>3, <1>4, <2>1, <2>2, SameLayer DEF CacheInv
    <3>2. MatrixTypes' /\ NeedInv' /\ LoopInv'
      BY <1>1, <1>3 DEF MatrixTypes, NeedInv, LoopInv
    <3>3. FoundInv' /\ OrderIrrelevant'
      BY <1>1, <1>3, FoundStays, OrderStays
    <3>4. QED
      BY <3>1, <3>2, <3>3
<1>6. CASE able(lost) # {}
  <2> DEFINE Least(i) == \A j \in able(lost) : i <= j
  <2>1. able(lost) \subseteq Nat
    BY MachinesAssumption
  <2>2. \E i \in able(lost) : Least(i)
    <3>1. PICK i \in able(lost) : \A j \in able(lost) : ~(j < i)
      BY <1>6, <2>1, LeastNat
    <3>2. \A j \in able(lost) : i <= j
      BY <2>1, <3>1
    <3>3. QED
      BY <3>2
  <2> DEFINE first == CHOOSE i \in able(lost) : Least(i)
  <2>3. found(lost) = Machines[first]
    BY <1>6
  <2>4. first \in able(lost)
    <3> HIDE DEF Least, able
    <3>1. QED
      BY <2>2
  <2>5. first \in DOMAIN Machines /\ Supports(Machines[first], Wanted)
    BY <2>4
  <2>6. Machines[first] \in MachineSet /\ Machines[first] # "None"
    BY <2>5, MachinesAssumption DEF MachineSet
  <2>7. /\ machineOf'[Wanted] \in MachineSet /\ Supports(machineOf'[Wanted], Wanted)
        /\ machineOf'[Wanted] # "None"
    BY <1>4, <2>3, <2>5, <2>6
  <2>8. CacheInv'
    BY <1>1, <1>3, <1>4, <2>7, SameLayer DEF CacheInv
  <2>9. MatrixTypes' /\ NeedInv' /\ LoopInv'
    BY <1>1, <1>3 DEF MatrixTypes, NeedInv, LoopInv
  <2>10. FoundInv' /\ OrderIrrelevant'
    BY <1>1, <1>3, FoundStays, OrderStays
  <2>11. QED
    BY <2>8, <2>9, <2>10
<1>7. QED
  BY <1>5, <1>6

\* With the kernel at the head of the list served, the others are still to come.
LEMMA OneServed ==
    ASSUME NEW V, NEW list \in Seq(V), list # <<>>
    PROVE  /\ Tail(list) \in Seq(V)
           /\ \A i \in 1 .. Len(Tail(list)) :
                 \E j \in 1 .. Len(list) : Tail(list)[i] = list[j]
           /\ \A i \in 1 .. Len(list) : \/ list[i] = Head(list)
                                         \/ \E j \in 1 .. Len(Tail(list)) : Tail(list)[j] = list[i]
<1>1. /\ Tail(list) \in Seq(V) /\ Len(list) \in Nat /\ Len(Tail(list)) = Len(list) - 1
      /\ Head(list) = list[1]
      /\ \A i \in 1 .. Len(list) - 1 : Tail(list)[i] = list[i + 1]
  OBVIOUS
<1>2. ASSUME NEW i \in 1 .. Len(Tail(list))
      PROVE  \E j \in 1 .. Len(list) : Tail(list)[i] = list[j]
  <2>1. i + 1 \in 1 .. Len(list)
    BY <1>1
  <2>2. QED
    BY <1>1, <2>1
<1>3. ASSUME NEW i \in 1 .. Len(list), i # 1
      PROVE  \E j \in 1 .. Len(Tail(list)) : Tail(list)[j] = list[i]
  <2>1. i - 1 \in 1 .. Len(Tail(list)) /\ i - 1 \in 1 .. Len(list) - 1 /\ (i - 1) + 1 = i
    BY <1>1, <1>3
  <2>2. QED
    BY <1>1, <2>1
<1>4. QED
  BY <1>1, <1>2, <1>3

\* The kernel asked for is one the test needs.
LEMMA WantedNeeded ==
    ASSUME MatrixTypes, NeedInv, stage = "fetch", need # <<>>
    PROVE  Wanted \in NeededIn(available)
<1>1. 1 \in 1 .. Len(need) /\ Head(need) = need[1]
  BY DEF MatrixTypes
<1>2. QED
  BY <1>1 DEF NeedInv, Wanted

LEMMA FetchOutputsMatrix == ASSUME MatrixInv, FetchOutputs PROVE MatrixInv'
<1> USE DEF MatrixInv
<1>1. /\ stage = "fetch" /\ need # <<>> /\ need \in Seq(Providers) /\ faults \in Nat
      /\ matrixTest \in SourceTests
      /\ UNCHANGED <<layer, probed, available, machineOf, matrixTest, mi, errors>>
  BY DEF FetchOutputs, MatrixTypes
<1>2. ASSUME need' = Tail(need), UNCHANGED <<stage, verdict, faults>>, CacheInv',
             \A p \in DOMAIN outputs \cup {Wanted} : p \in DOMAIN outputs'
      PROVE  MatrixInv'
  <2>1. /\ need' \in Seq(Providers)
        /\ \A i \in 1 .. Len(need') : \E j \in 1 .. Len(need) : need'[i] = need[j]
        /\ \A i \in 1 .. Len(need) : \/ need[i] = Wanted
                                     \/ \E j \in 1 .. Len(need') : need'[j] = need[i]
    BY <1>1, <1>2, OneServed DEF Wanted
  <2>2. MatrixTypes'
    BY <1>1, <1>2, <2>1 DEF MatrixTypes
  <2>3. NeedInv'
    <3>1. /\ probed' /\ available' \cap QcomProviders # {}
          /\ NeededIn(available') = NeededIn(available)
      BY <1>1 DEF NeedInv
    <3>2. \A i \in 1 .. Len(need') : need'[i] \in NeededIn(available)
      BY <1>1, <2>1 DEF NeedInv
    <3>3. ASSUME NEW p \in NeededIn(available)
          PROVE  p \in DOMAIN outputs' \/ \E i \in 1 .. Len(need') : need'[i] = p
      <4>1. p \in DOMAIN outputs \/ \E i \in 1 .. Len(need) : need[i] = p
        BY <1>1 DEF NeedInv
      <4>2. QED
        BY <1>2, <2>1, <4>1
    <3>4. QED
      BY <1>1, <1>2, <3>1, <3>2, <3>3 DEF NeedInv
  <2>4. LoopInv'
    BY <1>1, <1>2 DEF LoopInv
  <2>5. FoundInv' /\ OrderIrrelevant'
    BY <1>1, <1>2, FoundStays, OrderStays
  <2>6. QED
    BY <1>2, <2>2, <2>3, <2>4, <2>5
<1>3. CASE /\ Wanted \in DOMAIN outputs /\ need' = Tail(need)
           /\ UNCHANGED <<outputs, stage, verdict, faults>>
  <2>1. CacheInv'
    BY <1>1, <1>3, SameLayer DEF CacheInv
  <2>2. QED
    BY <1>2, <1>3, <2>1
<1>4. CASE /\ Wanted \notin DOMAIN outputs /\ Wanted \in DOMAIN machineOf
           /\ machineOf[Wanted] # "None"
           /\ outputs' = Remember(outputs, Wanted, layer.source[Wanted])
           /\ need' = Tail(need)
           /\ UNCHANGED <<stage, verdict, faults>>
  <2>1. /\ DOMAIN outputs' = DOMAIN outputs \cup {Wanted}
        /\ \A p \in DOMAIN outputs : outputs'[p] = outputs[p]
        /\ outputs'[Wanted] = layer.source[Wanted]
    BY <1>4 DEF Remember
  <2>2. CacheInv'
    BY <1>1, <1>4, <2>1, SameLayer DEF CacheInv
  <2>3. QED
    BY <1>2, <1>4, <2>1, <2>2
<1>5. CASE /\ Wanted \notin DOMAIN outputs /\ Wanted \in DOMAIN machineOf
           /\ IF machineOf[Wanted] = "None" THEN UNCHANGED faults ELSE Fail({Wanted})
           /\ EndTest("fail")
           /\ UNCHANGED <<outputs, need>>
  <2>1. CASE machineOf[Wanted] = "None"
    <3>1. faults' = faults
      BY <1>5, <2>1
    <3>2. faults = 0 => ~MachinesFine
      <4>1. faults = 0 => available = layer.recipes /\ \A m \in MachineSet : ~Supports(m, Wanted)
        BY <1>1, <1>5, <2>1 DEF CacheInv, NeedInv
      <4>2. Wanted \in NeededIn(available)
        BY <1>1, WantedNeeded
      <4>3. QED
        BY <4>1, <4>2, NotFine
    <3>3. CacheInv'
      BY <1>1, <1>5, <3>1, SameLayer DEF CacheInv
    <3>4. QED
      BY <1>1, <1>5, <3>1, <3>2, <3>3, FailsRightly
  <2>2. CASE machineOf[Wanted] # "None"
    <3>1. IsFiniteSet({Wanted}) /\ Fail({Wanted})
      BY <1>5, <2>2, FS_Singleton
    <3>2. faults' \in Nat /\ faults' # 0
      BY <1>1, <3>1, Failing
    <3>3. CacheInv'
      BY <1>1, <1>5, <3>2, SameLayer DEF CacheInv
    <3>4. QED
      BY <1>1, <1>5, <3>2, <3>3, FailsRightly
  <2>3. QED
    BY <2>1, <2>2
<1>6. QED
  BY <1>3, <1>4, <1>5 DEF FetchOutputs

\* A combo that some kernels can produce, more kernels can.
LEMMA MoreBlobs ==
    ASSUME NEW S, NEW T, S \subseteq T, NEW map, CombosExist(S, map)
    PROVE  CombosExist(T, map)
<1>1. \A stem, exts : HasDtOutput(S, stem, exts) => HasDtOutput(T, stem, exts)
  BY DEF HasDtOutput
<1>2. \A combo : ComboExists(S, combo) => ComboExists(T, combo)
  BY <1>1 DEF ComboExists
<1>3. QED
  BY <1>2 DEF CombosExist

\* Once nothing is left to ask for, all outputs needed are there, and they are right.
LEMMA AllFetched ==
    ASSUME MatrixInv, stage \in {"fetch", "machines"}, need = <<>>
    PROVE  \A p \in NeededIn(available) : p \in DOMAIN outputs /\ outputs[p] = layer.source[p]
<1>1. Len(need) = 0 /\ 1 .. 0 = {}
  OBVIOUS
<1>2. QED
  BY <1>1 DEF MatrixInv, NeedInv, CacheInv

LEMMA CheckCombosMatrix == ASSUME MatrixInv, CheckCombos PROVE MatrixInv'
<1> DEFINE qcom == UNION {outputs[p] : p \in available \cap QcomProviders}
           all  == qcom \cup outputs[KERNEL_PROVIDER_YOCTO]
           qcomSource == UNION {layer.source[p] : p \in QcomProviders}
           allSource == UNION {layer.source[p] : p \in Providers}
           ok == /\ CombosExist(all, CompatMap(layer.baseInc))
                 /\ CombosExist(qcom, CompatMap(layer.qcomInc))
<1>1. /\ stage = "fetch" /\ need = <<>> /\ matrixTest = "compatible_combos"
      /\ EndTest(IF ok THEN "pass" ELSE "fail")
      /\ UNCHANGED <<layer, caches, run, faults>>
      /\ MatrixTypes /\ CacheInv /\ FoundInv /\ OrderIrrelevant
  BY DEF CheckCombos, MatrixInv
<1>2. qcom \subseteq qcomSource /\ all \subseteq allSource
  <2>1. \A p \in NeededIn(available) : outputs[p] = layer.source[p]
    BY <1>1, AllFetched
  <2>2. QED
    BY <2>1 DEF NeededIn, Providers
<1>3. ok => /\ CombosExist(allSource, CompatMap(layer.baseInc))
            /\ CombosExist(qcomSource, CompatMap(layer.qcomInc))
  <2> HIDE DEF qcom, all, qcomSource, allSource
  <2>1. QED
    BY <1>2, MoreBlobs
<1>4. /\ stage' = "idle"
      /\ verdict' = [verdict EXCEPT ![matrixTest] = IF ok THEN "pass" ELSE "fail"]
      /\ layer' = layer /\ UNCHANGED <<probed, available, machineOf, outputs>>
      /\ UNCHANGED <<need, errors, faults, matrixTest>>
  BY <1>1 DEF EndTest, caches, run
<1> HIDE DEF ok
<1>5. /\ {"machine_dtb_entries", "no_duplicate_keys", "compatible_combos"} \subseteq MatrixTests
      /\ DOMAIN verdict = MatrixTests
  BY <1>1 DEF MatrixTypes, MatrixTests, SourceTests, KeyTests
<1>6. /\ verdict'["machine_dtb_entries"] = verdict["machine_dtb_entries"]
      /\ verdict'["no_duplicate_keys"] = verdict["no_duplicate_keys"]
      /\ verdict'["compatible_combos"] = "pass" => ok
  BY <1>1, <1>4, <1>5
<1>7. MatrixTypes' /\ NeedInv' /\ LoopInv'
  BY <1>1, <1>4 DEF MatrixTypes, NeedInv, LoopInv
<1>8. CacheInv'
  BY <1>1, <1>4, SameLayer DEF CacheInv
<1>9. FoundInv'
  <2>1. /\ NoDuplicates(layer.baseInc)' <=> NoDuplicates(layer.baseInc)
        /\ NoDuplicates(layer.qcomInc)' <=> NoDuplicates(layer.qcomInc)
    BY <1>4 DEF NoDuplicates
  <2>2. /\ CombosExist(allSource, CompatMap(layer.baseInc))'
              <=> CombosExist(allSource, CompatMap(layer.baseInc))
        /\ CombosExist(qcomSource, CompatMap(layer.qcomInc))'
              <=> CombosExist(qcomSource, CompatMap(layer.qcomInc))
    BY <1>4 DEF CombosExist, CompatMap, ComboExists, HasDtOutput
  <2>3. QED
    BY <1>1, <1>3, <1>4, <1>6, <2>1, <2>2, SameLayer DEF FoundInv, Passed
<1>10. OrderIrrelevant'
  BY <1>1, <1>4, <1>6, OrderStays
<1>11. QED
  BY <1>7, <1>8, <1>9, <1>10 DEF MatrixInv

LEMMA StartMachinesMatrix == ASSUME MatrixInv, StartMachines PROVE MatrixInv'
<1> USE DEF MatrixInv
<1>1. /\ stage = "fetch" /\ need = <<>> /\ matrixTest = "machine_dtb_entries" /\ ~errors
      /\ stage' = "machines" /\ mi' = 1
      /\ UNCHANGED <<layer, probed, available, machineOf, outputs, matrixTest, need, errors,
                     verdict, faults>>
  BY DEF StartMachines, caches, LoopInv
<1>2. MatrixTypes' /\ NeedInv'
  BY <1>1 DEF MatrixTypes, NeedInv
<1>3. CacheInv'
  BY <1>1, SameLayer DEF CacheInv
<1>4. LoopInv'
  <2>1. Len(Machines) \in Nat /\ 1 .. 1 - 1 = {} /\ 1 \in 1 .. Len(Machines) + 1
    BY MachinesAssumption
  <2>2. QED
    BY <1>1, <2>1 DEF LoopInv
<1>5. FoundInv' /\ OrderIrrelevant'
  BY <1>1, FoundStays, OrderStays
<1>6. QED
  BY <1>2, <1>3, <1>4, <1>5

\* What one machine adds to what is known of those before it.
LEMMA OneMachine ==
    ASSUME MatrixInv, stage = "machines", mi \in 1 .. Len(Machines), NEW m, m = Machines[mi],
           NEW lost, NEW q, q \in available \ lost, q \in QcomProviders, Supports(m, q),
           NEW yocto \in BOOLEAN
    PROVE  /\ ~MachineErrors(m, yocto, q) => Buildable(m)
           /\ lost = {} /\ faults = 0 /\ QcomIn({p \in available : Supports(m, p)})[1] = q
              /\ QcomIn({p \in available : Supports(m, p)}) # <<>>
              /\ (yocto <=> Supports(m, KERNEL_PROVIDER_YOCTO))
                => (~MachineErrors(m, yocto, q) <=> BestFine(m))
<1>1. /\ outputs[q] = layer.source[q]
      /\ outputs[KERNEL_PROVIDER_YOCTO] = layer.source[KERNEL_PROVIDER_YOCTO]
  <2>1. q \in NeededIn(available) /\ KERNEL_PROVIDER_YOCTO \in NeededIn(available)
    BY DEF NeededIn
  <2>2. need = <<>>
    BY DEF MatrixInv, NeedInv
  <2>3. QED
    BY <2>1, <2>2, AllFetched
<1>2. q \in layer.recipes
  BY DEF MatrixInv, CacheInv
<1>3. ~MachineErrors(m, yocto, q) <=>
          /\ DtFiles(m, q) \subseteq layer.source[q]
          /\ layer.extra[m] \subseteq DtFiles(m, q)
          /\ yocto => \A f \in DtFiles(m, KERNEL_PROVIDER_YOCTO) \ layer.extra[m] :
                f \in layer.source[KERNEL_PROVIDER_YOCTO] => f \in DtFiles(m, q)
  BY <1>1 DEF MachineErrors
<1>4. ~MachineErrors(m, yocto, q) => Buildable(m)
  BY <1>2, <1>3 DEF Buildable
<1>5. ASSUME faults = 0, QcomIn({p \in available : Supports(m, p)})[1] = q,
             QcomIn({p \in available : Supports(m, p)}) # <<>>,
             yocto <=> Supports(m, KERNEL_PROVIDER_YOCTO)
      PROVE  ~MachineErrors(m, yocto, q) <=> BestFine(m)
  <2>1. available = layer.recipes
    BY <1>5 DEF MatrixInv, CacheInv, NeedInv
  <2>2. Best(m) # <<>> /\ Best(m)[1] = q
    BY <1>5, <2>1 DEF Best
  <2>3. QED
    BY <1>3, <1>5, <2>2 DEF BestFine
<1>6. QED
  BY <1>4, <1>5

LEMMA CheckMachineMatrix == ASSUME MatrixInv, CheckMachine PROVE MatrixInv'
<1> USE DEF MatrixInv
<1> DEFINE m == Machines[mi]
           qcom(lost) == QcomIn({p \in available \ lost : Supports(m, p)})
           yocto(lost) == Supports(m, KERNEL_PROVIDER_YOCTO) /\ KERNEL_PROVIDER_YOCTO \notin lost
<1>1. /\ stage = "machines" /\ mi <= Len(Machines) /\ mi \in 1 .. Len(Machines)
      /\ need = <<>> /\ matrixTest = "machine_dtb_entries"
      /\ UNCHANGED <<layer, probed, available, machineOf, outputs, matrixTest, need>>
      /\ faults \in Nat /\ errors \in BOOLEAN
  <2>1. Len(Machines) \in Nat
    BY MachinesAssumption
  <2>2. QED
    BY <2>1 DEF CheckMachine, caches, NeedInv, LoopInv, MatrixTypes
<1>2. m \in MachineSet
  BY <1>1, MachinesAssumption DEF MachineSet
<1>3. PICK lost \in SUBSET {p \in Providers : Supports(m, p)} :
          /\ Fail(lost)
          /\ IF qcom(lost) = <<>>
             THEN EndTest("fail") /\ UNCHANGED <<mi, errors>>
             ELSE /\ errors' = (errors \/ MachineErrors(m, yocto(lost), qcom(lost)[1]))
                  /\ mi' = mi + 1
                  /\ UNCHANGED <<stage, verdict>>
  BY DEF CheckMachine
<1>4. faults' \in Nat /\ (faults' = 0 => faults = 0 /\ lost = {})
  <2>1. IsFiniteSet(lost)
    BY <1>3, FiniteCalls, FS_Subset
  <2>2. QED
    BY <1>1, <1>3, <2>1, Failing
<1>5. faults = 0 => available = layer.recipes
  BY <1>1 DEF CacheInv, NeedInv
<1>6. CacheInv'
  BY <1>1, <1>4, SameLayer DEF CacheInv
<1>7. faults' = 0 => /\ {p \in available \ lost : Supports(m, p)}
                            = {p \in available : Supports(m, p)}
                     /\ {p \in available : Supports(m, p)}
                            = {p \in layer.recipes : Supports(m, p)}
  BY <1>4, <1>5
<1>8. CASE qcom(lost) = <<>>
  <2>1. faults' = 0 => Best(m) = <<>>
    BY <1>7, <1>8 DEF Best
  <2>2. faults' = 0 => ~MachinesFine
    BY <1>2, <2>1, NotFine DEF BestFine
  <2>3. EndTest("fail") /\ errors' = errors
    BY <1>3, <1>8
  <2>4. QED
    BY <1>1, <1>4, <1>6, <2>2, <2>3, FailsRightly
<1>9. CASE qcom(lost) # <<>>
  <2> DEFINE q == qcom(lost)[1]
             wrong == MachineErrors(m, yocto(lost), q)
  <2>1. q \in available \ lost /\ q \in QcomProviders /\ Supports(m, q)
    BY <1>9, QcomOf
  <2>2. /\ errors' = (errors \/ wrong) /\ mi' = mi + 1 /\ UNCHANGED <<stage, verdict>>
    BY <1>3, <1>9
  <2>3. wrong \in BOOLEAN /\ yocto(lost) \in BOOLEAN
    BY DEF MachineErrors, Supports
  <2>4. /\ ~wrong => Buildable(m)
        /\ lost = {} /\ faults = 0 /\ QcomIn({p \in available : Supports(m, p)})[1] = q
           /\ QcomIn({p \in available : Supports(m, p)}) # <<>>
           /\ (yocto(lost) <=> Supports(m, KERNEL_PROVIDER_YOCTO))
             => (~wrong <=> BestFine(m))
    <3> HIDE DEF yocto, q, m
    <3>1. m = Machines[mi]
      BY DEF m
    <3>2. QED
      BY <1>1, <2>1, <2>3, <3>1, OneMachine
  <2>5. faults' = 0 => (~wrong <=> BestFine(m))
    BY <1>4, <1>7, <1>9, <2>4
  <2> HIDE DEF wrong, q, qcom, yocto
  <2>6. MatrixTypes'
    BY <1>1, <1>4, <2>2, <2>3 DEF MatrixTypes
  <2>7. NeedInv'
    BY <1>1, <2>2 DEF NeedInv
  <2>8. LoopInv'
    <3>1. /\ mi' \in 1 .. Len(Machines) + 1
          /\ \A i \in 1 .. mi' - 1 : i \in 1 .. mi - 1 \/ i = mi
      <4>1. Len(Machines) \in Nat
        BY MachinesAssumption
      <4>2. QED
        BY <1>1, <2>2, <4>1
    <3>2. ~errors' => \A i \in 1 .. mi' - 1 : Buildable(Machines[i])
      BY <1>1, <2>2, <2>4, <3>1 DEF LoopInv
    <3>3. faults' = 0 => /\ errors' => ~MachinesFine
                         /\ ~errors' => \A i \in 1 .. mi' - 1 : BestFine(Machines[i])
      <4>1. ASSUME faults' = 0, errors' PROVE ~MachinesFine
        BY <1>1, <1>2, <1>4, <2>2, <2>5, <4>1, NotFine DEF LoopInv
      <4>2. ASSUME faults' = 0, ~errors'
            PROVE  \A i \in 1 .. mi' - 1 : BestFine(Machines[i])
        BY <1>1, <1>4, <2>2, <2>5, <3>1, <4>2 DEF LoopInv
      <4>3. QED
        BY <4>1, <4>2
    <3>4. QED
      BY <1>1, <2>2, <3>1, <3>2, <3>3, SameLayer DEF LoopInv
  <2>9. FoundInv' /\ OrderIrrelevant'
    BY <1>1, <1>4, <2>2, FoundStays, OrderStays
  <2>10. QED
    BY <1>6, <2>6, <2>7, <2>8, <2>9
<1>10. QED
  BY <1>8, <1>9

LEMMA EndMachinesMatrix == ASSUME MatrixInv, EndMachines PROVE MatrixInv'
<1> USE DEF MatrixInv
<1>1. /\ stage = "machines" /\ mi > Len(Machines) /\ mi \in 1 .. Len(Machines) + 1
      /\ EndTest(IF errors THEN "fail" ELSE "pass")
      /\ need = <<>> /\ matrixTest = "machine_dtb_entries"
      /\ UNCHANGED <<layer, probed, available, machineOf, outputs, matrixTest, need, mi, errors,
                     faults>>
      /\ faults \in Nat /\ errors \in BOOLEAN
  BY DEF EndMachines, caches, run, NeedInv, LoopInv, MatrixTypes
<1>2. CASE errors
  <2>1. EndTest("fail") /\ (faults' = 0 => ~MachinesFine)
    BY <1>1, <1>2 DEF LoopInv
  <2>2. CacheInv'
    BY <1>1, SameLayer DEF CacheInv
  <2>3. QED
    BY <1>1, <2>1, <2>2, FailsRightly
<1>3. CASE ~errors
  <2>1. mi - 1 = Len(Machines) /\ DOMAIN Machines = 1 .. Len(Machines)
    <3>1. Len(Machines) \in Nat
      BY MachinesAssumption
    <3>2. QED
      BY <1>1, <3>1, MachinesAssumption
  <2>2. \A m \in MachineSet : Buildable(m)
    BY <1>1, <1>3, <2>1 DEF LoopInv, MachineSet
  <2>3. faults = 0 => MachinesFine
    <3>1. ASSUME faults = 0 PROVE \A m \in MachineSet : BestFine(m)
      BY <1>1, <1>3, <2>1, <3>1 DEF LoopInv, MachineSet
    <3>2. ASSUME faults = 0, NEW p \in NeededIn(layer.recipes)
          PROVE  \E m \in MachineSet : Supports(m, p)
      <4>1. available = layer.recipes
        BY <1>1, <3>2 DEF CacheInv, NeedInv
      <4>2. p \in DOMAIN outputs
        BY <1>1, <3>2, <4>1, AllFetched
      <4>3. QED
        BY <4>2 DEF CacheInv
    <3>3. QED
      BY <3>1, <3>2, FineMachines
  <2>4. stage' = "idle" /\ verdict' = [verdict EXCEPT ![matrixTest] = "pass"]
    BY <1>1, <1>3 DEF EndTest
  <2>5. /\ {"machine_dtb_entries", "no_duplicate_keys", "compatible_combos"} \subseteq MatrixTests
        /\ DOMAIN verdict = MatrixTests
    BY DEF MatrixTypes, MatrixTests, SourceTests, KeyTests
  <2>6. /\ verdict'["machine_dtb_entries"] = "pass"
        /\ verdict'["no_duplicate_keys"] = verdict["no_duplicate_keys"]
        /\ verdict'["compatible_combos"] = verdict["compatible_combos"]
    BY <1>1, <2>4, <2>5
  <2>7. MatrixTypes' /\ NeedInv' /\ LoopInv'
    BY <1>1, <2>4 DEF MatrixTypes, NeedInv, LoopInv
  <2>8. CacheInv'
    BY <1>1, SameLayer DEF CacheInv
  <2>9. FoundInv'
    <3>1. /\ NoDuplicates(layer.baseInc)' <=> NoDuplicates(layer.baseInc)
          /\ NoDuplicates(layer.qcomInc)' <=> NoDuplicates(layer.qcomInc)
      BY <1>1 DEF NoDuplicates
    <3>2. /\ CombosExist(UNION {layer.source[p] : p \in Providers}, CompatMap(layer.baseInc))'
            <=> CombosExist(UNION {layer.source[p] : p \in Providers}, CompatMap(layer.baseInc))
          /\ CombosExist(UNION {layer.source[p] : p \in QcomProviders},
                         CompatMap(layer.qcomInc))'
            <=> CombosExist(UNION {layer.source[p] : p \in QcomProviders},
                            CompatMap(layer.qcomInc))
      BY <1>1 DEF CombosExist, CompatMap, ComboExists, HasDtOutput
    <3>3. QED
      BY <1>1, <2>2, <2>6, <3>1, <3>2, SameLayer DEF FoundInv, Passed
  <2>10. OrderIrrelevant'
    BY <1>1, <2>3, <2>6, SameLayer DEF OrderIrrelevant, Passed
  <2>11. QED
    BY <2>7, <2>8, <2>9, <2>10
<1>4. QED
  BY <1>1, <1>2, <1>3

LEMMA NextMatrix == ASSUME MatrixInv, [MatrixNext]_matrixVars PROVE MatrixInv'
<1>1. CASE UNCHANGED matrixVars
  <2>1. /\ UNCHANGED <<layer, probed, available, machineOf, outputs>>
        /\ UNCHANGED <<matrixTest, need, mi, errors, stage, verdict, faults>>
    BY <1>1 DEF matrixVars, caches, run
  <2>2. MatrixTypes' /\ CacheInv' /\ NeedInv' /\ LoopInv'
    BY <2>1, SameLayer DEF MatrixInv, MatrixTypes, CacheInv, NeedInv, LoopInv
  <2>3. FoundInv' /\ OrderIrrelevant'
    BY <2>1, FoundStays, OrderStays DEF MatrixInv
  <2>4. QED
    BY <2>2, <2>3 DEF MatrixInv
<1>2. QED
  BY <1>1, BeginMatrix, CheckKeysMatrix, ProbeMatrix, FindMachineMatrix,
     FetchOutputsMatrix, CheckCombosMatrix, StartMachinesMatrix, CheckMachineMatrix,
     EndMachinesMatrix DEF MatrixNext

LEMMA InitMatrix == ASSUME MatrixInit PROVE MatrixInv
<1>1. "machine_dtb_entries" \in MatrixTests /\ "no_duplicate_keys" \in MatrixTests
      /\ "compatible_combos" \in MatrixTests
  BY DEF MatrixTests, SourceTests, KeyTests
<1>2. MatrixTypes
  <2>1. <<>> \in Seq(Providers)
    OBVIOUS
  <2>2. /\ layer \in Layers /\ stage = "idle" /\ need = <<>> /\ errors = FALSE /\ faults = 0
        /\ verdict \in [MatrixTests -> {"none", "pass", "fail"}]
    BY DEF MatrixInit
  <2>3. QED
    BY ONLY <2>1, <2>2 DEF MatrixTypes
<1>3. CacheInv
  BY DEF MatrixInit, CacheInv, NoCache
<1>4. NeedInv /\ LoopInv
  BY DEF MatrixInit, NeedInv, LoopInv
<1>5. FoundInv /\ OrderIrrelevant
  BY <1>1 DEF MatrixInit, FoundInv, OrderIrrelevant, Passed
<1>6. QED
  BY <1>2, <1>3, <1>4, <1>5 DEF MatrixInv

\* When no flag is assigned twice, the map holds every assignment.
LEMMA NoneOverwritten ==
    ASSUME NEW inc, NoDuplicates(inc), DOMAIN inc = 1 .. Len(inc), Len(inc) \in Nat,
           NEW i \in DOMAIN inc
    PROVE  inc[i].key \in DOMAIN CompatMap(inc) /\ CompatMap(inc)[inc[i].key] = inc[i].combo
<1> DEFINE k == inc[i].key
           Latest(l) == /\ inc[l].key = k
                        /\ \A j \in DOMAIN inc : inc[j].key = k => j <= l
           last == CHOOSE l \in DOMAIN inc : Latest(l)
<1>1. k \in DOMAIN CompatMap(inc) /\ CompatMap(inc)[k] = inc[last].combo
  BY DEF CompatMap
<1>2. Latest(i)
  BY DEF NoDuplicates
<1>3. last \in DOMAIN inc /\ Latest(last)
  <2> HIDE DEF Latest
  <2>1. QED
    BY <1>2
<1>4. last = i
  BY <1>3 DEF NoDuplicates
<1>5. QED
  BY <1>1, <1>4

\* What the invariant says of a green matrix.
LEMMA FoundIsSound == ASSUME MatrixInv PROVE PassSound
<1> DEFINE all == UNION {layer.source[p] : p \in Providers}
           qcom == UNION {layer.source[p] : p \in QcomProviders}
<1>1. FoundInv /\ layer \in Layers
  BY DEF MatrixInv, MatrixTypes
<1>2. ASSUME Passed("compatible_combos"), Passed("no_duplicate_keys")
      PROVE  /\ \A i \in DOMAIN layer.baseInc : ComboExists(all, layer.baseInc[i].combo)
             /\ \A i \in DOMAIN layer.qcomInc : ComboExists(qcom, layer.qcomInc[i].combo)
  <2>1. /\ CombosExist(all, CompatMap(layer.baseInc))
        /\ CombosExist(qcom, CompatMap(layer.qcomInc))
        /\ NoDuplicates(layer.baseInc) /\ NoDuplicates(layer.qcomInc)
    BY <1>1, <1>2 DEF FoundInv
  <2> HIDE DEF all, qcom
  <2>2. /\ \A i \in DOMAIN layer.baseInc :
              /\ layer.baseInc[i].key \in DOMAIN CompatMap(layer.baseInc)
              /\ CompatMap(layer.baseInc)[layer.baseInc[i].key] = layer.baseInc[i].combo
        /\ \A i \in DOMAIN layer.qcomInc :
              /\ layer.qcomInc[i].key \in DOMAIN CompatMap(layer.qcomInc)
              /\ CompatMap(layer.qcomInc)[layer.qcomInc[i].key] = layer.qcomInc[i].combo
    BY <1>1, <2>1, LayersAssumption, NoneOverwritten
  <2>3. QED
    BY <2>1, <2>2 DEF CombosExist
<1>3. Passed("machine_dtb_entries") =>
          \A m \in MachineSet : \E q \in QcomProviders \cap layer.recipes :
              /\ Supports(m, q)
              /\ layer.extra[m] \subseteq DtFiles(m, q)
              /\ DtFiles(m, q) \subseteq layer.source[q]
  BY <1>1 DEF FoundInv, Buildable
<1>4. QED
  BY <1>2, <1>3 DEF PassSound

\* A green matrix can be relied on, although calls to BitBake failed and the caches were
\* filled by other tests, and while no call fails neither the order of the tests nor the
\* caches decide about the outcome: _provider_output_files and the loop of
\* test_machine_dtb_entries_exist_for_kernel_providers, for any metadata and kernels.
THEOREM GreenMatrixSound == MatrixSpec => []MatrixSound
<1>1. MatrixInit => MatrixInv
  BY InitMatrix
<1>2. MatrixInv /\ [MatrixNext]_matrixVars => MatrixInv'
  BY NextMatrix
<1>3. MatrixInv => MatrixSound
  BY FoundIsSound DEF MatrixInv, MatrixSound
<1>4. QED
  BY <1>1, <1>2, <1>3, PTL DEF MatrixSpec

-----------------------------------------------------------------------------
(* The classes side by side.                                               *)

\* The parser and the matrix tests only ever take steps of their own.
LEMMA ClassesApart ==
    /\ SelftestInit => TextInit /\ MatrixInit
    /\ [SelftestNext]_<<part, textVars, matrixVars, suiteVars, unitOnly>>
          => [TextNext]_textVars /\ [MatrixNext]_matrixVars
<1>1. SelftestInit => TextInit /\ MatrixInit
  BY DEF SelftestInit, TextIdle, MatrixIdle
<1>2. ASSUME [SelftestNext]_<<part, textVars, matrixVars, suiteVars, unitOnly>>
      PROVE  [TextNext]_textVars /\ [MatrixNext]_matrixVars
  BY <1>2 DEF SelftestNext
<1>3. QED
  BY <1>1, <1>2

\* The stack of _parse_its_file is as deep as the file nests, and the caches of the
\* matrix tests say nothing of a kernel that is not so, whichever class is run.
THEOREM SelftestTypes == SelftestSpec => []SelftestTypesOK
<1> DEFINE Inv == TextInv /\ KindsInv /\ MatrixInv
<1>1. SelftestInit => Inv
  <2> SUFFICES ASSUME SelftestInit PROVE Inv
    OBVIOUS
  <2>1. TextInit /\ MatrixInit
    BY ClassesApart
  <2>2. KindsInv
    BY <2>1 DEF TextInit, NoEntry, KindsInv
  <2>3. QED
    BY <2>1, <2>2, InitText, InitMatrix
<1>2. Inv /\ [SelftestNext]_<<part, textVars, matrixVars, suiteVars, unitOnly>> => Inv'
  BY ClassesApart, NextText, NextKinds, NextMatrix
<1>3. Inv => SelftestTypesOK
  <2> SUFFICES ASSUME Inv PROVE TextTypeOK /\ MatrixTypeOK
    BY DEF SelftestTypesOK
  <2>1. TextTypeOK
    BY TextTypes
  <2>2. MatrixTypeOK
    BY DEF MatrixInv, MatrixTypes, CacheInv, MatrixTypeOK
  <2>3. QED
    BY <2>1, <2>2
<1> HIDE DEF Inv
<1>4. QED
  BY <1>1, <1>2, <1>3, PTL DEF SelftestSpec
=============================================================================
