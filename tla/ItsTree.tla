------------------------------ MODULE ItsTree ------------------------------
(***************************************************************************)
(* The image tree source (ITS) that QcomItsNodeRoot builds and the selftest*)
(* reads back: two sections of nodes, each a list of properties.  A value  *)
(* is a string, a list of strings or something written without quotes (an  *)
(* /incbin/ or a cell).  Names of nodes and blobs stand for their text.    *)
(***************************************************************************)
EXTENDS Naturals, Sequences

Str(x)  == [type |-> "str", val |-> <<x>>]
List(s) == [type |-> "list", val |-> s]
Raw(x)  == [type |-> "raw", val |-> <<x>>]

Prop(k, v) == [key |-> k, val |-> v]
Node(n, ps) == [name |-> n, props |-> ps]

(* What the nodes of QcomItsNodeRoot hold.                                 *)

DtbNode(id, type) ==
    Node(id, <<Prop("type", Str(type)), Prop("data", Raw(id))>>)

\* The fdt of an overlay configuration is a list that replaces the base blob.
ConfigNodeOf(num, fdt, compat) ==
    Node(num, <<Prop("fdt", IF Len(fdt) = 1 THEN Str(fdt[1]) ELSE List(fdt)),
                Prop("compatible", Str(compat))>>)

\* What write_its_file makes of the nodes that were emitted.
TreeOf(dtbs, configs) ==
    [images |-> [i \in DOMAIN dtbs |-> DtbNode(dtbs[i].id, dtbs[i].type)],
     configurations |-> [i \in DOMAIN configs |->
         ConfigNodeOf(configs[i].num, configs[i].fdt, configs[i].compat)]]

-----------------------------------------------------------------------------
(* The writer quotes every string, and a list as its quoted entries with   *)
(* commas in between, so a list of one entry looks like a string.          *)

Written(v) == [quoted |-> v.type # "raw", items |-> v.val]

\* What _parse_its_file makes of the text after the equals sign.
Reread(text) ==
    IF ~text.quoted THEN Raw(text.items[1])
    ELSE IF Len(text.items) >= 2 THEN List(text.items) ELSE Str(text.items[1])

\* A Python dictionary: {}, and d[k] = v.
NoEntry == [x \in {} |-> {}]
Put(d, k, v) == [x \in DOMAIN d \cup {k} |-> IF x = k THEN v ELSE d[x]]

(* What a faithful reading of a section is: each node once, with the       *)
(* properties that were written; of two nodes with one name, the later.    *)

LastWith(keys, k) ==
    CHOOSE i \in DOMAIN keys : keys[i] = k /\ \A j \in DOMAIN keys : j > i => keys[j] # k

Props(ps) ==
    LET keys == [i \in DOMAIN ps |-> ps[i].key]
    IN  [k \in {keys[i] : i \in DOMAIN keys} |->
            Reread(Written(ps[LastWith(keys, k)].val))]

Reading(nodes) ==
    LET names == [i \in DOMAIN nodes |-> nodes[i].name]
    IN  [n \in {names[i] : i \in DOMAIN names} |->
            Props(nodes[LastWith(names, n)].props)]

-----------------------------------------------------------------------------
(* What tests ask of a file p that was read back.                          *)

ConfNodes(p) == {p.configurations[n] : n \in DOMAIN p.configurations}
Has(node, k, v) == k \in DOMAIN node /\ node[k] = v

\* The blobs of a configuration, be its fdt a string or a list.
Refs(conf) == {conf.fdt.val[i] : i \in DOMAIN conf.fdt.val}

Linked(p) ==
    \A conf \in ConfNodes(p) : "fdt" \in DOMAIN conf /\ Refs(conf) \subseteq DOMAIN p.images

Excluded(p, blob) ==
    \A conf \in ConfNodes(p) : "fdt" \in DOMAIN conf => blob \notin Refs(conf)

\* A substring of what dumpimage -l prints of it: a name is found in a longer one,
\* so fdt-x.dtb in fdt-x.dtbo as well.  Configurations list their blobs, too.
Dumped(p, blob) ==
    LET names == DOMAIN p.images \cup UNION {Refs(conf) : conf \in ConfNodes(p)}
    IN  blob \in names \/ (blob[2] = "dtb" /\ <<blob[1], "dtbo">> \in names)
=============================================================================
