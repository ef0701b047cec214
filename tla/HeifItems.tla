----------------------------- MODULE HeifItems -----------------------------
(* Metadata spliced into an encoded AVIF file: the box surgery of           *)
(* crates/rawshift-image-metadata/src/{isobmff,icc,xmp}.rs.                 *)
(*                                                                          *)
(* A container is [before, meta, after]: the length of the boxes before the *)
(* meta box, the meta box, and the boxes after it.  Every box has the size  *)
(* its header states, which the surgery patches, beside what it really      *)
(* holds:                                                                   *)
(*   meta  [size, boxes]                                                    *)
(*   pitm  [version, id]                  the primary item                  *)
(*   iinf  [version, items]               items [id, type, version]         *)
(*   iloc  [version, offset_size, length_size, base_size, index_size,       *)
(*          count, entries]               entries [id, base, extents]       *)
(*   iref  [version, refs]                refs [from, to]                   *)
(*   iprp  [ipco_size, props, rest]       props [type, length]              *)
(*   after [type, length, holds]          what item data a box holds        *)
(* and a box of another type its [length].  Extents are [offset, length].   *)
EXTENDS SensorImage, SequencesExt

SumOf(numbers) == FoldLeft(LAMBDA a, b : a + b, 0, numbers)

-----------------------------------------------------------------------------
(* What the boxes occupy: their layout in the format.                       *)

Wide(version, narrow) == IF version < narrow THEN 2 ELSE 4

InfeLength(version) == IF version = 2 THEN 21 ELSE 23
EntryLength(iloc, extents) ==
    LET indexed == IF iloc.version >= 1 THEN iloc.index_size ELSE 0
    IN Wide(iloc.version, 2) + (IF iloc.version >= 1 THEN 2 ELSE 0) + 2 + iloc.base_size + 2
       + (extents * (indexed + iloc.offset_size + iloc.length_size))
ReferenceLength(version) == 10 + (2 * Wide(version, 1))

IpcoLength(iprp) == 8 + SumOf([i \in DOMAIN iprp.props |-> iprp.props[i].length])

BoxLength(b) ==
    CASE b.type = "pitm" -> 12 + Wide(b.version, 1)
      [] b.type = "iinf" -> 12 + Wide(b.version, 1)
                            + SumOf([i \in DOMAIN b.items |-> InfeLength(b.items[i].version)])
      [] b.type = "iloc" -> 14 + Wide(b.version, 2)
                            + SumOf([i \in DOMAIN b.entries |->
                                         EntryLength(b, Len(b.entries[i].extents))])
      [] b.type = "iref" -> 12 + (Len(b.refs) * ReferenceLength(b.version))
      [] b.type = "iprp" -> 8 + IpcoLength(b) + b.rest
      [] OTHER -> b.length

MetaLength(c) == 12 + SumOf([i \in DOMAIN c.meta.boxes |-> BoxLength(c.meta.boxes[i])])
AfterStart(c, k) ==
    c.before + MetaLength(c) + SumOf([i \in 1 .. k - 1 |-> c.after[i].length])
FileLength(c) == AfterStart(c, Len(c.after) + 1)

-----------------------------------------------------------------------------
(* The first box of a type, by its index; 0 when there is none.             *)
find_box(c, type) == SelectInSeq(c.meta.boxes, LAMBDA b : b.type = type)
BoxOf(c, type) == c.meta.boxes[find_box(c, type)]
WithBox(c, type, b) == [c EXCEPT !.meta.boxes[find_box(c, type)] = b]

Fits(value, bytes) == bytes >= 4 \/ value < 256 ^ bytes

(* Mutant: only the extents of the first item move.                         *)
patch_iloc_extents_FirstOnly(iloc, delta) ==
    [iloc EXCEPT !.entries[1].extents = [j \in DOMAIN @ |-> [@[j] EXCEPT !.offset = @ + delta]]]

(* Every extent moves, and a base offset that is stored and not zero.       *)
patch_iloc_extents(iloc, delta) ==
    LET Base(b) == IF iloc.base_size > 0 /\ b > 0 THEN b + delta ELSE b
        Extent(e) == IF iloc.offset_size > 0 THEN [e EXCEPT !.offset = @ + delta] ELSE e
        Entry(e) == [e EXCEPT !.base = Base(@),
                              !.extents = [j \in DOMAIN e.extents |-> Extent(e.extents[j])]]
    IN [iloc EXCEPT !.entries = [i \in DOMAIN iloc.entries |-> Entry(iloc.entries[i])]]

(* The ids in use; an item entry of an old layout is not understood.        *)
parse_infe(item) == IF item.version \in {2, 3} THEN {item.id} ELSE {}

NewId(c) ==
    LET items == BoxOf(c, "iinf").items
        entries == BoxOf(c, "iloc").entries
        used == UNION {parse_infe(items[i]) : i \in DOMAIN items}
                \union {entries[i].id : i \in DOMAIN entries} \union {BoxOf(c, "pitm").id}
    IN 1 + CHOOSE id \in used : \A other \in used : id >= other

build_infe(id, type) == [id |-> id, type |-> type, version |-> IF id <= u16_MAX THEN 2 ELSE 3]
build_reference(from, to) == [from |-> from, to |-> to]
build_iloc_entry(id, offset, length) ==
    [id |-> id, base |-> 0, extents |-> <<[offset |-> offset, length |-> length]>>]

(* The reference from the new item to the primary one, in the box there is  *)
(* or in a fresh one at the end of meta.                                    *)
WithReference(c, id, primary) ==
    LET wide == id > u16_MAX \/ primary > u16_MAX
        version == IF wide THEN 1 ELSE 0
    IN IF find_box(c, "iref") # 0
       THEN WithBox(c, "iref", [BoxOf(c, "iref") EXCEPT
                !.refs = Append(@, build_reference(id, primary)),
                !.size = @ + ReferenceLength(BoxOf(c, "iref").version)])
       ELSE [c EXCEPT !.meta.boxes = Append(@,
                [type |-> "iref", version |-> version, refs |-> <<build_reference(id, primary)>>,
                 size |-> 12 + ReferenceLength(version)])]

RefGrowth(c, id, primary) ==
    IF find_box(c, "iref") # 0 THEN ReferenceLength(BoxOf(c, "iref").version)
    ELSE 12 + ReferenceLength(IF id > u16_MAX \/ primary > u16_MAX THEN 1 ELSE 0)

(* What insert_item cannot express: a box that is missing, a width of the   *)
(* location table, an id past the range of a narrow table.                  *)
Insertable(c, id, length, offset) ==
    LET iloc == BoxOf(c, "iloc")
        narrow == find_box(c, "iref") # 0 /\ BoxOf(c, "iref").version = 0
    IN /\ iloc.offset_size \in {4, 8} /\ iloc.length_size \in {1, 2, 4, 8}
       /\ Fits(length, iloc.length_size) /\ Fits(offset, iloc.offset_size)
       /\ iloc.version < 2 => id <= u16_MAX
       /\ narrow => (id <= u16_MAX /\ BoxOf(c, "pitm").id <= u16_MAX)

(* The extents move by what meta grows, before the new entry is written;    *)
(* the payload follows in a box of its own at the end of the file.  The     *)
(* code splices bytes, the highest position first, and of two at the same   *)
(* one the fresh iref box first: here each box takes what is appended to    *)
(* it.  A narrow count of 65535 items, which it refuses, is left out.        *)
Inserted(c, type, length, id, growth) ==
    LET iinf == BoxOf(c, "iinf")
        iloc == patch_iloc_extents(BoxOf(c, "iloc"), growth)
        offset == FileLength(c) + growth + 8
        named == WithBox(c, "iinf", [iinf EXCEPT
                     !.items = Append(@, build_infe(id, type)),
                     !.size = @ + InfeLength(build_infe(id, type).version)])
        placed == WithBox(named, "iloc", [iloc EXCEPT
                     !.entries = Append(@, build_iloc_entry(id, offset, length)),
                     !.count = @ + 1, !.size = @ + EntryLength(iloc, 1)])
        linked == WithReference(placed, id, BoxOf(c, "pitm").id)
    IN [linked EXCEPT
           !.meta.size = @ + growth,
           !.after = Append(@, [type |-> "mdat", length |-> 8 + length,
                                holds |-> <<[id |-> id, at |-> 8, length |-> length]>>])]

insert_item(c, type, length) ==
    LET id == NewId(c)
        growth == InfeLength(build_infe(id, type).version) + EntryLength(BoxOf(c, "iloc"), 1)
                  + RefGrowth(c, id, BoxOf(c, "pitm").id)
    IN IF \E t \in {"pitm", "iinf", "iloc"} : find_box(c, t) = 0 THEN Error
       ELSE IF ~Insertable(c, id, length, FileLength(c) + growth + 8) THEN Error
       ELSE Inserted(c, type, length, id, growth)

-----------------------------------------------------------------------------
(* The profile: in place of the colour box there is, or before the other    *)
(* properties of ipco, whose positions the items are associated with.       *)
WithProfile(iprp, length) ==
    LET k == SelectInSeq(iprp.props, LAMBDA p : p.type = "colr")
        box == [type |-> "colr", length |-> 12 + length]
    IN [iprp EXCEPT !.props = IF k = 0 THEN <<box>> \o @ ELSE [@ EXCEPT ![k] = box]]

append_icc_to_avif(c, length) ==
    LET old == BoxOf(c, "iprp")
        new == WithProfile(old, length)
        delta == IpcoLength(new) - IpcoLength(old)
        grown == [WithBox(c, "iprp", [new EXCEPT !.size = @ + delta, !.ipco_size = @ + delta])
                  EXCEPT !.meta.size = @ + delta]
    IN IF find_box(c, "iprp") = 0 THEN Error
       ELSE IF find_box(c, "iloc") = 0 THEN grown
       ELSE WithBox(grown, "iloc", patch_iloc_extents(BoxOf(c, "iloc"), delta))

(* XMP is a box of its own after all others, not an item.                   *)
append_xmp_to_avif(c, valid, length) ==
    IF ~valid THEN Error
    ELSE [c EXCEPT !.after = Append(@, [type |-> "xml ", length |-> 8 + length, holds |-> <<>>])]

-----------------------------------------------------------------------------
(* What a reader of the file finds.                                         *)

(* Every header states the length of its box.                               *)
SizesTrue(c) ==
    /\ c.meta.size = MetaLength(c)
    /\ \A i \in DOMAIN c.meta.boxes : c.meta.boxes[i].size = BoxLength(c.meta.boxes[i])
    /\ find_box(c, "iprp") # 0 => BoxOf(c, "iprp").ipco_size = IpcoLength(BoxOf(c, "iprp"))
    /\ BoxOf(c, "iloc").count = Len(BoxOf(c, "iloc").entries)

(* The bytes [offset, length] where an item's data really is.               *)
Whereabouts(c, id) ==
    UNION {{[offset |-> AfterStart(c, k) + h.at, length |-> h.length] :
               h \in {g \in ToSet(c.after[k].holds) : g.id = id}} : k \in DOMAIN c.after}

Extents(entry) == {[e EXCEPT !.offset = @ + entry.base] : e \in ToSet(entry.extents)}
ItemsFound(c) ==
    \A i \in DOMAIN BoxOf(c, "iloc").entries :
        LET e == BoxOf(c, "iloc").entries[i]
        IN e.extents # <<>> /\ Extents(e) = Whereabouts(c, e.id)
=============================================================================
