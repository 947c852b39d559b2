----------------------------- MODULE ObjectLinks -----------------------------
(***************************************************************************)
(* The data of the assert-dead facility and the pure functions on it       *)
(* (slib.c 140-320, 1348-1620).                                            *)
(*                                                                         *)
(* An object link is the reference path along which gc_mark reached an     *)
(* object that was asserted dead: the type and class of each object of the *)
(* path, the slot that leads to the next one, and whether an assignment to *)
(* that slot has been recorded since (checked).  Its active element is the *)
(* one whose assignments are being watched for.  The hidden classes of a   *)
(* class form a chain of struct definitions; each says which slots its     *)
(* instances keep line numbers for, and one is active.                     *)
(***************************************************************************)
EXTENDS Naturals, SequencesExt

(* What a link remembers of an object; cls means something for structs. *)
Structs == {"struct_instance", "struct_instance_with_rec"}

StructDefEqp(d, e) == d.type \in Structs /\ e.type \in Structs /\ d.cls = e.cls

(* Classes are compared only when the types differ. *)
SameKind(d, e) == d.type = e.type \/ StructDefEqp(d, e)

(* compare_traced_objs_and_obj_link: a path is the kinds of its objects    *)
(* and the slots between them.  The slot of the last one is not looked at. *)
MatchesLink(kinds, fields, link) ==
    /\ kinds # <<>>
    /\ Len(kinds) = Len(link.data)
    /\ \A i \in DOMAIN fields : fields[i] = link.data[i].slot
    /\ \A i \in DOMAIN kinds : SameKind(kinds[i], link.data[i])

(* find_the_obj_link: the first link that matches, or 0. *)
FindLink(kinds, fields, links) ==
    SelectInSeq(links, LAMBDA l : MatchesLink(kinds, fields, l))

(* A link made from a path, all of it still to be watched. *)
NewLink(kinds, fields) ==
    [active |-> 1,
     data |-> [i \in DOMAIN kinds |->
                 [type |-> kinds[i].type, cls |-> kinds[i].cls, checked |-> FALSE,
                  slot |-> IF i \in DOMAIN fields THEN fields[i] ELSE 0]]]

Watched(link) == link.active < Len(link.data)
ActiveElement(link) == link.data[link.active]

(* is_focusing_ref_pattern: the first link whose active element and the    *)
(* one after it have the kinds of the two objects of an assignment.        *)
Focuses(link, d, slot, e) ==
    /\ Watched(link)
    /\ slot = ActiveElement(link).slot
    /\ SameKind(d, ActiveElement(link))
    /\ SameKind(e, link.data[link.active + 1])

FocusLink(links, d, slot, e) == SelectInSeq(links, LAMBDA l : Focuses(l, d, slot, e))

(* Faulty variants of the next definition: the active element is not asked *)
(* whether it was recorded; the end of the link is not looked for.         *)
AdvanceUnchecked(link) ==
    IF Watched(link) THEN [link EXCEPT !.active = @ + 1] ELSE link
AdvancePastEnd(link) ==
    IF ActiveElement(link).checked \/ ~Watched(link)
    THEN [link EXCEPT !.active = @ + 1] ELSE link

(* try_update_obj_link_active_info *)
Advance(link) ==
    IF Watched(link) /\ ActiveElement(link).checked
    THEN [link EXCEPT !.active = @ + 1]
    ELSE link

(* The slot that each link waits for in the instances of a class, if any.  *)
SlotsWaited(links, cls) ==
    [i \in DOMAIN links |->
        IF /\ Watched(links[i])
           /\ ActiveElement(links[i]).type \in Structs
           /\ ActiveElement(links[i]).cls = cls
        THEN <<ActiveElement(links[i]).slot>>
        ELSE <<>>]

(* The slots of a class that the watched links are active on, in the order *)
(* of the links: record_slot_idx of the class in try_update_all_struct_defs.*)
WantedSlots(links, cls) ==
    FoldLeft(LAMBDA slots, new :
                IF ToSet(new) \subseteq ToSet(slots) THEN slots ELSE slots \o new,
             <<>>, SlotsWaited(links, cls))

-----------------------------------------------------------------------------
(* The chain of the struct definitions of a class, from the first one      *)
(* (define_struct) on.                                                     *)

FirstDef == [slots |-> <<>>, active |-> TRUE]
ActiveDef(chain) == SelectInSeq(chain, LAMBDA d : d.active)

(* has_same_elementsp is an equality of sequences.  The loop over the      *)
(* chain stops at the definition that has no next: it looks at all of them *)
(* but the last.                                                           *)
FindDef(chain, slots) == SelectInSeq(Front(chain), LAMBDA d : d.slots = slots)

(* Faulty variants of the next definition: the definition that was active  *)
(* stays so; a new one does not become active.                             *)
UpdateChainBoth(chain, slots) ==
    LET found == FindDef(chain, slots)
    IN  IF found # 0 THEN [chain EXCEPT ![found].active = TRUE]
        ELSE Append(chain, [slots |-> slots, active |-> TRUE])

UpdateChainIdle(chain, slots) ==
    IF FindDef(chain, slots) # 0 THEN chain
    ELSE Append(chain, [slots |-> slots, active |-> FALSE])

UpdateChain(chain, slots) ==
    LET found == FindDef(chain, slots)
        cleared == [chain EXCEPT ![ActiveDef(chain)].active = FALSE]
    IN  IF found # 0 THEN [cleared EXCEPT ![found].active = TRUE]
        ELSE Append(cleared, [slots |-> slots, active |-> TRUE])
=============================================================================
