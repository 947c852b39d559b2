-------------------------- MODULE AssertDeadHistory --------------------------
(***************************************************************************)
(* AssertDead with two history variables, which no guard reads: what the   *)
(* last step assigned to what, and the call of assert-dead that each cell  *)
(* was given to in its present life.  They are what a reader of a report   *)
(* takes it to be about.                                                   *)
(***************************************************************************)
EXTENDS AssertDead

VARIABLES
    assigned,       \* <<kind of object, slot, kind of value>> of the last step
    assertedAt      \* line of the first call for the cell in this life

hvars == <<vars, assigned, assertedAt>>

(* A struct is known by its class, anything else by its type. *)
KindName(d) == IF d.type \in Structs THEN d.cls ELSE d.type
Assignment(o, s, v) == IF v = NIL THEN {}
                       ELSE {<<KindName(Kind(o)'), s, KindName(Kind(v))>>}

HInit == /\ Init
         /\ assigned = {}
         /\ assertedAt = [c \in Cells |-> 0]

HStore ==
    /\ \/ \E c \in Cells, s \in Slots, v \in Value, ln \in Lines :
            /\ SetField(c, s, v, ln) \/ SetCarCdr(c, s, v, ln)
            /\ assigned' = Assignment(c, s, v)
       \/ \E g \in Symbols, v \in Value, ln \in Lines :
            \/ SetGlobal(g, v, ln) /\ assigned' = Assignment(g, 0, v)
            \/ SetLocal(g, v, ln) /\ assigned' = {}
    /\ UNCHANGED assertedAt

HCreate ==
    \E c \in Cells, ln \in Lines \cup {0} :
      /\ CreateAt(c, ln)
      /\ assigned' = IF ln = 0 THEN {}
                     ELSE UNION {Assignment(c, s, obj'[c].ref[s]) : s \in Slots}
      /\ assertedAt' = [assertedAt EXCEPT ![c] = 0]

HAssert ==
    \E c \in Cells, ln \in Assertions :
      /\ AssertDead(c, ln)
      /\ assertedAt' = IF assertedAt[c] = 0 /\ callInfo[ln] = "none"
                       THEN [assertedAt EXCEPT ![c] = ln] ELSE assertedAt
      /\ assigned' = {}

HOther == Other /\ assigned' = {} /\ UNCHANGED assertedAt

HNext == HStore \/ HCreate \/ HAssert \/ HOther

HSpec == HInit /\ [][HNext]_hvars

-----------------------------------------------------------------------------
(* An alarm is about an object that was asserted dead, in its present      *)
(* life: the program can "assert the object which should be dead"          *)
(* (readme 15).                                                            *)
AlarmDeserved ==
    \A c \in Cells : (obj[c].dead = "has" /\ obj[c].type # "free") =>
                        assertedAt[c] = obj[c].at

(* An element of a link becomes checked when an object of its kind is made *)
(* to refer, by its slot, to one of the kind of the next element: "an obj  *)
(* of this type has had its line number recorded" (slib.c 168).            *)
CheckedTrue ==
    [][\A i \in DOMAIN links : \A k \in 1..(Len(links[i].data) - 1) :
          links'[i].data[k].checked # links[i].data[k].checked =>
             <<KindName(links[i].data[k]), links[i].data[k].slot,
               KindName(links[i].data[k + 1])>> \in assigned']_hvars
=============================================================================
