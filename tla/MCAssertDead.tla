---------------------------- MODULE MCAssertDead -----------------------------
(***************************************************************************)
(* Small instances of AssertDead for TLC.                                  *)
(***************************************************************************)
EXTENDS AssertDead

CONSTANTS c1, c2, a, A

(* No guard and no property reads the lines that objects keep, but for     *)
(* their type: states that differ in them only behave alike.               *)
WithoutLines ==
    <<[o \in Objs |-> [obj[o] EXCEPT !.site = NoSites, !.recorded = FALSE]],
      locals, links, chains, callInfo, collecting>>

(* Bounds: a struct and a cons, in the heap and along each link, or two    *)
(* structs in a program that has made no conses; or two conses in one that *)
(* has made no structs and assigns no symbols, and calls assert-dead twice.*)
Along(link, types) == {i \in DOMAIN link.data : link.data[i].type \in types}
None(types) == \A l \in ToSet(links) : Along(l, types) = {}

AtMostOne(types) ==
    /\ Cardinality({c \in Cells : obj[c].type \in types}) <= 1
    /\ \A l \in ToSet(links) : Cardinality(Along(l, types)) <= 1

OneOfEach == AtMostOne(Structs) /\ AtMostOne({"cons"}) /\ gcFor = "user"

StructsOnly ==
    /\ None({"cons"}) /\ \A o \in Objs : obj[o].type # "cons" /\ ~obj[o].external
    /\ \A l \in ToSet(links) : \A i \in DOMAIN l.data : l.data[i].slot = 0

ConsesOnly ==
    /\ None(Structs \cup {"symbol"})
    /\ \A c \in Cells : obj[c].type \notin Structs
    /\ \A g \in Symbols : obj[g].ref = NoRefs
    /\ gcFor = "user"

Calls == {ln \in Assertions : callInfo[ln] # "none"}

FewKinds == \/ Calls \subseteq {1} /\ (OneOfEach \/ StructsOnly)
            \/ Calls # {2} /\ ConsesOnly

Interchangeable == Permutations(Cells)
=============================================================================
