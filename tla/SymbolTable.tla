----------------------------- MODULE SymbolTable ------------------------------
(***************************************************************************)
(* gen_intern: the symbols, the buckets of obarray, the list oblistvar.    *)
(* The lists are never changed in place, so that a C variable that holds   *)
(* one holds what the list was when it was read.                           *)
(***************************************************************************)
EXTENDS Calls, FiniteSets, Functions

CONSTANTS
    Names,          \* the names the program uses
    Bucket          \* the hash of each name

Buckets == {Bucket[n] : n \in Names}

VARIABLES
    pname,          \* the names of the symbols made, in the order made
    obarray,        \* the symbols in each bucket
    oblistvar,      \* the list of all symbols
    tkbuffer,       \* the reader's buffer: the name last put there
    known,          \* history: the symbols gen_intern has returned
    overtaken       \* history: the buckets stored back stale

symbolVars == <<pname, obarray, oblistvar, tkbuffer, known, overtaken>>

Symbols == 1..Len(pname)

SymbolInit ==
    /\ pname = <<>> /\ oblistvar = <<>>
    /\ obarray = [b \in Buckets |-> <<>>]
    /\ tkbuffer \in Names
    /\ known = {} /\ overtaken = {}

Matching(name, list) == {i \in DOMAIN list : pname[list[i]] = name}

(* Faulty: only the head of the bucket is compared with the name. *)
InternHeadOnly(name) ==
    LET sl == obarray[Bucket[name]] IN
    /\ tkbuffer' = name
    /\ IF sl # <<>> /\ pname[sl[1]] = name
       THEN Evaluating /\ known' = known \cup {sl[1]} /\ UNCHANGED calls
       ELSE Begin([proc |-> "gen_intern", at |-> "symcons", gc |-> FALSE,
                   name |-> name, sl |-> sl]) /\ UNCHANGED known
    /\ UNCHANGED <<pname, obarray, oblistvar, overtaken>>

(* rintern(tkbuffer), by the reader, symbolconc and fast_read: the bucket  *)
(* is read and searched; when the name is new it is copied, so that the    *)
(* buffer may be used again, and a symbol allocated.                       *)
Intern(name) ==
    LET sl == obarray[Bucket[name]] IN
    /\ tkbuffer' = name
    /\ \/ \E i \in Matching(name, sl) :
            Evaluating /\ known' = known \cup {sl[i]} /\ UNCHANGED calls
       \/ /\ Matching(name, sl) = {}
          /\ Begin([proc |-> "gen_intern", at |-> "symcons", gc |-> FALSE,
                    name |-> name, sl |-> sl])
          /\ UNCHANGED known
    /\ UNCHANGED <<pname, obarray, oblistvar, overtaken>>

(* Faulty: the name is taken from the buffer when the cell is there. *)
MakeSymbolLate ==
    /\ Allocates("gen_intern", "symcons")
    /\ pname' = Append(pname, tkbuffer)
    /\ Continue([proc |-> "gen_intern", at |-> "bucket", gc |-> FALSE,
                 name |-> Innermost.name, sl |-> Innermost.sl, sym |-> Len(pname')])
    /\ UNCHANGED <<obarray, oblistvar, tkbuffer, known, overtaken>>

(* sym = symcons(cname, unbound_marker) *)
MakeSymbol ==
    /\ Allocates("gen_intern", "symcons")
    /\ pname' = Append(pname, Innermost.name)
    /\ Continue([proc |-> "gen_intern", at |-> "bucket", gc |-> FALSE,
                 name |-> Innermost.name, sl |-> Innermost.sl, sym |-> Len(pname')])
    /\ UNCHANGED <<obarray, oblistvar, tkbuffer, known, overtaken>>

(* obarray[hash] = cons(sym, sl); the argument oblistvar of the next cons  *)
(* is read before that allocates.                                          *)
StoreBucket ==
    /\ Allocates("gen_intern", "bucket")
    /\ LET b == Bucket[Innermost.name] IN
       /\ obarray' = [obarray EXCEPT ![b] = <<Innermost.sym>> \o Innermost.sl]
       /\ overtaken' = IF obarray[b] = Innermost.sl THEN overtaken
                       ELSE overtaken \cup {b}
    /\ Continue([proc |-> "gen_intern", at |-> "oblist", gc |-> FALSE,
                 sym |-> Innermost.sym, oblist |-> oblistvar])
    /\ UNCHANGED <<pname, oblistvar, tkbuffer, known>>

(* oblistvar = cons(sym, oblistvar) *)
StoreOblist ==
    /\ Allocates("gen_intern", "oblist")
    /\ oblistvar' = <<Innermost.sym>> \o Innermost.oblist
    /\ known' = known \cup {Innermost.sym}
    /\ Finish
    /\ UNCHANGED <<pname, obarray, tkbuffer, overtaken>>

SymbolNext == \/ \E name \in Names : Intern(name)
              \/ MakeSymbol \/ StoreBucket \/ StoreOblist

-----------------------------------------------------------------------------
(* Symbols are told apart by eq: two symbols that gen_intern has returned  *)
(* have two names, whatever errors, collections and re-entries came in the *)
(* middle, as long as no call of it was overtaken in their bucket by the   *)
(* after-gc form (gen_intern, obarray).                                    *)
OneSymbolPerName ==
    \A s, t \in known :
       (pname[s] = pname[t] /\ Bucket[pname[s]] \notin overtaken) => s = t

(* A symbol is in the bucket its own name hashes to, once, whatever was    *)
(* read into tkbuffer while it was made: it is found again by its name.    *)
InOwnBucket ==
    \A b \in Buckets :
       /\ \A s \in Range(obarray[b]) : Bucket[pname[s]] = b
       /\ Cardinality(Range(obarray[b])) = Len(obarray[b])
===============================================================================
