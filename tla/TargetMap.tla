----------------------------- MODULE TargetMap -----------------------------
(***************************************************************************)
(* target.c: the variables that are mapped to a device.                    *)
(*                                                                         *)
(* mem_map, a splay tree of disjoint intervals of host addresses, holds a  *)
(* key for every mapped object.  A key counts the references to it, and    *)
(* lives in the array of the descriptor (tgt) of the construct that mapped *)
(* the object first, next to the device memory; a descriptor counts its    *)
(* keys in the tree, and 1 for its construct while that is open.  Threads  *)
(* nest target data regions, run target regions, and map and unmap objects *)
(* with enter and exit data, each call under the device's lock.            *)
(*                                                                         *)
(* The data are reduced to whether a copy is up to date: a kernel makes    *)
(* the device's copy the newest one, copies pass this on.  The lists of    *)
(* map clauses are inputs; structures, Fortran descriptors, OpenACC and    *)
(* the end of the device are left out.                                     *)
(***************************************************************************)
EXTENDS Integers, SequencesExt

CONSTANTS Thread,
          Cell,       \* host addresses
          Tgt,        \* descriptors, numbers from 1
          Images,     \* sets of declare target variables: [start, end, refcount]
          Programs,   \* what threads may ask for, see Next
          MaxDepth,   \* bound: open constructs of a thread
          MaxDyn,     \* bound: enter data of an object
          NULL

REFCOUNT_INFINITY == 1000
REFCOUNT_LINK == 999

VARIABLES program, mem_map, key, tgt, host,
          thr,        \* [data, the target_data stack, cur, its target region, at]
          fatal       \* gomp_fatal was called

vars == <<program, mem_map, key, tgt, host, thr, fatal>>

State == [mem_map |-> mem_map, key |-> key, tgt |-> tgt, host |-> host, fatal |-> FALSE]
Free == [kind |-> "free", refcount |-> 0, list |-> <<>>]

(* gomp_load_image_to_device has entered the declare target variables;     *)
(* their descriptor is 0.                                                  *)
gomp_load_image(image) ==
  LET order == SetToSeq(image)
  IN [k \in {<<0, i>> : i \in DOMAIN order} |->
        [start |-> order[k[2]].start, end |-> order[k[2]].end, refcount |-> order[k[2]].refcount,
         link |-> NULL, dyn |-> 0, new |-> [c \in Cell |-> TRUE]]]

Init ==
  /\ program \in Programs
  /\ \E image \in Images : key = gomp_load_image(image)
  /\ mem_map = DOMAIN key
  /\ tgt = [t \in Tgt \cup {0} |->
              IF t = 0 THEN [Free EXCEPT !.kind = "image", !.refcount = REFCOUNT_INFINITY] ELSE Free]
  /\ host = [c \in Cell |-> TRUE]
  /\ thr = [h \in Thread |-> [data |-> <<>>, cur |-> NULL, at |-> "host"]]
  /\ fatal = FALSE
-----------------------------------------------------------------------------
Cells(v) == v.start .. v.end - 1

(* splay_compare finds x and y equal.                                      *)
Overlap(x, y) ==
  (x.start = x.end /\ y.start = y.end) \/ (x.end > y.start /\ x.start < y.end)

(* Which of several keys the tree finds does not matter to callers that    *)
(* give up when the key does not cover v.                                  *)
SplayTreeLookup(S, v) ==
  LET found == {k \in S.mem_map : Overlap(v, S.key[k])}
  IN IF found = {} THEN NULL ELSE CHOOSE k \in found : TRUE

gomp_map_0len_lookup(S, v) ==
  SplayTreeLookup(S, IF v.start = v.end THEN [v EXCEPT !.end = @ + 1] ELSE v)

gomp_map_lookup(S, v) ==
  LET n0 == gomp_map_0len_lookup(S, v)
      n1 == SplayTreeLookup(S, [v EXCEPT !.start = @ - 1])
  IN IF v.start # v.end \/ n0 # NULL THEN n0 ELSE IF n1 # NULL THEN n1 ELSE SplayTreeLookup(S, v)

Covers(S, k, v) == S.key[k].start <= v.start /\ S.key[k].end >= v.end

gomp_copy_host2dev(S, k, cells) ==
  [S EXCEPT !.key[k].new = [c \in Cell |-> IF c \in cells THEN S.host[c] ELSE @[c]]]

gomp_copy_dev2host(S, k, cells) ==
  [S EXCEPT !.host = [c \in Cell |-> IF c \in cells THEN S.key[k].new[c] ELSE @[c]]]

CopiesTo(kind) == kind \in {"tofrom", "always"}
CopiesFrom(kind) == kind \in {"tofrom", "always"}

(* tgt->list[i]                                                            *)
Listed(S, t, m, k) ==
  [S EXCEPT !.tgt[t].list =
     Append(@, [key |-> k, cells |-> Cells(m), copy_from |-> CopiesFrom(m.kind),
                always_copy_from |-> m.kind = "always"])]

MutMapVarsExisting(S, t, m, k) ==  \* does not count
  IF Covers(S, k, m) THEN Listed(S, t, m, k) ELSE [S EXCEPT !.fatal = TRUE]

gomp_map_vars_existing(S, t, m, k) ==
  IF ~Covers(S, k, m) THEN [S EXCEPT !.fatal = TRUE]
  ELSE LET copied == IF m.kind = "always" THEN gomp_copy_host2dev(S, k, Cells(m)) ELSE S
           counted == [copied EXCEPT !.key[k].refcount =
                         IF @ = REFCOUNT_INFINITY THEN @ ELSE @ + 1]
       IN Listed(counted, t, m, k)

(* A new key in tgt->array.  It takes the place of the artificial pointer  *)
(* of a declare target link variable.                                      *)
MapNew(S, t, m, link) ==
  LET k == <<t, Cardinality({j \in DOMAIN S.key : j[1] = t}) + 1>>
      added == [S EXCEPT
        !.key = k :> [start |-> m.start, end |-> m.end, refcount |-> 1, link |-> link, dyn |-> 0,
                      new |-> [c \in Cell |-> FALSE]] @@ @,
        !.mem_map = (@ \ {link}) \cup {k},
        !.tgt[t].refcount = @ + 1]
      copied == IF CopiesTo(m.kind) THEN gomp_copy_host2dev(added, k, Cells(m)) ELSE added
  IN Listed(copied, t, m, k)

(* One map clause.  (The code looks all of them up before it enters the    *)
(* first new one, to know how much memory they need, and then once more.)  *)
MapVar(S, t, m) ==
  LET n == IF m.kind = "zero_len" THEN gomp_map_0len_lookup(S, m) ELSE SplayTreeLookup(S, m)
  IN CASE S.fatal -> S
       [] m.kind = "firstprivate" \/ (m.kind = "zero_len" /\ n = NULL) -> Listed(S, t, m, NULL)
       [] n # NULL /\ S.key[n].refcount # REFCOUNT_LINK -> gomp_map_vars_existing(S, t, m, n)
       [] OTHER -> MapNew(S, t, m, n)

(* gomp_map_vars for the map clauses ms of a construct.  The descriptor of *)
(* an enter data that found its object mapped is not needed.               *)
gomp_map_vars(S, t, ms, kind) ==
  LET start == [S EXCEPT !.tgt[t] =
                  [kind |-> kind, refcount |-> IF kind = "enter" THEN 0 ELSE 1, list |-> <<>>]]
      mapped == FoldLeft(LAMBDA R, m : MapVar(R, t, m), start, ms)
  IN IF kind = "enter" /\ mapped.tgt[t].refcount = 0
     THEN [mapped EXCEPT !.tgt[t] = Free] ELSE mapped

(* The descriptor, its array of keys and its device memory are freed.      *)
gomp_unmap_tgt(S, t) ==
  [S EXCEPT !.tgt[t] = Free,
            !.key = Restrict(@, {k \in DOMAIN @ : k[1] # t})]

MutDropTgt(S, t) ==                \* never counts down
  IF S.tgt[t].refcount > 1 THEN S ELSE gomp_unmap_tgt(S, t)

(* One reference less to a descriptor.                                     *)
DropTgt(S, t) ==
  IF S.tgt[t].refcount > 1 THEN [S EXCEPT !.tgt[t].refcount = @ - 1] ELSE gomp_unmap_tgt(S, t)

(* The key leaves the tree; a link variable comes back.                    *)
RemoveKey(S, k) ==
  LET link == S.key[k].link
  IN DropTgt([S EXCEPT !.mem_map = (@ \ {k}) \cup (IF link = NULL THEN {} ELSE {link})], k[1])

MutCopyBack(last, e) == e.always_copy_from

CopyBack(last, e) == (last /\ e.copy_from) \/ e.always_copy_from

UnmapVar(S, e) ==
  IF e.key = NULL THEN S
  ELSE LET n == S.key[e.key].refcount
           last == n = 1
           counted == [S EXCEPT !.key[e.key].refcount =
                         IF n >= 1 /\ n # REFCOUNT_INFINITY THEN n - 1 ELSE n]
           copied == IF CopyBack(last, e)
                     THEN gomp_copy_dev2host(counted, e.key, e.cells) ELSE counted
       IN IF last THEN RemoveKey(copied, e.key) ELSE copied

gomp_unmap_vars(S, t) == DropTgt(FoldLeft(UnmapVar, S, S.tgt[t].list), t)

(* What an exit data leaves of a reference count.                          *)
Left(n, kind) ==
  CASE n = REFCOUNT_INFINITY -> n
    [] n # REFCOUNT_INFINITY /\ kind \in {"delete", "delete_zero_len"} -> 0
    [] OTHER -> IF n > 0 THEN n - 1 ELSE n

(* One clause of an exit data.                                             *)
ExitVar(S, m) ==
  LET k == IF m.kind \in {"zero_len", "delete_zero_len"} THEN gomp_map_0len_lookup(S, m)
                                                        ELSE SplayTreeLookup(S, m)
  IN IF k = NULL THEN S
     ELSE LET left == Left(S.key[k].refcount, m.kind)
              counted == [S EXCEPT !.key[k].refcount = left,
                                   !.key[k].dyn = IF left = 0 \/ @ = 0 THEN 0 ELSE @ - 1]
              copied == IF (m.kind = "from" /\ left = 0) \/ m.kind = "always_from"
                        THEN gomp_copy_dev2host(counted, k, Cells(m)) ELSE counted
          IN IF left = 0 THEN RemoveKey(copied, k) ELSE copied
-----------------------------------------------------------------------------
(* A call ends in S with T for thr, or in gomp_fatal.                      *)
Becomes(S, T) ==
  /\ IF S.fatal THEN fatal' = TRUE /\ UNCHANGED <<mem_map, key, tgt, host, thr>>
     ELSE /\ mem_map' = S.mem_map /\ key' = S.key /\ tgt' = S.tgt /\ host' = S.host
          /\ thr' = T /\ UNCHANGED fatal
  /\ UNCHANGED program

NewTgt == CHOOSE t \in Tgt : tgt[t].kind = "free" /\ \A u \in Tgt : u < t => tgt[u].kind # "free"
Room == \E t \in Tgt : tgt[t].kind = "free"
Depth(h) == Len(thr[h].data)
OnHost(h) == ~fatal /\ thr[h].at = "host"

(* GOMP_target_data: the descriptor goes on the stack of the task.         *)
GOMP_target_data(h, ms) ==
  /\ OnHost(h) /\ Room /\ Depth(h) < MaxDepth
  /\ Becomes(gomp_map_vars(State, NewTgt, ms, "data"), [thr EXCEPT ![h].data = <<NewTgt>> \o @])

GOMP_target_end_data(h) ==
  /\ OnHost(h) /\ thr[h].data # <<>>
  /\ Becomes(gomp_unmap_vars(State, Head(thr[h].data)), [thr EXCEPT ![h].data = Tail(@)])

(* GOMP_target: maps, runs the kernel, unmaps.                             *)
GOMP_target(h, ms) ==
  /\ OnHost(h) /\ Room
  /\ Becomes(gomp_map_vars(State, NewTgt, ms, "target"),
             [thr EXCEPT ![h].cur = NewTgt, ![h].at = "run"])

(* The kernel may write what is mapped for it.                             *)
run_func(h) ==
  /\ ~fatal /\ thr[h].at = "run"
  /\ LET L == IF program.writes THEN ToSet(tgt[thr[h].cur].list) ELSE {}
         written == UNION {e.cells : e \in {x \in L : x.key # NULL}}
     IN /\ key' = [k \in DOMAIN key |->
              [key[k] EXCEPT !.new = [c \in Cell |-> @[c] \/ \E e \in L : e.key = k /\ c \in e.cells]]]
        /\ host' = [c \in Cell |-> host[c] /\ c \notin written]
  /\ thr' = [thr EXCEPT ![h].at = "ran"]
  /\ UNCHANGED <<program, mem_map, tgt, fatal>>

GOMP_target_end(h) ==
  /\ ~fatal /\ thr[h].at = "ran"
  /\ Becomes(gomp_unmap_vars(State, thr[h].cur), [thr EXCEPT ![h].cur = NULL, ![h].at = "host"])

(* GOMP_target_enter_exit_data calls gomp_map_vars for each clause.  The   *)
(* list of its descriptor is never used; dyn counts for the properties.    *)
EnterData(h, m) ==
  LET S == gomp_map_vars(State, NewTgt, <<m>>, "enter")
      k == SplayTreeLookup(S, m)
      counts == k # NULL /\ S.key[k].refcount # REFCOUNT_INFINITY
  IN /\ OnHost(h) /\ Room /\ (counts => S.key[k].dyn < MaxDyn)
     /\ Becomes(IF counts THEN [S EXCEPT !.tgt[NewTgt].list = <<>>, !.key[k].dyn = @ + 1] ELSE S, thr)

ExitData(h, ms) ==
  /\ OnHost(h)
  /\ Becomes(FoldLeft(ExitVar, State, ms), thr)

(* gomp_update                                                             *)
Update(h, m) ==
  /\ OnHost(h)
  /\ LET n == SplayTreeLookup(State, m)
     IN Becomes(CASE n = NULL -> State
                  [] n # NULL /\ ~Covers(State, n, m) -> [State EXCEPT !.fatal = TRUE]
                  [] OTHER -> IF m.kind = "to" THEN gomp_copy_host2dev(State, n, Cells(m))
                                               ELSE gomp_copy_dev2host(State, n, Cells(m)), thr)

omp_target_associate_ptr(h, v) ==
  /\ OnHost(h) /\ Room /\ gomp_map_lookup(State, v) = NULL
  /\ key' = <<NewTgt, 1>> :> [start |-> v.start, end |-> v.end, refcount |-> REFCOUNT_INFINITY,
                              link |-> NULL, dyn |-> 0, new |-> [c \in Cell |-> FALSE]] @@ key
  /\ mem_map' = mem_map \cup {<<NewTgt, 1>>}
  /\ tgt' = [tgt EXCEPT ![NewTgt] = [kind |-> "associate", refcount |-> 1, list |-> <<>>]]
  /\ UNCHANGED <<program, host, thr, fatal>>

(* Only for a descriptor without device memory and list of its own.        *)
omp_target_disassociate_ptr(h, v) ==
  /\ OnHost(h)
  /\ LET n == gomp_map_lookup(State, [start |-> v.start, end |-> v.start])
     IN /\ n # NULL /\ key[n].start = v.start /\ key[n].refcount = REFCOUNT_INFINITY
        /\ tgt[n[1]].kind \in {"associate", "image"} /\ tgt[n[1]].refcount = 1
        /\ Becomes(gomp_unmap_tgt([State EXCEPT !.mem_map = @ \ {n}], n[1]), thr)

Fatal == fatal /\ UNCHANGED vars

Finish(h) == GOMP_target_end_data(h) \/ run_func(h) \/ GOMP_target_end(h)

Next ==
  \/ \E h \in Thread :
       \/ \E ms \in program.maps : GOMP_target_data(h, ms) \/ GOMP_target(h, ms)
       \/ Finish(h)
       \/ \E m \in program.enters : EnterData(h, m)
       \/ \E ms \in program.exits : ExitData(h, ms)
       \/ \E m \in program.updates : Update(h, m)
       \/ \E v \in program.associates :
            omp_target_associate_ptr(h, v) \/ omp_target_disassociate_ptr(h, v)
  \/ Fatal

Spec == Init /\ [][Next]_vars
-----------------------------------------------------------------------------
(* The descriptors of the constructs that threads are in.                  *)
Open == UNION {ToSet(thr[h].data) \cup ({thr[h].cur} \ {NULL}) : h \in Thread}

(* How often their lists name k.                                           *)
OpenRefs(k) ==
  MapThenSumSet(LAMBDA t : Cardinality({i \in DOMAIN tgt[t].list : tgt[t].list[i].key = k}), Open)

(* Neither the tree nor an open construct refers to a key or a descriptor  *)
(* that was freed, and while a construct is open its objects stay mapped,  *)
(* at the same place, whatever other threads map and unmap.  The intervals *)
(* of the tree are disjoint.                                               *)
StaysMapped ==
  /\ mem_map \subseteq DOMAIN key
  /\ \A j, k \in mem_map : j # k => ~Overlap(key[j], key[k])
  /\ \A t \in Open : tgt[t].kind \in {"data", "target"} /\
       \A i \in DOMAIN tgt[t].list : tgt[t].list[i].key \in mem_map \cup {NULL}
  /\ \A k \in mem_map : key[k].link # NULL => key[k].link \in DOMAIN key \ mem_map

(* The two reference counts are what they count, so that nothing is freed  *)
(* early or never: a key's are the open constructs and the enter data that *)
(* name it, a descriptor's are its keys in the tree and its construct.     *)
(* Those of declare target and associated variables are never counted.     *)
RefcountsExact ==
  /\ \A k \in DOMAIN key : tgt[k[1]].kind \in {"image", "associate"} <=>
       key[k].refcount \in {REFCOUNT_INFINITY, REFCOUNT_LINK}
  /\ \A k \in mem_map :
       key[k].refcount \notin {REFCOUNT_INFINITY, REFCOUNT_LINK} =>
         key[k].refcount = OpenRefs(k) + key[k].dyn /\ key[k].refcount > 0
  /\ \A t \in Tgt :
       LET n == Cardinality({k \in mem_map : k[1] = t}) + (IF t \in Open THEN 1 ELSE 0)
       IN tgt[t].refcount = n /\ (tgt[t].kind = "free" <=> n = 0)

(* For a program that maps what it writes tofrom the two copies are like   *)
(* one variable: while it is mapped the device has the newest value, and   *)
(* afterwards the host.                                                    *)
Coherent ==
  program.writes =>
    \A c \in Cell :
      LET K == {k \in mem_map : c \in Cells(key[k]) /\ key[k].refcount # REFCOUNT_LINK}
      IN IF K = {} THEN host[c] ELSE \A k \in K : key[k].new[c]
=============================================================================
