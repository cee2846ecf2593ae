------------------------------ MODULE Doacross ------------------------------
(***************************************************************************)
(* Doacross loops (ordered.c): the iterations of a loop nest, of which the *)
(* outermost loop is shared out, wait for earlier ones ("sink") and say    *)
(* when they are past the point others wait for ("source").                *)
(*                                                                         *)
(* Progress is kept in an array.  An entry belongs to a thread (static),   *)
(* a chunk (dynamic) or an iteration of the outermost loop (guided), whose *)
(* iterations are run in order, and holds one more than the last iteration *)
(* that was posted: as one word if the bits of the counts fit in it,       *)
(* otherwise as a word for each loop, written from the last to the first   *)
(* and read from the first to the last, without a lock.                    *)
(*                                                                         *)
(*   "take"   asks for a block of the outermost loop, "over" got none      *)
(*   "wait"   in GOMP_doacross_wait for sink number s                      *)
(*   "body"   past the waits of an iteration                               *)
(*   "post"   in GOMP_doacross_post                                        *)
(***************************************************************************)
EXTENDS Integers, Sequences

LOCAL INSTANCE SequencesExt

CONSTANTS NThreads,
          WordBits,   \* of an unsigned long
          Nests       \* records sched, chunk, counts, sinks (sequence of offsets)

VARIABLES nest,
          next,       \* ws->next, or the trips of each thread (static)
          array,      \* doacross->array
          posted,     \* iterations past their source point
          run         \* the threads

doaVars == <<nest, next, array, posted, run>>

Crew == 0 .. NThreads - 1
Dims == DOMAIN nest.counts
Count == nest.counts[1]
-----------------------------------------------------------------------------
(* gomp_doacross_init                                                      *)
Bits(c) == IF c = 1 THEN 1 ELSE CHOOSE b \in 1 .. WordBits + 1 : 2 ^ (b - 1) < c /\ c <= 2 ^ b

(* How far the index of loop i is shifted; 0 for all bits.                 *)
Shift(i) == FoldLeft(LAMBDA n, c : n + Bits(c), 0, SubSeq(nest.counts, i + 1, Len(nest.counts)))
Flattened == Shift(0) <= WordBits

NumEnts ==
  CASE nest.sched = "STATIC" -> NThreads
    [] nest.sched = "GUIDED" -> Count
    [] nest.sched = "DYNAMIC" -> (Count - 1) \div nest.chunk + 1

(* The entry of iteration it, whoever asks; boundary, q and t divide a     *)
(* static loop without a chunk size.                                       *)
Owner(first) ==
  LET q == Count \div NThreads
      t == Count % NThreads
      boundary == t * (q + 1)
  IN CASE nest.chunk # 0 -> (first \div nest.chunk) % NThreads
       [] nest.chunk = 0 /\ first < boundary -> first \div (q + 1)
       [] OTHER -> (first - boundary) \div q + t

WaitEnt(first) ==
  CASE nest.sched = "STATIC" -> Owner(first)
    [] nest.sched = "GUIDED" -> first
    [] nest.sched = "DYNAMIC" -> first \div nest.chunk

PostEnt(t, first) ==
  CASE nest.sched = "STATIC" -> t
    [] nest.sched = "GUIDED" -> first
    [] nest.sched = "DYNAMIC" -> first \div nest.chunk

(* An iteration in one word.                                               *)
Flat(it) == FoldLeft(LAMBDA n, i : n + it[i] * 2 ^ Shift(i), 0, [i \in Dims |-> i])
-----------------------------------------------------------------------------
Idle == [pc |-> "take", at |-> <<>>, last |-> 0, s |-> 1, i |-> 0]

DoaInit ==
  /\ nest \in Nests
  /\ next = IF nest.sched = "STATIC" THEN [t \in Crew |-> 0] ELSE 0
  /\ array = [e \in 0 .. NumEnts - 1 |-> IF Flattened THEN 0 ELSE [i \in Dims |-> 0]]
  /\ posted = {}
  /\ run = [t \in Crew |-> Idle]

Goto(t, R) == run' = [run EXCEPT ![t] = R]

(* The first iteration of the block lo .. hi - 1 of the outermost loop.    *)
Block(t, lo, hi) ==
  Goto(t, IF lo < hi THEN [pc |-> "wait", at |-> [i \in Dims |-> IF i = 1 THEN lo ELSE 0],
                           last |-> hi - 1, s |-> 1, i |-> 1]
          ELSE [Idle EXCEPT !.pc = "over"])

(* gomp_iter_static_next: one block without a chunk size, else every       *)
(* NThreads-th chunk.                                                      *)
TakeStatic(t) ==
  LET q == Count \div NThreads
      r == Count % NThreads
      lo == IF nest.chunk = 0 THEN q * t + (IF t < r THEN t ELSE r)
            ELSE (next[t] * NThreads + t) * nest.chunk
      hi == IF nest.chunk = 0 THEN lo + q + (IF t < r THEN 1 ELSE 0) ELSE lo + nest.chunk
  IN /\ run[t].pc = "take" /\ nest.sched = "STATIC"
     /\ IF nest.chunk = 0 /\ next[t] > 0 THEN Block(t, 0, 0)
        ELSE Block(t, lo, IF hi < Count THEN hi ELSE Count)
     /\ next' = [next EXCEPT ![t] = @ + 1]
     /\ UNCHANGED <<nest, array, posted>>

(* gomp_iter_dynamic_next and gomp_iter_guided_next                        *)
TakeNext(t) ==
  LET n == Count - next
      q == (n + NThreads - 1) \div NThreads
      size == IF nest.sched = "GUIDED" /\ q > nest.chunk THEN q ELSE nest.chunk
      hi == IF size < n THEN next + size ELSE Count
  IN /\ run[t].pc = "take" /\ nest.sched # "STATIC"
     /\ Block(t, next, hi)
     /\ next' = hi
     /\ UNCHANGED <<nest, array, posted>>

Sink(t) == [i \in Dims |-> run[t].at[i] + nest.sinks[run[t].s][i]]
InNest(it) == \A i \in Dims : it[i] \in 0 .. nest.counts[i] - 1

Waited(R) == [R EXCEPT !.s = @ + 1, !.i = 1]

(* The compiler asks only for sinks that are iterations.                   *)
NoSink(t) ==
  /\ run[t].pc = "wait"
  /\ IF run[t].s > Len(nest.sinks) THEN Goto(t, [run[t] EXCEPT !.pc = "body"])
     ELSE ~InNest(Sink(t)) /\ Goto(t, Waited(run[t]))
  /\ UNCHANGED <<nest, next, array, posted>>

Waits(t) == run[t].pc = "wait" /\ run[t].s <= Len(nest.sinks) /\ InNest(Sink(t))

(* GOMP_doacross_wait, flattened: doacross_spin.                           *)
WaitFlat(t) ==
  /\ Waits(t) /\ Flattened
  /\ Flat(Sink(t)) < array[WaitEnt(Sink(t)[1])]
  /\ Goto(t, Waited(run[t]))
  /\ UNCHANGED <<nest, next, array, posted>>

Compare(this, cur) == IF this < cur THEN "past" ELSE IF this > cur THEN "before" ELSE "same"

(* One word of GOMP_doacross_wait when it is not; from the first again     *)
(* while the iteration is ahead of the entry.                              *)
WaitWord(t) ==
  LET i == run[t].i
      c == Compare(Sink(t)[i] + 1, array[WaitEnt(Sink(t)[1])][i])
  IN /\ Waits(t) /\ ~Flattened
     /\ Goto(t, IF c = "past" \/ (c = "same" /\ i = Len(nest.counts)) THEN Waited(run[t])
                ELSE [run[t] EXCEPT !.i = IF c = "same" THEN i + 1 ELSE 1])
     /\ UNCHANGED <<nest, next, array, posted>>

(* The body, up to the source point.                                       *)
Body(t) ==
  /\ run[t].pc = "body"
  /\ posted' = posted \cup {run[t].at}
  /\ Goto(t, [run[t] EXCEPT !.pc = "post", !.i = Len(nest.counts)])
  /\ UNCHANGED <<nest, next, array>>

(* The iteration after R.at in the nest.                                   *)
Following(R) ==
  LET n == Len(R.at)
      carry == {i \in 2 .. n : \A j \in i .. n : R.at[j] = nest.counts[j] - 1}
      d == IF carry = {} THEN n ELSE Min(carry) - 1
  IN [i \in Dims |-> IF i < d THEN R.at[i] ELSE IF i = d THEN R.at[i] + 1 ELSE 0]

AfterPost(R) ==
  LET it == Following(R)
  IN IF it[1] > R.last THEN Idle ELSE [R EXCEPT !.pc = "wait", !.at = it, !.s = 1, !.i = 1]

(* GOMP_doacross_post, flattened.                                          *)
PostFlat(t) ==
  /\ run[t].pc = "post" /\ Flattened
  /\ array' = [array EXCEPT ![PostEnt(t, run[t].at[1])] = (Flat(run[t].at) + 1) % 2 ^ WordBits]
  /\ Goto(t, AfterPost(run[t]))
  /\ UNCHANGED <<nest, next, posted>>

MutPostOrder(i) == Len(nest.counts) + 1 - i
PostOrder(i) == i

(* One word of it when it is not, the last loop first.                     *)
PostWord(t) ==
  LET i == PostOrder(run[t].i)
  IN /\ run[t].pc = "post" /\ ~Flattened
     /\ array' = [array EXCEPT ![PostEnt(t, run[t].at[1])][i] = run[t].at[i] + 1]
     /\ Goto(t, IF run[t].i = 1 THEN AfterPost(run[t]) ELSE [run[t] EXCEPT !.i = @ - 1])
     /\ UNCHANGED <<nest, next, posted>>

DoaStep(t) == TakeStatic(t) \/ TakeNext(t) \/ NoSink(t) \/ WaitFlat(t) \/ WaitWord(t)
              \/ Body(t) \/ PostFlat(t) \/ PostWord(t)

DoaFinished == \A t \in Crew : run[t].pc = "over"

DoaNext == (\E t \in Crew : DoaStep(t)) \/ (DoaFinished /\ UNCHANGED doaVars)

DoaFairness == \A t \in Crew : WF_doaVars(DoaStep(t))
-----------------------------------------------------------------------------
(* What an iteration waits for is past its source point when the waits are *)
(* over, although the words of an entry change while they are read.        *)
SinksPosted ==
  \A t \in Crew : run[t].pc = "body" =>
    \A s \in DOMAIN nest.sinks :
      LET it == [i \in Dims |-> run[t].at[i] + nest.sinks[s][i]]
      IN InNest(it) => it \in posted
=============================================================================
