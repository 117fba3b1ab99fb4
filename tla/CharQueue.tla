----------------------------- MODULE CharQueue ------------------------------
(***************************************************************************)
(* What the console promises of its input: a queue of characters.  A       *)
(* character comes to one of the sources and is handed over once: it is    *)
(* appended to the queue, or lost if the queue is full, or goes to a read  *)
(* that finds the queue empty.  A read takes the others from the front; a  *)
(* flush empties the queue.                                                *)
(***************************************************************************)
EXTENDS Integers, Sequences

CONSTANTS
  Char,       (* the characters                                            *)
  Source,     (* where they come from                                      *)
  Reader,     (* who may read                                              *)
  Capacity    (* how many wait at most                                     *)

VARIABLES
  arriving,   (* what has come and is not handed over, by source           *)
  queue,      (* the characters that wait to be read                       *)
  taken,      (* those that the read in progress has taken, by reader      *)
  flushing    (* the readers whose call is a flush                         *)

vars == <<arriving, queue, taken, flushing>>

Init ==
  /\ arriving = [s \in Source |-> <<>>]
  /\ queue = <<>> /\ taken = [r \in Reader |-> <<>>]
  /\ flushing = {}

Come(s, c) ==
  /\ arriving' = [arriving EXCEPT ![s] = Append(@, c)]
  /\ UNCHANGED <<queue, taken, flushing>>

HandOver(s) ==
  /\ arriving[s] # <<>>
  /\ arriving' = [arriving EXCEPT ![s] = Tail(@)]

Enqueue(s) ==
  /\ HandOver(s)
  /\ Len(queue) < Capacity
  /\ queue' = Append(queue, Head(arriving[s]))
  /\ UNCHANGED <<taken, flushing>>

Lose(s) ==
  /\ HandOver(s)
  /\ Len(queue) = Capacity
  /\ UNCHANGED <<queue, taken, flushing>>

Take(r) ==
  /\ queue # <<>>
  /\ queue' = Tail(queue)
  /\ taken' = [taken EXCEPT ![r] = Append(@, Head(queue))]
  /\ UNCHANGED <<arriving, flushing>>

TakeArriving(r, s) ==
  /\ HandOver(s)
  /\ queue = <<>>
  /\ taken' = [taken EXCEPT ![r] = Append(@, Head(arriving[s]))]
  /\ UNCHANGED <<queue, flushing>>

Flush(r) ==
  /\ r \notin flushing
  /\ queue' = <<>> /\ flushing' = flushing \cup {r}
  /\ UNCHANGED <<arriving, taken>>

(* A read or a flush ends and leaves the queue alone.                      *)
Finish(r) ==
  /\ taken' = [taken EXCEPT ![r] = <<>>] /\ flushing' = flushing \ {r}
  /\ UNCHANGED <<arriving, queue>>

Next ==
  \/ \E s \in Source : Enqueue(s) \/ Lose(s) \/ \E c \in Char : Come(s, c)
  \/ \E s \in Source, r \in Reader : TakeArriving(r, s)
  \/ \E r \in Reader : Take(r) \/ Flush(r) \/ Finish(r)

Spec == Init /\ [][Next]_vars
=============================================================================
