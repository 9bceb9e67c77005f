---------------------------- MODULE MultipartPut ----------------------------
(***************************************************************************)
(* putMultipartFile (frontend/src/api/files.ts): the parts of a file are   *)
(* put by a few workers that share a cursor, each part with some attempts. *)
(* The first worker to fail fails the upload; the others are not told, and *)
(* go on.                                                                  *)
(***************************************************************************)
EXTENDS Integers, Sequences, FiniteSets, SequencesExt, FiniteSetsExt

CONSTANTS
  Parts,       \* number of parts
  Workers,     \* MULTIPART_CONCURRENCY
  Attempts     \* MULTIPART_ATTEMPTS

ASSUME PutAssumption == {Parts, Workers, Attempts} \subseteq Nat \ {0}

VARIABLE mp    \* [on, cursor, worker, loaded, completed, signal, outcome]

W == 1..(IF Workers < Parts THEN Workers ELSE Parts)

(* A worker: idle between parts, putting or waiting to retry one, done, or  *)
(* gone with an error.                                                      *)
PutStart(on) ==
  [on |-> on, cursor |-> 0, worker |-> [w \in W |-> [pc |-> "next", part |-> 0, attempt |-> 0]],
   loaded |-> [p \in 1..Parts |-> 0], completed |-> <<>>, signal |-> FALSE, outcome |-> "none"]

(* A sequence with its elements in order.                                   *)
InOrder(s) ==
  CHOOSE t \in {[i \in DOMAIN s |-> s[p[i]]] : p \in Bijection(DOMAIN s, DOMAIN s)} :
    \A i, j \in DOMAIN s : i < j => t[i] <= t[j]

Running == mp.on /\ \E w \in W : mp.worker[w].pc \notin {"done", "dead"}
Set(w, x) == [mp EXCEPT !.worker[w] = x]
Dead(m, w, o) == [m EXCEPT !.worker[w].pc = "dead",
                           !.outcome = IF @ = "none" THEN o ELSE @]

(* Mutant: only the first worker moves the cursor.                          *)
UploadNextLate(w) ==
  /\ mp.on /\ mp.worker[w].pc = "next"
  /\ mp' = IF mp.cursor < Parts
           THEN [Set(w, [pc |-> "put", part |-> mp.cursor + 1, attempt |-> 0])
                   EXCEPT !.cursor = IF w = 1 THEN @ + 1 ELSE @]
           ELSE Set(w, [mp.worker[w] EXCEPT !.pc = "done"])

(* uploadNext: the next part, or none is left.                              *)
UploadNext(w) ==
  /\ mp.on /\ mp.worker[w].pc = "next"
  /\ mp' = IF mp.cursor < Parts
           THEN [Set(w, [pc |-> "put", part |-> mp.cursor + 1, attempt |-> 0])
                   EXCEPT !.cursor = @ + 1]
           ELSE Set(w, [mp.worker[w] EXCEPT !.pc = "done"])

(* Bytes of a part are reported as they go; half of them, here.             *)
PutProgress(w) ==
  LET p == mp.worker[w].part IN
  /\ mp.on /\ mp.worker[w].pc = "put" /\ mp.loaded[p] = 0
  /\ mp' = [mp EXCEPT !.loaded[p] = 1]

PutDone(w) ==
  LET p == mp.worker[w].part IN
  /\ mp.on /\ mp.worker[w].pc = "put" /\ ~mp.signal
  /\ mp' = [mp EXCEPT !.worker[w].pc = "next", !.loaded[p] = 2,
                      !.completed = Append(@, p)]

(* The storage refuses the part or cannot be reached: again, after a delay, *)
(* or the upload fails.                                                     *)
PutFailed(w) ==
  LET x == mp.worker[w] IN
  /\ mp.on /\ x.pc = "put" /\ ~mp.signal
  /\ mp' = IF x.attempt + 1 < Attempts
           THEN [mp EXCEPT !.worker[w].pc = "wait", !.worker[w].attempt = @ + 1,
                           !.loaded[x.part] = 0]
           ELSE Dead(mp, w, "failed")

(* abortableDelay is over.                                                  *)
Retry(w) ==
  /\ mp.on /\ mp.worker[w].pc = "wait" /\ ~mp.signal
  /\ mp' = [mp EXCEPT !.worker[w].pc = "put"]

(* The abort signal reaches a put or a delay.                               *)
PutAborted(w) ==
  /\ mp.on /\ mp.signal /\ mp.worker[w].pc \in {"put", "wait"}
  /\ mp' = Dead(mp, w, "aborted")

(* The card is removed while its parts are under way.                       *)
SignalAbort == /\ mp.on /\ ~mp.signal /\ mp.outcome = "none"
               /\ mp' = [mp EXCEPT !.signal = TRUE]

(* Promise.all: every worker is done.  The parts are sorted.                *)
ConfirmParts ==
  /\ mp.on /\ mp.outcome = "none" /\ \A w \in W : mp.worker[w].pc = "done"
  /\ mp' = [mp EXCEPT !.outcome = "ok", !.completed = InOrder(@)]

PutStep(w) == \/ UploadNext(w) \/ PutProgress(w) \/ PutDone(w) \/ PutFailed(w)
              \/ Retry(w) \/ PutAborted(w)
PutNext == (\E w \in W : PutStep(w)) \/ SignalAbort \/ ConfirmParts
PutFairness == /\ \A w \in W : WF_mp(\/ UploadNext(w) \/ PutDone(w) \/ PutFailed(w)
                                       \/ Retry(w) \/ PutAborted(w))
               /\ WF_mp(ConfirmParts)

-----------------------------------------------------------------------------
PutTypeOK ==
  /\ mp.on \in BOOLEAN /\ mp.cursor \in 0..Parts /\ mp.signal \in BOOLEAN
  /\ mp.worker \in [W -> [pc : {"next", "put", "wait", "done", "dead"}, part : 0..Parts,
                          attempt : 0..(Attempts - 1)]]
  /\ mp.loaded \in [1..Parts -> 0..2] /\ mp.completed \in Seq(1..Parts)
  /\ mp.outcome \in {"none", "ok", "failed", "aborted"}

(* No part is put by two workers, or again after it is complete.            *)
PartsOnce ==
  /\ \A v, w \in W : /\ mp.worker[v].pc \in {"put", "wait"} /\ mp.worker[w].pc \in {"put", "wait"}
                     /\ mp.worker[v].part = mp.worker[w].part
                     => v = w
  /\ \A w \in W : mp.worker[w].pc \in {"put", "wait"} => mp.worker[w].part \notin Range(mp.completed)

(* What is confirmed is every part, once and in order, with all bytes       *)
(* counted: confirm_upload refuses anything else.                           *)
ConfirmedWhole ==
  mp.outcome = "ok" => /\ mp.completed = [i \in 1..Parts |-> i]
                       /\ \A p \in 1..Parts : mp.loaded[p] = 2

(* Whatever the storage does, the upload is decided and its workers end.    *)
PutEnds == mp.on ~> mp.outcome # "none" /\ ~Running
=============================================================================
