-------------------------- MODULE ChatClientProofs --------------------------
(***************************************************************************)
(* Proofs about ChatClient.  The draft on the screen is the events of one  *)
(* run, each once and in order, because whatever makes a run the active one*)
(* also restarts the stream, or is noted as lag: while stream and active   *)
(* run are the same, the stream is exactly where the draft ends (InStep).  *)
(* Nothing is typed by the bounds but by the runs there are, so that what a*)
(* request remembers names a run that exists.                              *)
(***************************************************************************)
EXTENDS ChatClient, TLAPS

-----------------------------------------------------------------------------
(* The invariant.                                                           *)

SomeConv == Convs \cup {None}
ActiveStatus == Ended \cup {"none", "started", "streaming", "cancelling"}
RunRows == [conv : Convs, status : Ended \cup {"active"}, seq : 0..MaxSeq, stop : BOOLEAN]

(* What a tab holds when n runs exist.                                      *)
Details(n) == [conv : SomeConv, turns : Seq(1..n), done : SUBSET (1..n),
               status : {"idle", "loading", "ready", "forbidden"}]
Actives(n) == [run : 0..n, conv : SomeConv, seq : 0..MaxSeq, draft : Seq((0..n) \X (0..MaxSeq)),
               status : ActiveStatus]
Submissions == [busy : BOOLEAN, conv : SomeConv]
Stores(n) == [sel : SomeConv, detail : Details(n), active : Actives(n), pending : Submissions]
Streams(n) == [run : 0..n, conv : SomeConv, pos : 0..MaxSeq]
AnswersAt(n) == [turns : Seq(1..n), done : SUBSET (1..n), run : 0..n, conv : SomeConv,
                 status : Ended \cup {"active", "none"}, seq : 0..MaxSeq]
TasksAt(n) == [id : Nat, kind : Kinds, conv : SomeConv, run : 0..n, step : {"sent", "ok", "refused", "lost"},
               next : SomeConv, a : AnswersAt(n)]

(* A recovery names its run, and a message that was accepted has one.       *)
TaskOK(n, t) == /\ t \in TasksAt(n)
                /\ t.kind = "recover" => t.run # 0
                /\ t.kind \in {"create", "send"} /\ t.step = "ok" => t.a.run # 0

(* The draft a is of its own run, and ends where the stream s of that run   *)
(* stands, unless o says that a run was restored behind its stream.         *)
Own(a) == \A k \in DOMAIN a.draft : a.draft[k][1] = a.run
Once(a) == Len(a.draft) = a.seq /\ \A k \in DOMAIN a.draft : a.draft[k][2] = k
InStep(a, s) == s.run = a.run => s.pos = a.seq
Idle(a) == a.run = 0 => a.seq = 0
DraftOK(a, s, o) == Own(a) /\ Idle(a) /\ ("lag" \in o \/ (Once(a) /\ InStep(a, s)))

(* A store and a stream that n runs can have led to.                        *)
Fits(n, s, str, o) == /\ s \in Stores(n) /\ str \in Streams(n)
                      /\ str.run = 0 => str.pos = 0
                      /\ DraftOK(s.active, str, o)

ServerInv == /\ phase \in [Convs -> {"unborn", "alive", "deleted"}]
             /\ runs \in Seq(RunRows) /\ 1 <= Len(runs) /\ Len(runs) <= MaxRuns
             /\ thread \in [Convs -> Seq(1..Len(runs))]
             /\ \A c \in Convs : Len(thread[c]) <= Len(runs)
PageInv == /\ url \in SomeConv /\ seen \in [ready : BOOLEAN, url : SomeConv, sel : SomeConv]
           /\ asked \in 0..MaxAsked /\ faults \in 0..MaxFaults /\ odd \subseteq {"race", "lag"}
StoreInv == Fits(Len(runs), st, stream, odd)
TasksInv == \A t \in tasks : TaskOK(Len(runs), t)
ChatInv == ServerInv /\ PageInv /\ StoreInv /\ TasksInv

-----------------------------------------------------------------------------
(* What is typed stays typed as runs are added.                             *)
USE ChatAssumption

LEMMA SeqsGrow == ASSUME NEW S, NEW T, S \subseteq T PROVE Seq(S) \subseteq Seq(T)
  OBVIOUS

LEMMA TypesGrow ==
  ASSUME NEW m \in Nat, NEW n \in Nat, m <= n
  PROVE  /\ 0..m \subseteq 0..n /\ 1..m \subseteq 1..n /\ Seq(1..m) \subseteq Seq(1..n)
         /\ Stores(m) \subseteq Stores(n) /\ Streams(m) \subseteq Streams(n)
         /\ AnswersAt(m) \subseteq AnswersAt(n) /\ TasksAt(m) \subseteq TasksAt(n)
<1>1. 0..m \subseteq 0..n /\ 1..m \subseteq 1..n
  OBVIOUS
<1>2. Seq(1..m) \subseteq Seq(1..n) /\ Seq((0..m) \X (0..MaxSeq)) \subseteq Seq((0..n) \X (0..MaxSeq))
  BY <1>1, SeqsGrow
<1>3. Details(m) \subseteq Details(n)
  BY <1>1, <1>2 DEF Details
<1>4. Actives(m) \subseteq Actives(n)
  BY <1>1, <1>2 DEF Actives
<1>5. Stores(m) \subseteq Stores(n)
  BY <1>3, <1>4 DEF Stores
<1>6. AnswersAt(m) \subseteq AnswersAt(n) /\ Streams(m) \subseteq Streams(n)
  BY <1>1, <1>2 DEF AnswersAt, Streams
<1>7. TasksAt(m) \subseteq TasksAt(n)
  BY <1>1, <1>6 DEF TasksAt
<1> QED
  BY <1>1, <1>2, <1>5, <1>6, <1>7

LEMMA TaskGrows ==
  ASSUME NEW m \in Nat, NEW n \in Nat, m <= n, NEW t, TaskOK(m, t)
  PROVE  TaskOK(n, t)
  BY TypesGrow DEF TaskOK

-----------------------------------------------------------------------------
(* The reducers.                                                            *)

(* r is s but for what does not concern the events of the active run.       *)
SameEvents(a, b) == b.run = a.run /\ b.seq = a.seq /\ b.draft = a.draft
Quiet(n, s, r) == r \in Stores(n) /\ SameEvents(s.active, r.active)

LEMMA NoneTyped ==
  ASSUME NEW n \in Nat
  PROVE  /\ NoAnswer \in AnswersAt(n) /\ NoDetail \in Details(n) /\ NoRun \in Actives(n)
         /\ NoStream \in Streams(n) /\ NoSubmission \in Submissions
<1>1. <<>> \in Seq(1..n) /\ <<>> \in Seq((0..n) \X (0..MaxSeq)) /\ 0 \in 0..n /\ 0 \in 0..MaxSeq /\ None \in SomeConv
  BY DEF SomeConv
<1>2. NoAnswer \in AnswersAt(n)
  BY <1>1 DEF NoAnswer, AnswersAt
<1>3. NoDetail \in Details(n)
  BY <1>1 DEF NoDetail, Details
<1>4. NoRun \in Actives(n)
  BY <1>1 DEF NoRun, Actives, ActiveStatus
<1> QED
  BY <1>1, <1>2, <1>3, <1>4 DEF NoStream, Streams, NoSubmission, Submissions

LEMMA Parts ==
  ASSUME NEW n \in Nat, NEW s \in Stores(n)
  PROVE  /\ s.sel \in SomeConv /\ s.detail \in Details(n) /\ s.active \in Actives(n) /\ s.pending \in Submissions
         /\ s.active.run \in 0..n /\ s.active.seq \in 0..MaxSeq /\ s.active.draft \in Seq((0..n) \X (0..MaxSeq))
         /\ s.detail.turns \in Seq(1..n)
  BY DEF Stores, Details, Actives

LEMMA SelectedQuiet ==
  ASSUME NEW n \in Nat, NEW s \in Stores(n), NEW c \in SomeConv
  PROVE  Quiet(n, s, Selected(s, c))
  BY DEF Quiet, SameEvents, Selected, Stores

LEMMA DetailQuiet ==
  ASSUME NEW n \in Nat, NEW s \in Stores(n), NEW d \in Details(n)
  PROVE  Quiet(n, s, [s EXCEPT !.detail = d])
  BY DEF Quiet, SameEvents, Stores

LEMMA LoadedQuiet ==
  ASSUME NEW n \in Nat, NEW s \in Stores(n), NEW c \in SomeConv, NEW a \in AnswersAt(n)
  PROVE  Quiet(n, s, DetailLoaded(s, c, a))
<1>1. [conv |-> c, turns |-> a.turns, done |-> a.done, status |-> "ready"] \in Details(n)
  BY DEF Details, AnswersAt
<1> QED
  BY <1>1, DetailQuiet DEF DetailLoaded

LEMMA LoadingQuiet ==
  ASSUME NEW n \in Nat, NEW s \in Stores(n)
  PROVE  Quiet(n, s, DetailLoading(s)) /\ Quiet(n, s, DetailForbidden(s))
<1>1. [s.detail EXCEPT !.status = "loading"] \in Details(n)
  BY Parts DEF Details
<1>2. [NoDetail EXCEPT !.status = "forbidden"] \in Details(n)
  BY NoneTyped DEF Details
<1>3. DetailLoading(s) = [s EXCEPT !.detail = [s.detail EXCEPT !.status = "loading"]]
  BY DEF DetailLoading
<1> QED
  BY <1>1, <1>2, <1>3, DetailQuiet DEF DetailForbidden

LEMMA AppendIs ==
  ASSUME NEW S, NEW q \in Seq(S), NEW x \in S
  PROVE  /\ Append(q, x) \in Seq(S) /\ Len(Append(q, x)) = Len(q) + 1
         /\ DOMAIN Append(q, x) = 1..(Len(q) + 1) /\ DOMAIN q = 1..Len(q) /\ Len(q) \in Nat
         /\ \A i \in 1..Len(q) : Append(q, x)[i] = q[i]
         /\ Append(q, x)[Len(q) + 1] = x
  OBVIOUS

LEMMA AppendedQuiet ==
  ASSUME NEW n \in Nat, NEW s \in Stores(n), NEW r \in 1..n
  PROVE  Quiet(n, s, MessageAppended(s, r))
<1>1. Append(s.detail.turns, r) \in Seq(1..n)
  BY Parts, AppendIs
<1>2. [s.detail EXCEPT !.turns = Append(s.detail.turns, r)] \in Details(n)
  BY <1>1, Parts DEF Details
<1>3. MessageAppended(s, r) = [s EXCEPT !.detail = [s.detail EXCEPT !.turns = Append(s.detail.turns, r)]]
  BY DEF MessageAppended
<1> QED
  BY <1>2, <1>3, DetailQuiet

LEMMA PendingQuiet ==
  ASSUME NEW n \in Nat, NEW s \in Stores(n), NEW p \in Submissions
  PROVE  Quiet(n, s, [s EXCEPT !.pending = p])
  BY DEF Quiet, SameEvents, Stores

LEMMA StatusQuiet ==
  ASSUME NEW n \in Nat, NEW s \in Stores(n), NEW x \in ActiveStatus
  PROVE  Quiet(n, s, [s EXCEPT !.active.status = x])
<1>1. [s.active EXCEPT !.status = x] \in Actives(n) /\ SameEvents(s.active, [s.active EXCEPT !.status = x])
  BY Parts DEF Actives, SameEvents
<1>2. [s EXCEPT !.active.status = x] = [s EXCEPT !.active = [s.active EXCEPT !.status = x]]
  OBVIOUS
<1>3. [s EXCEPT !.active = [s.active EXCEPT !.status = x]] \in Stores(n)
  BY <1>1 DEF Stores
<1>4. [s EXCEPT !.active = [s.active EXCEPT !.status = x]].active = [s.active EXCEPT !.status = x]
  BY DEF Stores
<1> QED
  BY <1>1, <1>2, <1>3, <1>4 DEF Quiet

LEMMA QuietSelf == ASSUME NEW n \in Nat, NEW s \in Stores(n) PROVE Quiet(n, s, s)
  BY DEF Quiet, SameEvents

LEMMA QuietThen ==
  ASSUME NEW n, NEW s, NEW r, NEW q, Quiet(n, s, r), Quiet(n, r, q)
  PROVE  Quiet(n, s, q)
  BY DEF Quiet, SameEvents

LEMMA CancelQuiet ==
  ASSUME NEW n \in Nat, NEW s \in Stores(n)
  PROVE  /\ Quiet(n, s, CancelRequested(s)) /\ Quiet(n, s, CancelFailed(s)) /\ Quiet(n, s, Cleared(s))
         /\ \A x \in Ended : Quiet(n, s, RunTerminal(s, x))
<1>1. "cancelling" \in ActiveStatus /\ "streaming" \in ActiveStatus /\ Ended \subseteq ActiveStatus
  BY DEF ActiveStatus
<1> QED
  BY <1>1, StatusQuiet, QuietSelf, PendingQuiet, NoneTyped DEF CancelRequested, CancelFailed, Cleared, RunTerminal

(* The reducers that change the active run.                                 *)
LEMMA ActiveSet ==
  ASSUME NEW n \in Nat, NEW s \in Stores(n), NEW a \in Actives(n)
  PROVE  [s EXCEPT !.active = a] \in Stores(n) /\ [s EXCEPT !.active = a].active = a
  BY DEF Stores

LEMMA StartedIs ==
  ASSUME NEW n \in Nat, NEW s \in Stores(n), NEW c \in SomeConv, NEW r \in 0..n
  PROVE  /\ RunStarted(s, c, r) \in Stores(n) /\ Start(c, r, 0) \in Streams(n)
         /\ Start(c, r, 0).pos = 0
         /\ DraftOK(RunStarted(s, c, r).active, Start(c, r, 0), {})
<1> DEFINE a == [run |-> r, conv |-> c, seq |-> 0, draft |-> <<>>, status |-> "started"]
<1>1. <<>> \in Seq((0..n) \X (0..MaxSeq)) /\ Len(<<>>) = 0 /\ 0 \in 0..MaxSeq
  OBVIOUS
<1>2. a \in Actives(n)
  BY <1>1 DEF Actives, ActiveStatus
<1>3. RunStarted(s, c, r) \in Stores(n) /\ RunStarted(s, c, r).active = a
  BY <1>2, ActiveSet DEF RunStarted
<1>4. Start(c, r, 0) \in Streams(n) /\ Start(c, r, 0).pos = 0
  BY <1>1 DEF Start, Streams
<1>5. DraftOK(a, Start(c, r, 0), {})
  BY <1>1, <1>4 DEF DraftOK, Own, Once, InStep, Idle
<1> QED
  BY <1>3, <1>4, <1>5

LEMMA ClearedIs ==
  ASSUME NEW n \in Nat, NEW s \in Stores(n), NEW str \in Streams(n), str.run = 0 => str.pos = 0
  PROVE  RunCleared(s) \in Stores(n) /\ DraftOK(RunCleared(s).active, str, {})
<1>1. RunCleared(s) \in Stores(n) /\ RunCleared(s).active = NoRun
  BY NoneTyped, ActiveSet DEF RunCleared
<1>2. DraftOK(NoRun, str, {})
  BY DEF DraftOK, Own, Once, InStep, Idle, NoRun
<1> QED
  BY <1>1, <1>2

LEMMA RestoredIs ==
  ASSUME NEW n \in Nat, NEW s \in Stores(n), NEW c \in SomeConv, NEW r \in 0..n, r # 0,
         NEW a \in AnswersAt(n), NEW str \in Streams(n)
  PROVE  /\ RunRestored(s, c, r, a) \in Stores(n)
         /\ Start(c, r, a.seq) \in Streams(n) /\ Start(c, r, a.seq).run # 0
         /\ DraftOK(RunRestored(s, c, r, a).active, Start(c, r, a.seq), {})
         /\ DraftOK(RunRestored(s, c, r, a).active, str, {"lag"})
         /\ str.run # r => DraftOK(RunRestored(s, c, r, a).active, str, {})
<1> DEFINE d == [k \in 1..a.seq |-> <<r, k>>]
           x == IF a.status = "active" THEN "streaming" ELSE a.status
           v == [run |-> r, conv |-> c, seq |-> a.seq, draft |-> d, status |-> x]
<1>1. a.seq \in 0..MaxSeq /\ x \in ActiveStatus
  BY DEF AnswersAt, ActiveStatus
<1>2. d \in Seq((0..n) \X (0..MaxSeq)) /\ Len(d) = a.seq /\ DOMAIN d = 1..a.seq
  <2>1. \A k \in 1..a.seq : <<r, k>> \in (0..n) \X (0..MaxSeq)
    BY <1>1
  <2>2. d \in [1..a.seq -> (0..n) \X (0..MaxSeq)]
    BY <2>1
  <2>3. a.seq \in Nat
    BY <1>1
  <2> QED
    BY <2>2, <2>3
<1>3. \A k \in DOMAIN d : d[k][1] = r /\ d[k][2] = k
  OBVIOUS
<1> HIDE DEF d, x
<1>4. v \in Actives(n) /\ v.run = r /\ v.seq = a.seq /\ v.draft = d
  BY <1>1, <1>2 DEF Actives
<1>e. RunRestored(s, c, r, a) = [s EXCEPT !.active = v]
  BY DEF RunRestored, d, x
<1> HIDE DEF v
<1>5. RunRestored(s, c, r, a) \in Stores(n) /\ RunRestored(s, c, r, a).active = v
  BY <1>4, <1>e, ActiveSet
<1>6. Start(c, r, a.seq) \in Streams(n) /\ Start(c, r, a.seq).run = r /\ Start(c, r, a.seq).pos = a.seq
  BY <1>1 DEF Start, Streams
<1>7. Own(v) /\ Once(v)
  BY <1>2, <1>3, <1>4 DEF Own, Once
<1> QED
  BY <1>4, <1>5, <1>6, <1>7 DEF DraftOK, InStep, Idle

(* The next event of the stream of the active run.                          *)
LEMMA DeltaIs ==
  ASSUME NEW n \in Nat, NEW s \in Stores(n), NEW str \in Streams(n), NEW o,
         DraftOK(s.active, str, o), s.active.run = str.run, str.run # 0, NEW k \in 0..MaxSeq, k = str.pos + 1
  PROVE  /\ Delta(s, str.run, k) \in Stores(n)
         /\ DraftOK(Delta(s, str.run, k).active, [str EXCEPT !.pos = k], o)
<1> DEFINE q == s.active.draft
           d == Append(q, <<str.run, k>>)
           x == IF s.active.status = "cancelling" THEN s.active.status ELSE "streaming"
           v == [s.active EXCEPT !.seq = k, !.draft = d, !.status = x]
<1>1. str.run \in 0..n /\ str.pos \in 0..MaxSeq /\ <<str.run, k>> \in (0..n) \X (0..MaxSeq)
  BY DEF Streams
<1>2. /\ d \in Seq((0..n) \X (0..MaxSeq)) /\ Len(d) = Len(q) + 1 /\ DOMAIN d = 1..(Len(q) + 1)
      /\ DOMAIN q = 1..Len(q) /\ Len(q) \in Nat
      /\ \A i \in 1..Len(q) : d[i] = q[i]
      /\ d[Len(q) + 1] = <<str.run, k>>
  <2>1. q \in Seq((0..n) \X (0..MaxSeq))
    BY Parts
  <2> HIDE DEF q
  <2> QED
    BY <1>1, <2>1, AppendIs DEF d
<1>3. x \in ActiveStatus
  BY Parts DEF ActiveStatus, Actives
<1> HIDE DEF d, x
<1>4. v \in Actives(n) /\ v.run = s.active.run /\ v.seq = k /\ v.draft = d
  BY <1>2, <1>3, Parts DEF Actives
<1>5. Delta(s, str.run, k) = [s EXCEPT !.active = v]
  BY DEF Delta, d, x, q
<1> HIDE DEF v
<1>6. Delta(s, str.run, k) \in Stores(n) /\ Delta(s, str.run, k).active = v
  <2>1. v \in Actives(n)
    BY <1>4
  <2>2. [s EXCEPT !.active = v] \in Stores(n) /\ [s EXCEPT !.active = v].active = v
    BY <2>1, ActiveSet
  <2> QED
    BY <1>5, <2>2
<1>7. [str EXCEPT !.pos = k].run = str.run /\ [str EXCEPT !.pos = k].pos = k
  BY DEF Streams
<1>8. Own(v)
  <2>1. \A i \in 1..Len(q) : q[i][1] = s.active.run
    BY <1>2 DEF Own, DraftOK, q
  <2>2. d[Len(q) + 1][1] = s.active.run
    BY <1>2
  <2>3. \A i \in DOMAIN d : d[i][1] = s.active.run
    <3> SUFFICES ASSUME NEW i \in 1..(Len(q) + 1) PROVE d[i][1] = s.active.run
      BY <1>2
    <3>1. i \in 1..Len(q) \/ i = Len(q) + 1
      BY <1>2
    <3> QED
      BY <1>2, <2>1, <2>2, <3>1
  <2> QED
    BY <1>4, <2>3 DEF Own
<1>9. ASSUME "lag" \notin o PROVE Once(v)
  <2>1. Once(s.active) /\ str.pos = s.active.seq
    BY <1>9 DEF DraftOK, InStep, Idle
  <2>2. Len(q) = str.pos /\ \A i \in 1..Len(q) : q[i][2] = i
    BY <1>2, <2>1 DEF Once, q
  <2>3. d[Len(q) + 1][2] = k /\ k = Len(q) + 1
    BY <1>2, <2>2
  <2>4. \A i \in DOMAIN d : d[i][2] = i
    <3> SUFFICES ASSUME NEW i \in 1..(Len(q) + 1) PROVE d[i][2] = i
      BY <1>2
    <3>1. i \in 1..Len(q) \/ i = Len(q) + 1
      BY <1>2
    <3> QED
      BY <1>2, <2>2, <2>3, <3>1
  <2> QED
    BY <1>2, <1>4, <2>3, <2>4 DEF Once
<1> QED
  BY <1>4, <1>6, <1>7, <1>8, <1>9 DEF DraftOK, InStep, Idle

(* What keeps the events of the active run keeps the draft true.            *)
LEMMA QuietKeeps ==
  ASSUME NEW n, NEW s, NEW r, Quiet(n, s, r), NEW str, NEW o, NEW p,
         DraftOK(s.active, str, o), o \subseteq p
  PROVE  r \in Stores(n) /\ DraftOK(r.active, str, p)
  BY DEF Quiet, SameEvents, DraftOK, Own, Once, InStep, Idle

LEMMA FitsQuiet ==
  ASSUME NEW n, NEW s, NEW r, Quiet(n, s, r), NEW str, NEW o, NEW p,
         Fits(n, s, str, o), o \subseteq p
  PROVE  Fits(n, r, str, p)
  BY QuietKeeps DEF Fits

LEMMA FitsNoStream ==
  ASSUME NEW n \in Nat, NEW s, NEW str, NEW o, Fits(n, s, str, o)
  PROVE  Fits(n, s, NoStream, o)
<1>1. NoStream \in Streams(n) /\ NoStream.run = 0 /\ NoStream.pos = 0
  BY NoneTyped DEF NoStream
<1> QED
  BY <1>1 DEF Fits, DraftOK, InStep, Idle

LEMMA FitsStarted ==
  ASSUME NEW n \in Nat, NEW s \in Stores(n), NEW c \in SomeConv, NEW r \in 0..n, NEW o
  PROVE  Fits(n, RunStarted(s, c, r), Start(c, r, 0), o)
  BY StartedIs DEF Fits, DraftOK

LEMMA FitsCleared ==
  ASSUME NEW n \in Nat, NEW s, NEW str, NEW o, NEW p, Fits(n, s, str, o)
  PROVE  Fits(n, RunCleared(s), str, p)
<1>1. s \in Stores(n) /\ str \in Streams(n) /\ (str.run = 0 => str.pos = 0)
  BY DEF Fits
<1> QED
  BY <1>1, ClearedIs DEF Fits, DraftOK

-----------------------------------------------------------------------------
(* Steps of the server and steps of the page.                               *)

LEMMA Nats == ASSUME ChatInv PROVE Len(runs) \in Nat
  BY DEF ChatInv, ServerInv

LEMMA StreamsGrow ==
  ASSUME NEW m \in Nat, NEW n \in Nat, m <= n, NEW s, NEW str, NEW o, Fits(m, s, str, o)
  PROVE  Fits(n, s, str, o)
  BY TypesGrow DEF Fits

LEMMA ServerStep ==
  ASSUME ChatInv, ServerInv', Len(runs) <= Len(runs)', UNCHANGED <<url, seen, st, stream, asked>>,
         faults' \in 0..MaxFaults, odd' = odd \/ odd' = odd \cup {"race"},
         \A x \in tasks' : x \in tasks \/ TaskOK(Len(runs)', x)
  PROVE  ChatInv'
<1>1. Len(runs) \in Nat /\ Len(runs)' \in Nat /\ odd \subseteq odd'
  BY DEF ChatInv, ServerInv
<1>2. PageInv'
  BY DEF ChatInv, PageInv
<1>3. Fits(Len(runs)', st, stream, odd)
  BY <1>1, StreamsGrow DEF ChatInv, StoreInv
<1>4. StoreInv'
  <2>1. Fits(Len(runs)', st, stream, odd')
    BY <1>1, <1>3 DEF Fits, DraftOK
  <2> QED
    BY <2>1 DEF StoreInv
<1>5. TasksInv'
  <2> SUFFICES ASSUME NEW x \in tasks' PROVE TaskOK(Len(runs)', x)
    BY DEF TasksInv
  <2>1. CASE x \in tasks
    <3>1. TaskOK(Len(runs), x)
      BY <2>1 DEF ChatInv, TasksInv
    <3> QED
      BY <1>1, <3>1, TaskGrows
  <2> QED
    BY <2>1
<1> QED
  BY <1>2, <1>4, <1>5 DEF ChatInv

LEMMA PageStep ==
  ASSUME ChatInv, UNCHANGED server, PageInv', Fits(Len(runs), st', stream', odd'),
         \A x \in tasks' : x \in tasks \/ TaskOK(Len(runs), x)
  PROVE  ChatInv'
<1>1. runs' = runs /\ phase' = phase /\ thread' = thread
  BY DEF server
<1>2. ServerInv'
  BY <1>1 DEF ChatInv, ServerInv
<1>3. StoreInv'
  BY <1>1 DEF StoreInv
<1>4. TasksInv'
  BY <1>1 DEF ChatInv, TasksInv
<1> QED
  BY <1>2, <1>3, <1>4 DEF ChatInv

LEMMA SettleStep ==
  ASSUME ChatInv, NEW t, NEW s, NEW str, NEW more, Settle(t, s, str, more),
         odd' \subseteq {"race", "lag"}, url' \in SomeConv,
         Fits(Len(runs), s, str, odd'), \A x \in more : TaskOK(Len(runs), x)
  PROVE  ChatInv'
<1>1. UNCHANGED server /\ PageInv'
  BY DEF Settle, ChatInv, PageInv
<1>2. st' = s /\ stream' = str /\ \A x \in tasks' : x \in tasks \/ TaskOK(Len(runs), x)
  BY DEF Settle
<1> QED
  BY <1>1, <1>2, PageStep

LEMMA TaskTyped ==
  ASSUME ChatInv, NEW kind \in Kinds, NEW c \in SomeConv, NEW r \in 0..Len(runs), kind = "recover" => r # 0
  PROVE  TaskOK(Len(runs), Task(kind, c, r))
<1>1. asked \in Nat /\ NoAnswer \in AnswersAt(Len(runs)) /\ None \in SomeConv
  BY Nats, NoneTyped DEF ChatInv, PageInv, SomeConv
<1>2. Task(kind, c, r) \in TasksAt(Len(runs))
  BY <1>1 DEF Task, TasksAt
<1> QED
  BY <1>2 DEF Task, TaskOK

LEMMA AnsweredTyped ==
  ASSUME NEW n \in Nat, NEW t, TaskOK(n, t), NEW x \in {"ok", "refused", "lost"}, NEW a \in AnswersAt(n),
         t.kind \in {"create", "send"} /\ x = "ok" => a.run # 0
  PROVE  TaskOK(n, [t EXCEPT !.step = x, !.a = a])
<1> DEFINE u == [t EXCEPT !.step = x, !.a = a]
<1>1. u \in TasksAt(n)
  BY DEF TaskOK, TasksAt
<1>2. u.kind = t.kind /\ u.run = t.run /\ u.step = x /\ u.a = a
  BY DEF TaskOK, TasksAt
<1> QED
  BY <1>1, <1>2 DEF TaskOK

LEMMA TaskIs ==
  ASSUME NEW n, NEW t, TaskOK(n, t)
  PROVE  /\ t.conv \in SomeConv /\ t.next \in SomeConv /\ t.run \in 0..n /\ t.kind \in Kinds
         /\ t.a \in AnswersAt(n) /\ t.a.run \in 0..n /\ t.a.conv \in SomeConv
         /\ t.a.turns \in Seq(1..n) /\ t.a.done \in SUBSET (1..n)
  BY DEF TaskOK, TasksAt, AnswersAt

LEMMA Odds ==
  ASSUME ChatInv, NEW c, NEW s, NEW a
  PROVE  /\ odd \subseteq {"race", "lag"} /\ Strayed(c) \subseteq {"race"} /\ Stale(s, a) \subseteq {"race"}
         /\ url \in SomeConv
  BY DEF ChatInv, PageInv, Strayed, Stale

-----------------------------------------------------------------------------
(* The page: what the user does, and what follows an answer.                *)

LEMMA Store ==
  ASSUME ChatInv
  PROVE  /\ Len(runs) \in Nat /\ st \in Stores(Len(runs)) /\ st.sel \in SomeConv
         /\ st.active.run \in 0..Len(runs) /\ stream \in Streams(Len(runs))
         /\ Fits(Len(runs), st, stream, odd)
         /\ url \in SomeConv /\ odd \subseteq {"race", "lag"}
<1>1. Fits(Len(runs), st, stream, odd)
  BY DEF ChatInv, StoreInv
<1>2. st \in Stores(Len(runs)) /\ stream \in Streams(Len(runs))
  BY <1>1 DEF Fits
<1> QED
  BY <1>1, <1>2, Nats, Parts DEF ChatInv, PageInv

(* An action of the user changes the store quietly, and asks at most once.  *)
LEMMA AskStep ==
  ASSUME ChatInv, Ask, UNCHANGED <<server, seen, stream, faults, odd>>, url' \in SomeConv,
         Quiet(Len(runs), st, st'), \A x \in tasks' : x \in tasks \/ TaskOK(Len(runs), x)
  PROVE  ChatInv'
<1>1. asked \in 0..MaxAsked /\ asked < MaxAsked /\ asked' = asked + 1
  BY DEF Ask, ChatInv, PageInv
<1>2. PageInv'
  BY <1>1 DEF ChatInv, PageInv
<1>3. Fits(Len(runs), st', stream', odd')
  <2>1. Fits(Len(runs), st', stream, odd)
    BY Nats, Store, FitsQuiet
  <2> QED
    BY <2>1
<1> QED
  BY <1>2, <1>3, PageStep

LEMMA SendKeeps == ASSUME ChatInv, SendMessage PROVE ChatInv'
<1>1. [busy |-> TRUE, conv |-> st.sel] \in Submissions
  BY Store DEF Submissions
<1>2. Quiet(Len(runs), st, st')
  BY <1>1, Store, PendingQuiet DEF SendMessage
<1>3. \A x \in tasks' : x \in tasks \/ TaskOK(Len(runs), x)
  <2>1. "create" \in Kinds /\ "send" \in Kinds /\ 0 \in 0..Len(runs) /\ st.sel \in SomeConv
    BY Store DEF Kinds
  <2>2. TaskOK(Len(runs), Task(IF st.sel = None THEN "create" ELSE "send", st.sel, 0))
    BY <2>1, TaskTyped
  <2> QED
    BY <2>2 DEF SendMessage
<1> QED
  BY <1>2, <1>3, Store, AskStep DEF SendMessage

LEMMA CancelKeeps == ASSUME ChatInv, Cancel PROVE ChatInv'
<1>1. Quiet(Len(runs), st, st')
  BY Store, CancelQuiet DEF Cancel
<1>2. \A x \in tasks' : x \in tasks \/ TaskOK(Len(runs), x)
  <2>1. "cancel" \in Kinds /\ None \in SomeConv
    BY DEF Kinds, SomeConv
  <2>2. TaskOK(Len(runs), Task("cancel", None, st.active.run))
    BY <2>1, Store, TaskTyped
  <2> QED
    BY <2>2 DEF Cancel
<1> QED
  BY <1>1, <1>2, Store, AskStep DEF Cancel

LEMMA RegenerateKeeps == ASSUME ChatInv, NEW edit \in BOOLEAN, Regenerate(edit) PROVE ChatInv'
<1>1. st' = st /\ st.detail.turns # <<>>
  BY DEF Regenerate
<1>2. st.detail.turns \in Seq(1..Len(runs))
  BY Store, Parts
<1>3. st.detail.turns[Len(st.detail.turns)] \in 0..Len(runs)
  BY <1>1, <1>2, Store
<1>4. \A x \in tasks' : x \in tasks \/ TaskOK(Len(runs), x)
  <2>1. "regen" \in Kinds
    BY DEF Kinds
  <2>2. TaskOK(Len(runs), Task("regen", st.sel, st.detail.turns[Len(st.detail.turns)]))
    BY <1>3, <2>1, Store, TaskTyped
  <2> QED
    BY <2>2 DEF Regenerate
<1>5. Quiet(Len(runs), st, st')
  BY <1>1, Store, QuietSelf
<1> QED
  BY <1>4, <1>5, Store, AskStep DEF Regenerate

LEMMA DeleteKeeps == ASSUME ChatInv, NEW c \in Convs, DeleteConversation(c) PROVE ChatInv'
<1>1. PICK n \in {None} \cup {d \in Convs \ {c} : phase[d] # "unborn"} :
        tasks' = tasks \cup {[Task("remove", c, IF st.sel = c THEN 1 ELSE 0) EXCEPT !.next = n]}
  BY DEF DeleteConversation
<1> DEFINE r == IF st.sel = c THEN 1 ELSE 0
           u == Task("remove", c, r)
<1>2. r \in 0..Len(runs)
  <2>1. Len(runs) >= 1
    BY DEF ChatInv, ServerInv
  <2> QED
    BY <2>1, Store
<1>3. "remove" \in Kinds /\ c \in SomeConv /\ n \in SomeConv /\ u.kind = "remove"
  BY DEF Kinds, SomeConv, Task
<1> HIDE DEF r
<1>4. TaskOK(Len(runs), u)
  BY <1>2, <1>3, TaskTyped
<1> HIDE DEF u
<1>5. TaskOK(Len(runs), [u EXCEPT !.next = n])
  <2>1. [u EXCEPT !.next = n] \in TasksAt(Len(runs))
    BY <1>3, <1>4 DEF TaskOK, TasksAt
  <2>2. [u EXCEPT !.next = n].kind = "remove"
    BY <1>3, <1>4 DEF TaskOK, TasksAt
  <2> QED
    BY <2>1, <2>2 DEF TaskOK
<1>6. \A x \in tasks' : x \in tasks \/ TaskOK(Len(runs), x)
  BY <1>1, <1>5 DEF u, r
<1>7. Quiet(Len(runs), st, st')
  BY Store, QuietSelf DEF DeleteConversation
<1> QED
  BY <1>6, <1>7, Store, AskStep DEF DeleteConversation

LEMMA NavigateKeeps ==
  ASSUME ChatInv, NEW c \in {None} \cup {d \in Convs : phase[d] # "unborn"}, Navigate(c) PROVE ChatInv'
<1>1. c \in SomeConv /\ Quiet(Len(runs), st, st')
  BY Store, QuietSelf DEF Navigate, SomeConv
<1> QED
  BY <1>1, AskStep DEF Navigate

(* A continuation that changes the store quietly.                           *)
LEMMA QuietSettles ==
  ASSUME ChatInv, NEW t, NEW s, NEW more, Settle(t, s, stream, more),
         odd \subseteq odd', odd' \subseteq {"race", "lag"}, url' \in SomeConv,
         Quiet(Len(runs), st, s), \A x \in more : TaskOK(Len(runs), x)
  PROVE  ChatInv'
<1>1. Fits(Len(runs), s, stream, odd')
  BY Store, FitsQuiet
<1> QED
  BY <1>1, SettleStep

LEMMA CreatedKeeps == ASSUME ChatInv, NEW t, TaskOK(Len(runs), t), Created(t) PROVE ChatInv'
<1> DEFINE c == t.a.conv
           r == t.a.run
           b == [NoAnswer EXCEPT !.turns = <<r>>]
           s1 == DetailLoaded(st, c, b)
           s2 == Selected(s1, c)
           s3 == RunStarted(s2, c, r)
<1>1. r \in 1..Len(runs) /\ r \in 0..Len(runs) /\ c \in SomeConv
  BY Store, TaskIs DEF Created, TaskOK
<1>2. b \in AnswersAt(Len(runs))
  <2>1. <<r>> \in Seq(1..Len(runs)) /\ NoAnswer \in AnswersAt(Len(runs))
    BY <1>1, Store, NoneTyped
  <2> HIDE DEF r
  <2> QED
    BY <2>1 DEF AnswersAt
<1>3. Settle(t, Cleared(s3), Start(c, r, 0), {}) /\ odd' \subseteq {"race", "lag"} /\ url' = url
  BY Store DEF Created, Strayed
<1> HIDE DEF c, r, b
<1>4. s1 \in Stores(Len(runs))
  BY <1>1, <1>2, Store, LoadedQuiet DEF Quiet
<1> HIDE DEF s1
<1>5. s2 \in Stores(Len(runs))
  BY <1>1, <1>4, Store, SelectedQuiet DEF Quiet
<1> HIDE DEF s2
<1>6. Fits(Len(runs), s3, Start(c, r, 0), odd') /\ s3 \in Stores(Len(runs))
  BY <1>1, <1>5, Store, FitsStarted DEF Fits
<1> HIDE DEF s3
<1>7. Fits(Len(runs), Cleared(s3), Start(c, r, 0), odd')
  BY <1>6, Store, CancelQuiet, FitsQuiet
<1> QED
  BY <1>3, <1>7, Store, Odds, SettleStep

LEMMA SentKeeps == ASSUME ChatInv, NEW t, TaskOK(Len(runs), t), Sent(t) PROVE ChatInv'
<1> DEFINE c == t.conv
           r == t.a.run
           s2 == MessageAppended(st, r)
           s3 == RunStarted(s2, c, r)
<1>1. r \in 1..Len(runs) /\ r \in 0..Len(runs) /\ c \in SomeConv
  BY Store, TaskIs DEF Sent, TaskOK
<1>2. Settle(t, Cleared(s3), Start(c, r, 0), {}) /\ odd' \subseteq {"race", "lag"} /\ url' = url
  BY Odds DEF Sent
<1> HIDE DEF c, r
<1>3. s2 \in Stores(Len(runs))
  BY <1>1, Store, AppendedQuiet DEF Quiet
<1> HIDE DEF s2
<1>4. Fits(Len(runs), s3, Start(c, r, 0), odd') /\ s3 \in Stores(Len(runs))
  BY <1>1, <1>3, Store, FitsStarted DEF Fits
<1> HIDE DEF s3
<1>5. Fits(Len(runs), Cleared(s3), Start(c, r, 0), odd')
  BY <1>4, Store, CancelQuiet, FitsQuiet
<1> QED
  BY <1>2, <1>5, Store, SettleStep

LEMMA NotSentKeeps == ASSUME ChatInv, NEW t, NotSent(t) PROVE ChatInv'
<1>1. Quiet(Len(runs), st, Cleared(st))
  BY Store, CancelQuiet
<1> QED
  BY <1>1, Store, QuietSettles DEF NotSent

LEMMA RegeneratedKeeps == ASSUME ChatInv, NEW t, TaskOK(Len(runs), t), Regenerated(t) PROVE ChatInv'
<1> DEFINE u == [t EXCEPT !.kind = "reload", !.step = "sent", !.run = t.a.run, !.a = NoAnswer]
<1>1. t.a.run \in 0..Len(runs) /\ NoAnswer \in AnswersAt(Len(runs)) /\ "reload" \in Kinds
  BY Store, TaskIs, NoneTyped DEF Kinds
<1>2. TaskOK(Len(runs), u)
  <2>1. u \in TasksAt(Len(runs))
    BY <1>1 DEF TaskOK, TasksAt
  <2>2. u.kind = "reload"
    BY DEF TaskOK, TasksAt
  <2> QED
    BY <2>1, <2>2 DEF TaskOK
<1>3. Settle(t, st, stream, {u}) /\ url' = url /\ odd' = odd
  BY DEF Regenerated
<1> HIDE DEF u
<1> QED
  BY <1>2, <1>3, Store, QuietSelf, QuietSettles

LEMMA ReloadedKeeps == ASSUME ChatInv, NEW t, TaskOK(Len(runs), t), Reloaded(t) PROVE ChatInv'
<1> DEFINE s == DetailLoaded(st, t.conv, t.a)
<1>1. s \in Stores(Len(runs))
  BY Store, TaskIs, LoadedQuiet DEF Quiet
<1>2. /\ Settle(t, RunStarted(s, t.conv, t.run), Start(t.conv, t.run, 0), {})
      /\ odd' \subseteq {"race", "lag"} /\ url' = url
  BY Odds DEF Reloaded
<1> HIDE DEF s
<1>3. Fits(Len(runs), RunStarted(s, t.conv, t.run), Start(t.conv, t.run, 0), odd')
  BY <1>1, Store, TaskIs, FitsStarted
<1> QED
  BY <1>2, <1>3, Store, SettleStep

LEMMA NotRegeneratedKeeps == ASSUME ChatInv, NEW t, NotRegenerated(t) PROVE ChatInv'
  BY Store, QuietSelf, QuietSettles DEF NotRegenerated

(* What is selected next.                                                   *)
LEMMA SelectingFits ==
  ASSUME ChatInv, NEW c \in SomeConv, NEW s, NEW str, NEW o, Fits(Len(runs), s, str, o)
  PROVE  Fits(Len(runs), Selecting(s, c), str, o)
<1> DEFINE s1 == IF c # s.sel THEN RunCleared(s) ELSE s
           s2 == Selected(s1, c)
<1>1. Fits(Len(runs), s1, str, o)
  BY Store, FitsCleared
<1> HIDE DEF s1
<1>2. Fits(Len(runs), s2, str, o)
  <2>1. s1 \in Stores(Len(runs))
    BY <1>1 DEF Fits
  <2> QED
    BY <1>1, <2>1, Store, SelectedQuiet, FitsQuiet
<1> HIDE DEF s2
<1>3. Fits(Len(runs), DetailLoading(s2), str, o)
  <2>1. s2 \in Stores(Len(runs))
    BY <1>2 DEF Fits
  <2> QED
    BY <1>2, <2>1, Store, LoadingQuiet, FitsQuiet
<1> QED
  BY <1>3 DEF Selecting, s2, s1

LEMMA NewFits ==
  ASSUME ChatInv, NEW s, NEW str, NEW o, Fits(Len(runs), s, str, o)
  PROVE  Fits(Len(runs), NewConversation(s), str, o)
<1> DEFINE s1 == RunCleared(s)
           s2 == Selected(s1, None)
<1>1. Fits(Len(runs), s1, str, o)
  BY Store, FitsCleared
<1> HIDE DEF s1
<1>2. Fits(Len(runs), s2, str, o)
  <2>1. s1 \in Stores(Len(runs)) /\ None \in SomeConv
    BY <1>1 DEF Fits, SomeConv
  <2> QED
    BY <1>1, <2>1, Store, SelectedQuiet, FitsQuiet
<1> HIDE DEF s2
<1>3. Fits(Len(runs), [s2 EXCEPT !.detail = NoDetail], str, o)
  <2>1. s2 \in Stores(Len(runs)) /\ NoDetail \in Details(Len(runs))
    BY <1>2, Store, NoneTyped DEF Fits
  <2> QED
    BY <1>2, <2>1, Store, DetailQuiet, FitsQuiet
<1> QED
  BY <1>3 DEF NewConversation, s2, s1

LEMMA RecoverTyped ==
  ASSUME ChatInv, NEW s \in Stores(Len(runs)), NEW c \in SomeConv
  PROVE  \A x \in Recover(s, c) : TaskOK(Len(runs), x)
<1> DEFINE r == PendingRun(s.detail)
<1>1. r \in 0..Len(runs)
  <2>1. s.detail.turns \in Seq(1..Len(runs))
    BY Store, Parts
  <2> QED
    BY <2>1, Store DEF PendingRun
<1> HIDE DEF r
<1>2. "recover" \in Kinds
  BY DEF Kinds
<1>3. r # 0 => TaskOK(Len(runs), Task("recover", c, r))
  BY <1>1, <1>2, TaskTyped
<1> QED
  BY <1>3 DEF Recover, r

LEMMA ArrivedKeeps == ASSUME ChatInv, NEW t, TaskOK(Len(runs), t), DetailArrived(t) PROVE ChatInv'
<1> DEFINE s == IF st.sel # t.conv THEN st
                ELSE IF t.step = "ok" THEN DetailLoaded(st, t.conv, t.a)
                ELSE IF t.step = "refused" THEN Selected(DetailForbidden(st), None)
                ELSE DetailForbidden(st)
<1>1. Quiet(Len(runs), st, s)
  <2>1. Quiet(Len(runs), st, st) /\ Quiet(Len(runs), st, DetailLoaded(st, t.conv, t.a))
    BY Store, TaskIs, QuietSelf, LoadedQuiet
  <2>2. Quiet(Len(runs), st, DetailForbidden(st))
    BY Store, LoadingQuiet
  <2>3. Quiet(Len(runs), st, Selected(DetailForbidden(st), None))
    <3>1. DetailForbidden(st) \in Stores(Len(runs)) /\ None \in SomeConv
      BY <2>2 DEF Quiet, SomeConv
    <3>2. Quiet(Len(runs), DetailForbidden(st), Selected(DetailForbidden(st), None))
      BY <3>1, Store, SelectedQuiet
    <3> QED
      BY <2>2, <3>2, QuietThen
  <2> QED
    BY <2>1, <2>2, <2>3
<1>2. /\ Settle(t, s, stream, Recover(s, t.conv)) /\ url' = url
      /\ odd \subseteq odd' /\ odd' \subseteq {"race", "lag"}
  BY Odds DEF DetailArrived
<1> HIDE DEF s
<1>3. \A x \in Recover(s, t.conv) : TaskOK(Len(runs), x)
  BY <1>1, TaskIs, RecoverTyped DEF Quiet
<1> QED
  BY <1>1, <1>2, <1>3, Store, QuietSettles

LEMMA RecoveredKeeps == ASSUME ChatInv, NEW t, TaskOK(Len(runs), t), Recovered(t) PROVE ChatInv'
<1> DEFINE s == RunRestored(st, t.conv, t.run, t.a)
           dropped == t.step = "lost" \/ st.sel # t.conv
<1>1. t.run # 0 /\ t.run \in 0..Len(runs) /\ t.conv \in SomeConv /\ t.a \in AnswersAt(Len(runs)) /\ url' = url
  BY TaskIs DEF Recovered, TaskOK
<1>2. CASE dropped
  <2>1. Settle(t, st, stream, {}) /\ odd' = odd
    BY <1>2 DEF Recovered
  <2> QED
    BY <1>1, <2>1, Store, QuietSelf, QuietSettles
<1>3. CASE ~dropped /\ t.a.status = "succeeded"
  <2>1. Settle(t, st, stream, {Task("restore", t.conv, t.run)}) /\ odd' = odd
    BY <1>3 DEF Recovered
  <2>2. "restore" \in Kinds
    BY DEF Kinds
  <2>3. TaskOK(Len(runs), Task("restore", t.conv, t.run))
    BY <1>1, <2>2, TaskTyped
  <2> QED
    BY <1>1, <2>1, <2>3, Store, QuietSelf, QuietSettles
<1>4. CASE ~dropped /\ t.a.status # "succeeded"
  <2>1. /\ Settle(t, s, IF t.a.status = "active" THEN Start(t.conv, t.run, t.a.seq) ELSE stream, {})
        /\ odd' = odd \cup (IF st.active.run # 0 THEN {"race"} ELSE {})
                      \cup (IF stream.run = t.run /\ t.a.status # "active" THEN {"lag"} ELSE {})
    BY <1>4 DEF Recovered
  <2>2. /\ s \in Stores(Len(runs)) /\ Start(t.conv, t.run, t.a.seq) \in Streams(Len(runs))
        /\ Start(t.conv, t.run, t.a.seq).run # 0
        /\ DraftOK(s.active, Start(t.conv, t.run, t.a.seq), {})
        /\ DraftOK(s.active, stream, {"lag"})
        /\ stream.run # t.run => DraftOK(s.active, stream, {})
    <3>1. t.conv \in SomeConv /\ t.run \in 0..Len(runs) /\ t.run # 0 /\ t.a \in AnswersAt(Len(runs))
      BY <1>1
    <3>2. Len(runs) \in Nat /\ st \in Stores(Len(runs)) /\ stream \in Streams(Len(runs))
      BY Store
    <3> QED
      BY <3>1, <3>2, RestoredIs
  <2>3. odd' \subseteq {"race", "lag"}
    BY <2>1, Store
  <2> HIDE DEF s
  <2>4. CASE t.a.status = "active"
    <3> DEFINE str == Start(t.conv, t.run, t.a.seq)
    <3> HIDE DEF str
    <3>2. str \in Streams(Len(runs)) /\ str.run # 0 /\ DraftOK(s.active, str, {})
      BY <2>2 DEF str
    <3>3. DraftOK(s.active, str, odd')
      BY <3>2 DEF DraftOK
    <3>4. Fits(Len(runs), s, str, odd')
      BY <2>2, <3>2, <3>3 DEF Fits
    <3>1. Fits(Len(runs), s, Start(t.conv, t.run, t.a.seq), odd')
      BY <3>4 DEF str
    <3> QED
      BY <1>1, <2>1, <2>3, <2>4, <3>1, Store, SettleStep
  <2>5. CASE t.a.status # "active"
    <3>1. stream.run = t.run => "lag" \in odd'
      BY <2>1, <2>5
    <3>2. stream \in Streams(Len(runs)) /\ (stream.run = 0 => stream.pos = 0)
      BY Store DEF Fits
    <3>3. Fits(Len(runs), s, stream, odd')
      BY <2>2, <3>1, <3>2 DEF Fits, DraftOK
    <3> QED
      BY <1>1, <2>1, <2>3, <2>5, <3>3, Store, SettleStep
  <2> QED
    BY <2>4, <2>5
<1> QED
  BY <1>2, <1>3, <1>4

LEMMA RestoredKeeps == ASSUME ChatInv, NEW t, TaskOK(Len(runs), t), Restored(t) PROVE ChatInv'
<1> DEFINE s == IF t.step = "ok" /\ st.sel = t.conv THEN DetailLoaded(st, t.conv, t.a) ELSE st
<1>1. Quiet(Len(runs), st, s)
  BY Store, TaskIs, QuietSelf, LoadedQuiet
<1>2. Settle(t, s, stream, {}) /\ url' = url /\ odd \subseteq odd' /\ odd' \subseteq {"race", "lag"}
  BY Odds DEF Restored
<1> QED
  BY <1>1, <1>2, Store, QuietSettles

LEMMA DeletedKeeps == ASSUME ChatInv, NEW t, TaskOK(Len(runs), t), ConversationDeleted(t) PROVE ChatInv'
<1>1. url' = url /\ odd' = odd
  BY DEF ConversationDeleted
<1>2. CASE Settle(t, st, stream, {})
  BY <1>1, <1>2, Store, QuietSelf, QuietSettles
<1>3. CASE Settle(t, NewConversation(st), stream, {})
  <2>1. Fits(Len(runs), NewConversation(st), stream, odd')
    BY <1>1, Nats, Store, NewFits
  <2> QED
    BY <1>1, <1>3, <2>1, Store, SettleStep
<1>4. CASE Settle(t, Selecting(st, t.next), stream, {Task("select", t.next, 0)})
  <2>1. Fits(Len(runs), Selecting(st, t.next), stream, odd')
    BY <1>1, Nats, Store, TaskIs, SelectingFits
  <2>2. "select" \in Kinds /\ 0 \in 0..Len(runs)
    BY Store DEF Kinds
  <2>3. TaskOK(Len(runs), Task("select", t.next, 0))
    BY <2>2, TaskIs, TaskTyped
  <2> QED
    BY <1>1, <1>4, <2>1, <2>3, Store, SettleStep
<1> QED
  BY <1>2, <1>3, <1>4 DEF ConversationDeleted

LEMMA RefetchedKeeps == ASSUME ChatInv, NEW t, TaskOK(Len(runs), t), Refetched(t) PROVE ChatInv'
<1> DEFINE s1 == IF st.sel = t.conv THEN DetailLoaded(st, t.conv, t.a) ELSE st
           s2 == IF s1.active.run = t.run THEN RunCleared(s1) ELSE s1
           failed == IF st.active.run = t.run THEN RunTerminal(st, "failed") ELSE st
<1>1. /\ Settle(t, IF t.step = "ok" THEN s2 ELSE failed, stream, {}) /\ url' = url
      /\ odd \subseteq odd' /\ odd' \subseteq {"race", "lag"}
  BY Odds DEF Refetched
<1>2. Quiet(Len(runs), st, s1)
  BY Store, TaskIs, QuietSelf, LoadedQuiet
<1>3. Quiet(Len(runs), st, failed)
  BY Store, QuietSelf, CancelQuiet DEF Ended
<1> HIDE DEF s1, failed
<1>4. Fits(Len(runs), s1, stream, odd')
  BY <1>2, <1>1, Store, FitsQuiet
<1>5. Fits(Len(runs), s2, stream, odd')
  BY <1>4, <1>1, Store, FitsCleared
<1>6. Fits(Len(runs), failed, stream, odd')
  BY <1>3, <1>1, Store, FitsQuiet
<1> HIDE DEF s2
<1>7. Fits(Len(runs), IF t.step = "ok" THEN s2 ELSE failed, stream, odd')
  BY <1>5, <1>6
<1> QED
  BY <1>1, <1>7, Store, SettleStep

LEMMA CancelAnsweredKeeps == ASSUME ChatInv, NEW t, CancelAnswered(t) PROVE ChatInv'
<1>1. Quiet(Len(runs), st, IF Failed(t) THEN CancelFailed(st) ELSE st)
  BY Store, QuietSelf, CancelQuiet
<1> QED
  BY <1>1, Store, QuietSettles DEF CancelAnswered

-----------------------------------------------------------------------------
(* The stream, and the effects of a render.                                 *)

LEMMA RunIs ==
  ASSUME ChatInv, NEW r \in 1..Len(runs)
  PROVE  /\ runs \in Seq(RunRows) /\ runs[r] \in RunRows /\ runs[r].seq \in 0..MaxSeq
         /\ runs[r].status \in Ended \cup {"active"} /\ runs[r].conv \in Convs
<1>1. runs \in Seq(RunRows)
  BY DEF ChatInv, ServerInv
<1>2. runs[r] \in RunRows
  BY <1>1
<1> QED
  BY <1>1, <1>2 DEF RunRows

LEMMA EventKeeps == ASSUME ChatInv, StreamEvent PROVE ChatInv'
<1>1. /\ stream.run \in 1..Len(runs) /\ stream.pos \in 0..MaxSeq /\ stream.run # 0
      /\ stream.pos < runs[stream.run].seq
  BY Store DEF StreamEvent, Streams
<1>2. PICK k \in 0..MaxSeq : k = stream.pos + 1
  <2>1. runs[stream.run].seq \in 0..MaxSeq
    BY <1>1, RunIs
  <2> QED
    BY <1>1, <2>1
<1>3. /\ stream' = [stream EXCEPT !.pos = k]
      /\ st' = IF st.active.run = stream.run THEN Delta(st, stream.run, k) ELSE st
  BY <1>2 DEF StreamEvent, IsActiveRun
<1>4. stream' \in Streams(Len(runs)) /\ stream'.run = stream.run /\ stream'.pos = k
  BY <1>3, Store DEF Streams
<1>5. st \in Stores(Len(runs)) /\ stream \in Streams(Len(runs)) /\ DraftOK(st.active, stream, odd)
  BY Store DEF Fits
<1>6. st' \in Stores(Len(runs)) /\ DraftOK(st'.active, stream', odd)
  <2>1. CASE st.active.run = stream.run
    <3>1. /\ Delta(st, stream.run, k) \in Stores(Len(runs))
          /\ DraftOK(Delta(st, stream.run, k).active, [stream EXCEPT !.pos = k], odd)
      BY <1>1, <1>2, <1>5, <2>1, Store, DeltaIs
    <3> QED
      BY <1>3, <2>1, <3>1
  <2>2. CASE st.active.run # stream.run
    BY <1>3, <1>4, <1>5, <2>2 DEF DraftOK, InStep
  <2> QED
    BY <2>1, <2>2
<1>7. Fits(Len(runs), st', stream', odd)
  BY <1>1, <1>4, <1>6 DEF Fits
<1>8. UNCHANGED <<server, url, seen, tasks, asked, faults, odd>>
  BY DEF StreamEvent
<1>9. PageInv'
  BY <1>8 DEF ChatInv, PageInv
<1> QED
  BY <1>7, <1>8, <1>9, PageStep

(* The stream has ended, and the store at most says so.                     *)
LEMMA StreamEnds ==
  ASSUME ChatInv, Quiet(Len(runs), st, st'), stream' = NoStream, UNCHANGED <<server, url, seen, asked>>,
         faults' \in 0..MaxFaults, odd \subseteq odd', odd' \subseteq {"race", "lag"},
         \A x \in tasks' : x \in tasks \/ TaskOK(Len(runs), x)
  PROVE  ChatInv'
<1>1. Fits(Len(runs), st', stream, odd')
  BY Store, FitsQuiet
<1>2. Fits(Len(runs), st', stream', odd')
  BY <1>1, Store, FitsNoStream
<1>3. PageInv'
  BY DEF ChatInv, PageInv
<1>4. UNCHANGED server
  OBVIOUS
<1> QED
  BY <1>2, <1>3, <1>4, PageStep

LEMMA TerminalKeeps == ASSUME ChatInv, StreamTerminal PROVE ChatInv'
<1> DEFINE x == runs[stream.run].status
<1>1. /\ stream' = NoStream /\ x \in Ended
      /\ st' = IF IsActiveRun THEN RunTerminal(st, x) ELSE st
      /\ tasks' = IF x = "succeeded" THEN tasks \cup {Task("refetch", stream.conv, stream.run)} ELSE tasks
      /\ UNCHANGED <<server, url, seen, asked, faults, odd>>
  BY DEF StreamTerminal
<1> HIDE DEF x
<1>2. Quiet(Len(runs), st, st')
  BY <1>1, Store, QuietSelf, CancelQuiet
<1>3. stream.conv \in SomeConv /\ stream.run \in 0..Len(runs) /\ "refetch" \in Kinds
  BY Store DEF Streams, Kinds
<1>4. TaskOK(Len(runs), Task("refetch", stream.conv, stream.run))
  BY <1>3, TaskTyped
<1>5. faults' \in 0..MaxFaults
  BY <1>1 DEF ChatInv, PageInv
<1> QED
  BY <1>1, <1>2, <1>4, <1>5, Store, StreamEnds

LEMMA BreaksKeeps == ASSUME ChatInv, StreamBreaks PROVE ChatInv'
<1>1. Quiet(Len(runs), st, st')
  BY Store, QuietSelf, CancelQuiet DEF StreamBreaks, Ended
<1>2. faults' \in 0..MaxFaults
  BY DEF StreamBreaks, ChatInv, PageInv
<1> QED
  BY <1>1, <1>2, Store, StreamEnds DEF StreamBreaks

LEMMA CommitKeeps == ASSUME ChatInv, Commit PROVE ChatInv'
<1> DEFINE urlNew == ~seen.ready \/ seen.url # url
           selNew == ~seen.ready \/ seen.sel # st.sel
           opens == urlNew /\ url # None /\ url # st.sel
           s == IF opens THEN Selecting(st, url)
                ELSE IF urlNew /\ url = None /\ st.sel # None THEN NewConversation(st) ELSE st
<1>1. /\ st' = s /\ tasks' = IF opens THEN tasks \cup {Task("select", url, 0)} ELSE tasks
      /\ url' = IF selNew /\ url # s.sel THEN s.sel ELSE url
      /\ seen' = [ready |-> TRUE, url |-> url, sel |-> st.sel]
      /\ UNCHANGED <<server, stream, asked, faults, odd>>
  BY DEF Commit
<1>2. Fits(Len(runs), s, stream, odd)
  BY Store, SelectingFits, NewFits
<1> HIDE DEF urlNew, selNew, opens, s
<1>3. s.sel \in SomeConv
  <2>1. s \in Stores(Len(runs))
    BY <1>2 DEF Fits
  <2> QED
    BY <2>1, Store, Parts
<1>4. url' \in SomeConv /\ seen' \in [ready : BOOLEAN, url : SomeConv, sel : SomeConv]
  BY <1>1, <1>3, Store
<1>5. PageInv'
  BY <1>1, <1>4 DEF ChatInv, PageInv
<1>6. TaskOK(Len(runs), Task("select", url, 0))
  <2>1. "select" \in Kinds /\ 0 \in 0..Len(runs)
    BY Store DEF Kinds
  <2> QED
    BY <2>1, Store, TaskTyped
<1>7. Fits(Len(runs), st', stream', odd')
  BY <1>1, <1>2
<1> QED
  BY <1>1, <1>5, <1>6, <1>7, PageStep

-----------------------------------------------------------------------------
(* The server.                                                              *)

(* The rows may change where they are, and requests get an answer.          *)
LEMMA RowsStep ==
  ASSUME ChatInv, phase' \in [Convs -> {"unborn", "alive", "deleted"}], thread' = thread,
         runs' \in Seq(RunRows), Len(runs') = Len(runs),
         UNCHANGED <<url, seen, st, stream, asked>>, faults' \in 0..MaxFaults,
         odd' = odd \/ odd' = odd \cup {"race"},
         \A x \in tasks' : x \in tasks \/ TaskOK(Len(runs), x)
  PROVE  ChatInv'
<1>1. ServerInv'
  BY DEF ChatInv, ServerInv
<1>2. Len(runs)' = Len(runs) /\ Len(runs) \in Nat
  BY Store
<1>3. \A x \in tasks' : x \in tasks \/ TaskOK(Len(runs)', x)
  BY <1>2
<1>4. Len(runs) <= Len(runs)'
  BY <1>2
<1> QED
  BY <1>1, <1>3, <1>4, ServerStep

LEMMA EmitKeeps ==
  ASSUME ChatInv, NEW r \in DOMAIN runs, Emit(r), UNCHANGED <<url, seen, st, stream, tasks, asked, faults, odd>>
  PROVE  ChatInv'
<1>1. r \in 1..Len(runs) /\ runs \in Seq(RunRows)
  BY DEF ChatInv, ServerInv
<1>2. PICK k \in 0..MaxSeq : k = runs[r].seq + 1
  <2>1. runs[r].seq \in 0..MaxSeq
    BY <1>1, RunIs
  <2> QED
    BY <2>1 DEF Emit
<1>3. runs' = [runs EXCEPT ![r] = [runs[r] EXCEPT !.seq = k]]
  BY <1>2 DEF Emit
<1>4. [runs[r] EXCEPT !.seq = k] \in RunRows
  BY <1>1, RunIs DEF RunRows
<1>5. runs' \in Seq(RunRows) /\ Len(runs') = Len(runs)
  BY <1>1, <1>3, <1>4
<1>6. phase' \in [Convs -> {"unborn", "alive", "deleted"}] /\ thread' = thread /\ faults' \in 0..MaxFaults
  BY DEF Emit, ChatInv, ServerInv, PageInv
<1> QED
  BY <1>5, <1>6, RowsStep

LEMMA EndKeeps ==
  ASSUME ChatInv, NEW r \in DOMAIN runs, NEW x \in Ended, EndRun(r, x),
         UNCHANGED <<url, seen, st, stream, tasks, asked, faults, odd>>
  PROVE  ChatInv'
<1>1. r \in 1..Len(runs) /\ runs \in Seq(RunRows)
  BY DEF ChatInv, ServerInv
<1>3. runs' = [runs EXCEPT ![r] = [runs[r] EXCEPT !.status = x]]
  BY DEF EndRun
<1>4. [runs[r] EXCEPT !.status = x] \in RunRows
  BY <1>1, RunIs DEF RunRows
<1>5. runs' \in Seq(RunRows) /\ Len(runs') = Len(runs)
  BY <1>1, <1>3, <1>4
<1>6. phase' \in [Convs -> {"unborn", "alive", "deleted"}] /\ thread' = thread /\ faults' \in 0..MaxFaults
  BY DEF EndRun, ChatInv, ServerInv, PageInv
<1> QED
  BY <1>5, <1>6, RowsStep

LEMMA LoseKeeps == ASSUME ChatInv, NEW t \in tasks, Lose(t) PROVE ChatInv'
<1>1. TaskOK(Len(runs), t) /\ NoAnswer \in AnswersAt(Len(runs))
  BY Store, NoneTyped DEF ChatInv, TasksInv
<1>2. TaskOK(Len(runs), [t EXCEPT !.step = "lost", !.a = NoAnswer])
  BY <1>1, Store, AnsweredTyped
<1>3. \A x \in tasks' : x \in tasks \/ TaskOK(Len(runs), x)
  BY <1>2 DEF Lose
<1>4. faults' \in 0..MaxFaults
  BY DEF Lose, ChatInv, PageInv
<1>5. /\ phase' \in [Convs -> {"unborn", "alive", "deleted"}] /\ thread' = thread
      /\ runs' \in Seq(RunRows) /\ Len(runs') = Len(runs)
  BY DEF Lose, server, ChatInv, ServerInv
<1> QED
  BY <1>3, <1>4, <1>5, RowsStep DEF Lose

(* An answer changes no more than the requests.                             *)
LEMMA AnswerTasks ==
  ASSUME ChatInv, NEW n \in Nat, Len(runs) <= n, NEW t \in tasks, NEW x \in {"ok", "refused"},
         NEW a \in AnswersAt(n), Answered(t, x, a), t.kind \in {"create", "send"} /\ x = "ok" => a.run # 0
  PROVE  \A u \in tasks' : u \in tasks \/ TaskOK(n, u)
<1>1. TaskOK(n, t)
  BY Store, TaskGrows DEF ChatInv, TasksInv
<1>2. TaskOK(n, [t EXCEPT !.step = x, !.a = a])
  BY <1>1, AnsweredTyped
<1> QED
  BY <1>2 DEF Answered

LEMMA ReadKeeps ==
  ASSUME ChatInv, NEW t \in tasks, ServeRead(t), UNCHANGED <<url, seen, st, stream, asked, faults, odd>>
  PROVE  ChatInv'
<1>1. TaskOK(Len(runs), t) /\ NoAnswer \in AnswersAt(Len(runs)) /\ Len(runs) \in Nat
  BY Store, NoneTyped DEF ChatInv, TasksInv
<1>2. /\ phase' \in [Convs -> {"unborn", "alive", "deleted"}] /\ thread' = thread
      /\ runs' \in Seq(RunRows) /\ Len(runs') = Len(runs) /\ faults' \in 0..MaxFaults
  BY DEF ServeRead, server, ChatInv, ServerInv, PageInv
<1>3. \A u \in tasks' : u \in tasks \/ TaskOK(Len(runs), u)
  <2>1. CASE t.kind \in {"select", "reload", "refetch", "restore"} /\ Alive(t)
    <3> DEFINE d == DetailNow(t.conv)
               a == [NoAnswer EXCEPT !.turns = d.turns, !.done = d.done]
    <3>1. Answered(t, "ok", a)
      BY <2>1 DEF ServeRead
    <3>2. d.turns \in Seq(1..Len(runs)) /\ d.done \in SUBSET (1..Len(runs))
      <4>1. t.conv \in Convs
        BY <1>1, <2>1, TaskIs DEF Alive, SomeConv
      <4> QED
        BY <4>1 DEF DetailNow, ChatInv, ServerInv
    <3> HIDE DEF d
    <3>3. a \in AnswersAt(Len(runs))
      BY <1>1, <3>2 DEF AnswersAt
    <3> HIDE DEF a
    <3> QED
      BY <1>1, <2>1, <3>1, <3>3, AnswerTasks
  <2>2. CASE t.kind \in {"select", "reload", "refetch", "restore"} /\ ~Alive(t)
    <3>1. Answered(t, "refused", NoAnswer)
      BY <2>2 DEF ServeRead
    <3> QED
      BY <1>1, <3>1, AnswerTasks
  <2>3. CASE t.kind = "recover"
    <3> DEFINE x == runs[t.run].status
               k == runs[t.run].seq
               a == [NoAnswer EXCEPT !.status = x, !.seq = k]
    <3>1. Answered(t, "ok", a)
      BY <2>3 DEF ServeRead
    <3>2. x \in Ended \cup {"active", "none"} /\ k \in 0..MaxSeq
      <4>1. t.run \in 1..Len(runs)
        BY <1>1, <2>3, TaskIs DEF TaskOK
      <4> QED
        BY <4>1, RunIs
    <3> HIDE DEF x, k
    <3>3. a \in AnswersAt(Len(runs))
      BY <1>1, <3>2 DEF AnswersAt
    <3> HIDE DEF a
    <3> QED
      BY <1>1, <2>3, <3>1, <3>3, AnswerTasks
  <2> QED
    BY <2>1, <2>2, <2>3 DEF ServeRead
<1> QED
  BY <1>2, <1>3, RowsStep

LEMMA CommandKeeps ==
  ASSUME ChatInv, NEW t \in tasks, ServeCommand(t), UNCHANGED <<url, seen, st, stream, asked, faults, odd>>
  PROVE  ChatInv'
<1>1. TaskOK(Len(runs), t) /\ NoAnswer \in AnswersAt(Len(runs)) /\ Len(runs) \in Nat
  BY Store, NoneTyped DEF ChatInv, TasksInv
<1>2. t.kind \in {"cancel", "remove"}
  BY DEF ServeCommand
<1>3. runs' \in Seq(RunRows) /\ Len(runs') = Len(runs)
  <2>1. runs \in Seq(RunRows)
    BY DEF ChatInv, ServerInv
  <2>2. CASE runs' = [runs EXCEPT ![t.run].stop = runs[t.run].status = "active"]
    <3> DEFINE b == runs[t.run].status = "active"
    <3>1. b \in BOOLEAN
      OBVIOUS
    <3>2. CASE t.run \in 1..Len(runs)
      <4>1. runs' = [runs EXCEPT ![t.run] = [runs[t.run] EXCEPT !.stop = b]]
        BY <2>2
      <4>2. runs[t.run] \in RunRows
        BY <3>2, RunIs
      <4>3. [runs[t.run] EXCEPT !.stop = b] \in RunRows
        BY <3>1, <4>2 DEF RunRows
      <4> QED
        BY <2>1, <3>2, <4>1, <4>3
    <3>3. CASE t.run \notin 1..Len(runs)
      <4>1. runs' = runs
        BY <2>1, <2>2, <3>3
      <4> QED
        BY <2>1, <4>1
    <3> QED
      BY <3>2, <3>3
  <2>3. CASE runs' = runs
    BY <2>1, <2>3
  <2> QED
    BY <2>2, <2>3 DEF ServeCommand
<1>4. /\ phase' \in [Convs -> {"unborn", "alive", "deleted"}] /\ thread' = thread
      /\ faults' \in 0..MaxFaults
  BY DEF ServeCommand, ChatInv, ServerInv, PageInv
<1>5. \A u \in tasks' : u \in tasks \/ TaskOK(Len(runs), u)
  <2>1. Answered(t, "ok", NoAnswer) \/ Answered(t, "refused", NoAnswer)
    BY DEF ServeCommand
  <2> QED
    BY <1>1, <1>2, <2>1, AnswerTasks
<1> QED
  BY <1>3, <1>4, <1>5, RowsStep

(* A new run.                                                               *)
LEMMA QueueIs ==
  ASSUME ChatInv, NEW c \in Convs, NEW q \in Seq(1..Len(runs)), Len(q) <= Len(runs), QueueRun(c, q),
         phase' \in [Convs -> {"unborn", "alive", "deleted"}]
  PROVE  ServerInv' /\ Len(runs') = Len(runs) + 1
<1> DEFINE m == Len(runs) + 1
           row == [conv |-> c, status |-> "active", seq |-> 0, stop |-> FALSE]
           w == Append(q, m)
<1>1. runs \in Seq(RunRows) /\ Len(runs) \in Nat /\ thread \in [Convs -> Seq(1..Len(runs))]
  BY Store DEF ChatInv, ServerInv
<1>2. row \in RunRows
  BY DEF RunRows
<1>3. runs' = Append(runs, row) /\ thread' = [thread EXCEPT ![c] = w] /\ Len(runs) < MaxRuns
  BY DEF QueueRun
<1> HIDE DEF row
<1>4. runs' \in Seq(RunRows) /\ Len(runs') = m /\ m <= MaxRuns
  BY <1>1, <1>2, <1>3
<1>5. Seq(1..Len(runs)) \subseteq Seq(1..m)
  BY <1>1, TypesGrow
<1>6. w \in Seq(1..m) /\ Len(w) <= m
  <2>1. q \in Seq(1..m) /\ m \in 1..m
    BY <1>1, <1>5
  <2> QED
    BY <1>1, <2>1, AppendIs
<1>7. m \in Nat /\ Len(runs) <= m /\ 1 <= m
  BY <1>1
<1> HIDE DEF m, w
<1>8. thread' \in [Convs -> Seq(1..m)]
  <2>1. thread \in [Convs -> Seq(1..m)]
    BY <1>1, <1>5
  <2> QED
    BY <1>3, <1>6, <2>1
<1>9. \A d \in Convs : Len(thread'[d]) <= m
  <2> SUFFICES ASSUME NEW d \in Convs PROVE Len(thread'[d]) <= m
    OBVIOUS
  <2>1. CASE d = c
    BY <1>1, <1>3, <1>6, <2>1
  <2>2. CASE d # c
    <3>1. thread'[d] = thread[d] /\ Len(thread[d]) <= Len(runs) /\ thread[d] \in Seq(1..Len(runs))
      BY <1>1, <1>3, <2>2 DEF ChatInv, ServerInv
    <3>2. Len(thread[d]) \in Nat
      BY <3>1
    <3> QED
      BY <1>1, <1>7, <3>1, <3>2
  <2> QED
    BY <2>1, <2>2
<1> QED
  BY <1>4, <1>7, <1>8, <1>9 DEF ServerInv, m

LEMMA RunKeeps ==
  ASSUME ChatInv, NEW t \in tasks, ServeRun(t), UNCHANGED <<url, seen, st, stream, asked, faults, odd>>
  PROVE  ChatInv'
<1> DEFINE m == Len(runs) + 1
           new == [NoAnswer EXCEPT !.run = m]
<1>1. /\ TaskOK(Len(runs), t) /\ Len(runs) \in Nat /\ m \in Nat /\ Len(runs) <= m /\ m \in 0..m /\ m # 0
  BY Store DEF ChatInv, TasksInv
<1>2. NoAnswer \in AnswersAt(m) /\ NoAnswer \in AnswersAt(Len(runs))
  BY <1>1, NoneTyped
<1>f. faults' \in 0..MaxFaults
  BY DEF ChatInv, PageInv
<1>r. ASSUME NEW c \in Convs, NEW q \in Seq(1..Len(runs)), Len(q) <= Len(runs), QueueRun(c, q),
             phase' \in [Convs -> {"unborn", "alive", "deleted"}],
             NEW a \in AnswersAt(m), a.run # 0, Answered(t, "ok", a)
      PROVE  ChatInv'
  <2>1. ServerInv' /\ Len(runs') = m
    BY <1>r, QueueIs
  <2>2. \A x \in tasks' : x \in tasks \/ TaskOK(m, x)
    BY <1>1, <1>r, AnswerTasks
  <2>3. Len(runs)' = m
    BY <2>1
  <2> HIDE DEF m
  <2>4. \A x \in tasks' : x \in tasks \/ TaskOK(Len(runs)', x)
    BY <2>2, <2>3
  <2> QED
    BY <1>1, <1>f, <2>1, <2>3, <2>4, ServerStep
<1> HIDE DEF m
<1>3. new \in AnswersAt(m) /\ new.run = m
  BY <1>1, <1>2 DEF AnswersAt
<1>4. phase \in [Convs -> {"unborn", "alive", "deleted"}]
  BY DEF ChatInv, ServerInv
<1>5. CASE t.kind = "create" /\ \E c \in Convs : /\ phase[c] = "unborn" /\ QueueRun(c, <<>>)
                                                 /\ phase' = [phase EXCEPT ![c] = "alive"]
                                                 /\ Answered(t, "ok", [new EXCEPT !.conv = c])
  <2>1. PICK c \in Convs : /\ QueueRun(c, <<>>) /\ phase' = [phase EXCEPT ![c] = "alive"]
                           /\ Answered(t, "ok", [new EXCEPT !.conv = c])
    BY <1>5
  <2>2. c \in SomeConv /\ <<>> \in Seq(1..Len(runs)) /\ Len(<<>>) <= Len(runs)
    BY <1>1 DEF SomeConv
  <2> DEFINE a == [new EXCEPT !.conv = c]
  <2> HIDE DEF new
  <2>3. a \in AnswersAt(m) /\ a.run = m
    BY <1>3, <2>2 DEF AnswersAt
  <2>4. phase' \in [Convs -> {"unborn", "alive", "deleted"}]
    BY <1>4, <2>1
  <2>5. Answered(t, "ok", a)
    BY <2>1
  <2> HIDE DEF a
  <2> QED
    BY <1>1, <1>r, <2>1, <2>2, <2>3, <2>4, <2>5
<1>6. CASE /\ t.kind \in {"send", "regen"} /\ Alive(t)
           /\ \E n \in 0..Len(thread[t.conv]) : QueueRun(t.conv, SubSeq(thread[t.conv], 1, n))
           /\ Answered(t, "ok", new) /\ UNCHANGED phase
  <2>1. t.conv \in Convs
    BY <1>1, <1>6, TaskIs DEF Alive, SomeConv
  <2>2. thread[t.conv] \in Seq(1..Len(runs)) /\ Len(thread[t.conv]) <= Len(runs)
    BY <2>1 DEF ChatInv, ServerInv
  <2>3. PICK n \in 0..Len(thread[t.conv]) : QueueRun(t.conv, SubSeq(thread[t.conv], 1, n))
    BY <1>6
  <2> DEFINE q == SubSeq(thread[t.conv], 1, n)
  <2>4. q \in Seq(1..Len(runs)) /\ Len(q) = n
    BY <2>2, <2>3
  <2>5. Len(q) <= Len(runs)
    BY <1>1, <2>2, <2>3, <2>4
  <2>6. QueueRun(t.conv, q)
    BY <2>3
  <2> HIDE DEF q, new
  <2> QED
    BY <1>1, <1>3, <1>4, <1>6, <1>r, <2>1, <2>4, <2>5, <2>6
<1>7. CASE Answered(t, "refused", NoAnswer) /\ UNCHANGED server
  <2>1. /\ phase' \in [Convs -> {"unborn", "alive", "deleted"}] /\ thread' = thread
        /\ runs' \in Seq(RunRows) /\ Len(runs') = Len(runs)
    BY <1>7 DEF server, ChatInv, ServerInv
  <2>2. \A x \in tasks' : x \in tasks \/ TaskOK(Len(runs), x)
    BY <1>1, <1>2, <1>7, AnswerTasks
  <2> QED
    BY <1>f, <2>1, <2>2, RowsStep
<1> QED
  BY <1>5, <1>6, <1>7 DEF ServeRun, new, m

-----------------------------------------------------------------------------
(* The invariant holds, and says what the run checks.                       *)

LEMMA InitKeeps == ASSUME Init PROVE ChatInv
<1> DEFINE row == [conv |-> First, status |-> "active", seq |-> 0, stop |-> FALSE]
<1>1. row \in RunRows /\ runs = <<row>>
  BY DEF Init, RunRows
<1> HIDE DEF row
<1>2. runs \in Seq(RunRows) /\ Len(runs) = 1
  BY <1>1
<1>3. \A c \in Convs : thread[c] \in Seq(1..1) /\ Len(thread[c]) <= 1
  <2> SUFFICES ASSUME NEW c \in Convs PROVE thread[c] \in Seq(1..1) /\ Len(thread[c]) <= 1
    OBVIOUS
  <2>1. thread[c] = <<1>> \/ thread[c] = <<>>
    BY DEF Init
  <2>2. <<1>> \in Seq(1..1) /\ Len(<<1>>) = 1 /\ <<>> \in Seq(1..1) /\ Len(<<>>) = 0
    <3>1. 1 \in 1..1
      OBVIOUS
    <3> QED
      BY <3>1
  <2>3. CASE thread[c] = <<1>>
    BY <2>2, <2>3
  <2>4. CASE thread[c] = <<>>
    BY <2>2, <2>4
  <2> QED
    BY <2>1, <2>3, <2>4
<1>4. thread = [c \in Convs |-> thread[c]]
  BY DEF Init
<1>5. phase \in [Convs -> {"unborn", "alive", "deleted"}]
  BY DEF Init
<1>6. ServerInv
  <2>1. thread \in [Convs -> Seq(1..1)]
    BY <1>3, <1>4
  <2>2. 1 <= MaxRuns
    OBVIOUS
  <2> QED
    BY <1>2, <1>3, <1>5, <2>1, <2>2 DEF ServerInv
<1>7. PageInv
  BY DEF Init, PageInv, SomeConv
<1>8. StoreInv
  <2>1. st \in Stores(1) /\ stream \in Streams(1)
    BY NoneTyped DEF Init, Stores, SomeConv
  <2>2. st.active = NoRun /\ stream = NoStream
    BY DEF Init
  <2>3. DraftOK(NoRun, NoStream, odd)
    BY DEF DraftOK, Own, Idle, Once, InStep, NoRun, NoStream
  <2>4. NoStream.run = 0 => NoStream.pos = 0
    BY DEF NoStream
  <2> QED
    BY <1>2, <2>1, <2>2, <2>3, <2>4 DEF StoreInv, Fits
<1>9. TasksInv
  BY DEF Init, TasksInv
<1> QED
  BY <1>6, <1>7, <1>8, <1>9 DEF ChatInv

LEMMA NextKeeps == ASSUME ChatInv, [Next]_vars PROVE ChatInv'
<1>1. CASE Worker
  <2>1. PICK r \in DOMAIN runs : Emit(r) \/ \E x \in Ended : EndRun(r, x)
    BY <1>1 DEF Worker
  <2>2. UNCHANGED <<url, seen, st, stream, tasks, asked, faults, odd>>
    BY <1>1 DEF Worker
  <2> QED
    BY <2>1, <2>2, EmitKeeps, EndKeeps
<1>2. CASE User
  BY <1>2, SendKeeps, CancelKeeps, RegenerateKeeps, DeleteKeeps, NavigateKeeps DEF User
<1>3. CASE StreamEvent \/ StreamTerminal \/ Commit \/ StreamBreaks
  BY <1>3, EventKeeps, TerminalKeeps, CommitKeeps, BreaksKeeps
<1>4. ASSUME NEW t \in tasks, Continuation(t) PROVE ChatInv'
  <2>1. TaskOK(Len(runs), t)
    BY DEF ChatInv, TasksInv
  <2>2. CASE Created(t) \/ Sent(t) \/ NotSent(t) \/ Regenerated(t)
    BY <2>1, <2>2, CreatedKeeps, SentKeeps, NotSentKeeps, RegeneratedKeeps
  <2>3. CASE Reloaded(t) \/ NotRegenerated(t) \/ DetailArrived(t) \/ Recovered(t)
    BY <2>1, <2>3, ReloadedKeeps, NotRegeneratedKeeps, ArrivedKeeps, RecoveredKeeps
  <2>4. CASE Restored(t) \/ ConversationDeleted(t) \/ Refetched(t) \/ CancelAnswered(t)
    BY <2>1, <2>4, RestoredKeeps, DeletedKeeps, RefetchedKeeps, CancelAnsweredKeeps
  <2> QED
    BY <1>4, <2>2, <2>3, <2>4 DEF Continuation
<1>5. ASSUME NEW t \in tasks, Serve(t) PROVE ChatInv'
  <2>1. UNCHANGED <<url, seen, st, stream, asked, faults, odd>>
    BY <1>5 DEF Serve
  <2> QED
    BY <1>5, <2>1, RunKeeps, ReadKeeps, CommandKeeps DEF Serve
<1>6. ASSUME NEW t \in tasks, Lose(t) PROVE ChatInv'
  BY <1>6, LoseKeeps
<1>7. CASE UNCHANGED vars
  <2>1. UNCHANGED <<server, url, seen, st, stream, asked>> /\ tasks' = tasks /\ odd' = odd /\ faults' = faults
    BY <1>7 DEF vars
  <2>2. PageInv'
    BY <2>1 DEF ChatInv, PageInv
  <2>3. Fits(Len(runs), st', stream', odd')
    BY <2>1, Store
  <2> QED
    BY <2>1, <2>2, <2>3, PageStep
<1> QED
  BY <1>1, <1>2, <1>3, <1>4, <1>5, <1>6, <1>7 DEF Next, Browser

LEMMA TurnsBounded ==
  ASSUME NEW n \in Nat, n <= MaxRuns, NEW q \in Seq(1..n), Len(q) <= n
  PROVE  q \in UNION {[1..m -> 1..MaxRuns] : m \in 0..MaxRuns}
<1>1. Len(q) \in 0..MaxRuns /\ 1..n \subseteq 1..MaxRuns
  OBVIOUS
<1>2. q \in [1..Len(q) -> 1..MaxRuns]
  BY <1>1
<1> QED
  BY <1>1, <1>2

LEMMA InvSays == ASSUME ChatInv PROVE DraftTrue
<1>1. /\ Len(runs) \in Nat /\ Len(runs) <= MaxRuns /\ 0..Len(runs) \subseteq 0..MaxRuns
      /\ 1..Len(runs) \subseteq 1..MaxRuns
  BY Store DEF ChatInv, ServerInv
<1>2. \A c \in Convs : thread[c] \in UNION {[1..m -> 1..MaxRuns] : m \in 0..MaxRuns}
  BY <1>1, TurnsBounded DEF ChatInv, ServerInv
<1>3. /\ phase \in [Convs -> {"unborn", "alive", "deleted"}]
      /\ \A r \in DOMAIN runs :
           runs[r] \in [conv : Convs, status : Ended \cup {"active"}, seq : 0..MaxSeq, stop : BOOLEAN]
  <2>1. phase \in [Convs -> {"unborn", "alive", "deleted"}] /\ runs \in Seq(RunRows)
    BY DEF ChatInv, ServerInv
  <2>2. \A r \in DOMAIN runs : runs[r] \in RunRows
    BY <2>1
  <2> QED
    BY <2>1, <2>2 DEF RunRows
<1>4. st.detail \in Details(Len(runs)) /\ st.active \in Actives(Len(runs)) /\ st.pending \in Submissions
  BY Store, Parts
<1>5. /\ st.sel \in Convs \cup {None} /\ st.detail.conv \in Convs \cup {None}
      /\ st.detail.done \subseteq 1..MaxRuns /\ st.detail.status \in {"idle", "loading", "ready", "forbidden"}
  BY <1>1, <1>4, Store DEF Details, SomeConv
<1>6. \A k \in DOMAIN st.detail.turns : st.detail.turns[k] \in 1..MaxRuns
  <2>1. st.detail.turns \in Seq(1..Len(runs))
    BY <1>4 DEF Details
  <2> QED
    BY <1>1, <2>1
<1>7. /\ st.active.run \in 0..MaxRuns /\ st.active.conv \in Convs \cup {None} /\ st.active.seq \in 0..MaxSeq
      /\ st.active.status \in Ended \cup {"none", "started", "streaming", "cancelling"}
      /\ st.pending \in [busy : BOOLEAN, conv : Convs \cup {None}]
  BY <1>1, <1>4 DEF Actives, ActiveStatus, Submissions, SomeConv
<1>8. stream \in [run : 0..MaxRuns, conv : Convs \cup {None}, pos : 0..MaxSeq]
  BY <1>1, Store DEF Streams, SomeConv
<1>9. \A t \in tasks : t.kind \in Kinds /\ t.step \in {"sent", "ok", "refused", "lost"}
  BY DEF ChatInv, TasksInv, TaskOK, TasksAt
<1>10. /\ url \in Convs \cup {None} /\ seen \in [ready : BOOLEAN, url : Convs \cup {None}, sel : Convs \cup {None}]
       /\ asked \in 0..MaxAsked /\ faults \in 0..MaxFaults /\ odd \subseteq {"race", "lag"}
  BY DEF ChatInv, PageInv, SomeConv
<1>11. TypeOK
  BY <1>1, <1>2, <1>3, <1>5, <1>6, <1>7, <1>8, <1>9, <1>10 DEF TypeOK
<1>12. DraftOK(st.active, stream, odd)
  BY Store DEF Fits
<1>13. DraftOfItsRun /\ EventsOnceUnlessLagging
  BY <1>12 DEF DraftOK, Own, Once, DraftOfItsRun, EventsOnceUnlessLagging, EventsOnce
<1> QED
  BY <1>11, <1>13 DEF DraftTrue

LEMMA ChatInvariant == Spec => []ChatInv
  BY InitKeeps, NextKeeps, PTL DEF Spec

(* useRunStream: "a late event never lands on the wrong run", and "events   *)
(* are never dispatched twice".  However many conversations, runs and       *)
(* events there are, and whatever is sent, regenerated, recovered, deleted  *)
(* and navigated while streams and requests overtake each other, the draft  *)
(* on the screen is made of events of its own run, and unless an ended run  *)
(* was restored behind the stream that still reads it, of all of them up to *)
(* latestSeq, once and in order.                                            *)
THEOREM DraftStaysTrue == Spec => []DraftTrue
  BY ChatInvariant, InvSays, PTL
=============================================================================
