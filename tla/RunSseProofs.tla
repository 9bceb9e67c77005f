----------------------------- MODULE RunSseProofs -----------------------------
(***************************************************************************)
(* Proofs about RunSse, for every length of run and of stream: the types,  *)
(* the order of what a resumed client sees (ResumedTextInOrder) and that   *)
(* neither answer a browser starts from has a hole (AnswersHaveNoHole).    *)
(*                                                                         *)
(* None of the three is inductive.  Order needs that the merge never sends *)
(* the whole snapshot to a client that resumed (ResumeInv); completeness   *)
(* needs that the stream covers every event read before it (HealthyInv),   *)
(* because PostgreSQL, Redis and the draft are read at different times.    *)
(***************************************************************************)
EXTENDS RunSse, SequenceTheorems, FiniteSetTheorems, TLAPS

-----------------------------------------------------------------------------
(* Texts.                                                                   *)

(* s has the letters D, each of them once and in order.                     *)
IsText(s, D) == s \in Seq(Nat) /\ Increasing(s) /\ Range(s) = D

(* The rank of a member of a set of numbers.                                *)
Below(D, n) == {m \in D : m < n}

(* The numbers of a finite set can be put in order: the n with i - 1 others *)
(* below it comes at place i.                                               *)
LEMMA SortExists ==
  ASSUME NEW D \in SUBSET Nat, IsFiniteSet(D)
  PROVE  \E s \in [1..Cardinality(D) -> D] : Increasing(s)
<1> DEFINE k    == Cardinality(D)
           rank == [n \in D |-> Cardinality(Below(D, n)) + 1]
<1>1. k \in Nat
  BY FS_CardinalityType
<1>2. ASSUME NEW n \in D
      PROVE  /\ IsFiniteSet(Below(D, n)) /\ Cardinality(Below(D, n)) \in Nat
             /\ Cardinality(Below(D, n)) < k
  <2>1. Below(D, n) \in SUBSET D /\ n \in D /\ n \notin Below(D, n)
    BY DEF Below
  <2>2. /\ IsFiniteSet(Below(D, n)) /\ Cardinality(Below(D, n)) <= k
        /\ Cardinality(D) = Cardinality(Below(D, n)) => D = Below(D, n)
    BY <2>1, FS_Subset
  <2>3. Cardinality(Below(D, n)) \in Nat
    BY <2>2, FS_CardinalityType
  <2> QED BY <1>1, <2>1, <2>2, <2>3
<1>3. ASSUME NEW m \in D, NEW n \in D, m < n
      PROVE  rank[m] < rank[n]
  <2>1. Below(D, m) \in SUBSET Below(D, n) /\ m \in Below(D, n) /\ m \notin Below(D, m)
    <3>1. m \in Nat /\ n \in Nat /\ \A l \in D : l \in Nat
      OBVIOUS
    <3>2. ~(m < m) /\ \A l \in D : l < m => l < n
      BY <1>3, <3>1
    <3>3. \A l \in Below(D, m) : l \in Below(D, n)
      BY <3>2 DEF Below
    <3>4. m \in Below(D, n) /\ m \notin Below(D, m)
      BY <1>3, <3>2 DEF Below
    <3> QED BY <3>3, <3>4
  <2>2. /\ Cardinality(Below(D, m)) <= Cardinality(Below(D, n))
        /\ Cardinality(Below(D, n)) = Cardinality(Below(D, m)) => Below(D, n) = Below(D, m)
    BY <1>2, <2>1, FS_Subset
  <2>3. Cardinality(Below(D, m)) < Cardinality(Below(D, n))
    BY <1>2, <2>1, <2>2
  <2> QED BY <1>2, <2>3
<1>4. rank \in Injection(D, 1..k)
  <2>1. rank \in [D -> 1..k]
    BY <1>1, <1>2
  <2>2. ASSUME NEW m \in D, NEW n \in D, rank[m] = rank[n] PROVE m = n
    <3>1. ~(m < n) /\ ~(n < m)
      <4>1. rank[m] \in Nat /\ rank[n] \in Nat BY <2>1
      <4> HIDE DEF rank
      <4> QED BY <1>3, <2>2, <4>1
    <3> QED BY <3>1
  <2> HIDE DEF rank
  <2> QED BY <2>1, <2>2 DEF Injection, IsInjective
<1>5. rank \in Surjection(D, 1..k)
  <2>1. IsFiniteSet(1..k) /\ Cardinality(1..k) = k
    BY <1>1, FS_Interval
  <2> HIDE DEF rank
  <2> QED BY <1>4, <2>1, FS_Injection
<1> DEFINE s == [i \in 1..k |-> CHOOSE n \in D : rank[n] = i]
<1> HIDE DEF rank
<1>6. \A i \in 1..k : s[i] \in D /\ rank[s[i]] = i
  BY <1>5 DEF Surjection, Range
<1>7. s \in [1..k -> D]
  BY <1>6
<1>8. Increasing(s)
  <2>1. ASSUME NEW i \in 1..k, NEW j \in 1..k, i < j PROVE s[i] < s[j]
    <3>1. s[i] \in D /\ s[j] \in D /\ rank[s[i]] = i /\ rank[s[j]] = j
      BY <1>6
    <3> HIDE DEF s
    <3>2. s[j] # s[i]
      BY <1>1, <2>1, <3>1
    <3>3. ~(s[j] < s[i])
      <4>1. ASSUME s[j] < s[i] PROVE rank[s[j]] < rank[s[i]]
        BY <1>3, <3>1, <4>1
      <4> QED BY <1>1, <2>1, <3>1, <4>1
    <3>4. s[i] \in Nat /\ s[j] \in Nat
      BY <3>1
    <3> QED BY <3>2, <3>3, <3>4
  <2> HIDE DEF s
  <2> QED BY <1>7, <2>1 DEF Increasing
<1> QED BY <1>7, <1>8

(* A text in order has no letter twice.                                     *)
LEMMA IncreasingIsInjective ==
  ASSUME NEW s \in Seq(Nat), Increasing(s)
  PROVE  \A i, j \in 1..Len(s) : s[i] = s[j] => i = j
<1> SUFFICES ASSUME NEW i \in 1..Len(s), NEW j \in 1..Len(s), s[i] = s[j] PROVE i = j
  OBVIOUS
<1>1. ~(i < j) /\ ~(j < i)
  BY DEF Increasing
<1> QED BY <1>1

(* Two texts with the same letters are the same.                            *)
LEMMA TextsAgree ==
  ASSUME NEW D, NEW s, NEW t, IsText(s, D), IsText(t, D)
  PROVE  s = t
<1>1. /\ s \in Seq(Nat) /\ t \in Seq(Nat) /\ Increasing(s) /\ Increasing(t)
      /\ Range(s) = Range(t)
  BY DEF IsText
<1>2. /\ \A i, j \in 1..Len(s) : s[i] = s[j] => i = j
      /\ \A i, j \in 1..Len(t) : t[i] = t[j] => i = j
  BY <1>1, IncreasingIsInjective
<1>3. /\ \A i \in 1..Len(s) : \E j \in 1..Len(t) : s[i] = t[j]
      /\ \A j \in 1..Len(t) : \E i \in 1..Len(s) : s[i] = t[j]
  <2>1. /\ DOMAIN s = 1..Len(s) /\ DOMAIN t = 1..Len(t)
        /\ \A i \in DOMAIN s : s[i] \in Range(t)
        /\ \A j \in DOMAIN t : t[j] \in Range(s)
    <3>1. DOMAIN s = 1..Len(s) /\ DOMAIN t = 1..Len(t)
      BY <1>1
    <3>2. (\A i \in DOMAIN s : s[i] \in Range(s)) /\ \A j \in DOMAIN t : t[j] \in Range(t)
      BY DEF Range
    <3> QED BY <1>1, <3>1, <3>2
  <2> QED BY <2>1 DEF Range
(* the first place at which one of the two ends or they differ              *)
<1> DEFINE Differ == {i \in Nat \ {0} :
                        \/ i <= Len(s) /\ i <= Len(t) /\ s[i] # t[i]
                        \/ i = Len(s) + 1 /\ i <= Len(t)
                        \/ i = Len(t) + 1 /\ i <= Len(s)}
<1>4. Differ = {}
  <2> SUFFICES ASSUME Differ # {} PROVE FALSE
    OBVIOUS
  <2>1. PICK i \in Differ : \A j \in Differ : i <= j
    <3>1. Differ \subseteq Nat OBVIOUS
    <3>2. \E x \in Differ : \A y \in Differ : ~(<<y, x>> \in OpToRel(<, Nat))
      <4> HIDE DEF Differ
      <4> QED BY <3>1, NatLessThanWellFounded, WFMin
    <3>3. PICK x \in Differ : \A y \in Differ : ~(<<y, x>> \in OpToRel(<, Nat))
      BY <3>2
    <3>4. ASSUME NEW y \in Differ PROVE x <= y
      <4>1. x \in Nat /\ y \in Nat BY <3>1
      <4>2. ~(y < x) BY <3>3, <4>1 DEF OpToRel
      <4> QED BY <4>1, <4>2
    <3> QED BY <3>4
  <2>2. i \in Nat \ {0} /\ Len(s) \in Nat /\ Len(t) \in Nat
    BY <1>1
  <2>3. \A j \in 1..(i - 1) : j <= Len(s) /\ j <= Len(t) /\ s[j] = t[j]
    <3> SUFFICES ASSUME NEW j \in 1..(i - 1) PROVE j <= Len(s) /\ j <= Len(t) /\ s[j] = t[j]
      OBVIOUS
    <3>1. j \notin Differ /\ j < i BY <2>1, <2>2
    <3>2. i <= Len(s) + 1 /\ i <= Len(t) + 1 BY <2>2
    <3> QED BY <2>2, <3>1, <3>2
  <2> HIDE DEF Differ
  <2>4. ~(i <= Len(s) /\ i <= Len(t) /\ s[i] < t[i])
    <3> SUFFICES ASSUME i <= Len(s), i <= Len(t), s[i] < t[i] PROVE FALSE
      OBVIOUS
    <3>1. PICK j \in 1..Len(t) : t[j] = s[i] BY <1>3, <2>2
    <3>2. ~(j < i)
      <4> SUFFICES ASSUME j < i PROVE FALSE
        OBVIOUS
      <4>1. j \in 1..(i - 1) BY <2>2
      <4>2. j <= Len(s) /\ j <= Len(t) /\ s[j] = t[j] BY <2>3, <4>1
      <4>3. i \in 1..Len(s) /\ j \in 1..Len(s) /\ i \in 1..Len(t) /\ j \in 1..Len(t)
        BY <2>2, <4>2
      <4>4. i = j BY <1>2, <3>1, <4>2, <4>3
      <4>5. i \in Int /\ j \in Int BY <2>2
      <4> QED BY <4>4, <4>5
    <3>3. ~(i < j)
      <4> SUFFICES ASSUME i < j PROVE FALSE
        OBVIOUS
      <4>1. t[i] < t[j] BY <1>1, <2>2 DEF Increasing
      <4>2. s[i] \in Nat /\ t[i] \in Nat BY <1>1, <2>2
      <4> QED BY <3>1, <4>1, <4>2
    <3> QED BY <1>1, <2>2, <3>1, <3>2, <3>3
  <2>5. ~(i <= Len(s) /\ i <= Len(t) /\ t[i] < s[i])
    <3> SUFFICES ASSUME i <= Len(s), i <= Len(t), t[i] < s[i] PROVE FALSE
      OBVIOUS
    <3>1. PICK j \in 1..Len(s) : s[j] = t[i] BY <1>3, <2>2
    <3>2. ~(j < i)
      <4> SUFFICES ASSUME j < i PROVE FALSE
        OBVIOUS
      <4>1. j \in 1..(i - 1) BY <2>2
      <4>2. j <= Len(s) /\ j <= Len(t) /\ s[j] = t[j] BY <2>3, <4>1
      <4>3. i \in 1..Len(s) /\ j \in 1..Len(s) /\ i \in 1..Len(t) /\ j \in 1..Len(t)
        BY <2>2, <4>2
      <4>4. i = j BY <1>2, <3>1, <4>2, <4>3
      <4>5. i \in Int /\ j \in Int BY <2>2
      <4> QED BY <4>4, <4>5
    <3>3. ~(i < j)
      <4> SUFFICES ASSUME i < j PROVE FALSE
        OBVIOUS
      <4>1. s[i] < s[j] BY <1>1, <2>2 DEF Increasing
      <4>2. t[i] \in Nat /\ s[i] \in Nat BY <1>1, <2>2
      <4> QED BY <3>1, <4>1, <4>2
    <3> QED BY <1>1, <2>2, <3>1, <3>2, <3>3
  <2>6. ~(i <= Len(s) /\ i <= Len(t))
    <3> SUFFICES ASSUME i <= Len(s), i <= Len(t) PROVE FALSE
      OBVIOUS
    <3>1. s[i] \in Nat /\ t[i] \in Nat BY <1>1, <2>2
    <3>2. s[i] # t[i] BY <2>1, <2>2 DEF Differ
    <3> QED BY <2>4, <2>5, <3>1, <3>2
  <2>7. ~(i = Len(s) + 1 /\ i <= Len(t))
    <3> SUFFICES ASSUME i = Len(s) + 1, i <= Len(t) PROVE FALSE
      OBVIOUS
    <3>1. i \in 1..Len(t) BY <2>2
    <3>2. PICK j \in 1..Len(s) : s[j] = t[i] BY <1>3, <3>1
    <3>3. j \in 1..(i - 1) BY <2>2
    <3>4. j \in 1..Len(t) /\ s[j] = t[j] BY <2>2, <2>3, <3>3
    <3>5. i = j BY <1>2, <3>1, <3>2, <3>4
    <3> QED BY <2>2, <3>3, <3>5
  <2>8. ~(i = Len(t) + 1 /\ i <= Len(s))
    <3> SUFFICES ASSUME i = Len(t) + 1, i <= Len(s) PROVE FALSE
      OBVIOUS
    <3>1. i \in 1..Len(s) BY <2>2
    <3>2. PICK j \in 1..Len(t) : t[j] = s[i] BY <1>3, <3>1
    <3>3. j \in 1..(i - 1) BY <2>2
    <3>4. j \in 1..Len(s) /\ s[j] = t[j] BY <2>2, <2>3, <3>3
    <3>5. i = j BY <1>2, <3>1, <3>2, <3>4
    <3> QED BY <2>2, <3>3, <3>5
  <2> QED BY <2>1, <2>6, <2>7, <2>8 DEF Differ
<1>5. Len(s) = Len(t)
  <2>1. Len(s) \in Nat /\ Len(t) \in Nat BY <1>1
  <2>2. Len(s) + 1 \notin Differ /\ Len(t) + 1 \notin Differ
    <3>1. \A i : i \notin Differ
      BY <1>4
    <3> QED BY <3>1
  <2>3. ~(Len(s) + 1 <= Len(t)) /\ ~(Len(t) + 1 <= Len(s)) BY <2>1, <2>2
  <2> QED BY <2>1, <2>3
<1>6. \A i \in 1..Len(s) : s[i] = t[i]
  <2> SUFFICES ASSUME NEW i \in 1..Len(s), s[i] # t[i] PROVE FALSE
    OBVIOUS
  <2>1. i \in Nat \ {0} /\ i <= Len(s) /\ i <= Len(t)
    BY <1>1, <1>5
  <2>2. i \in Differ
    BY <2>1
  <2> QED BY <1>4, <2>2
<1> QED BY <1>1, <1>5, <1>6, SeqEqual

(* A text can be continued with later letters.                              *)
LEMMA TextGoesOn ==
  ASSUME NEW C, NEW D, NEW s, NEW t, IsText(s, C), IsText(t, D),
         \A m \in C, n \in D : m < n
  PROVE  IsText(s \o t, C \cup D)
<1>1. /\ s \in Seq(Nat) /\ t \in Seq(Nat) /\ Increasing(s) /\ Increasing(t)
      /\ Range(s) = C /\ Range(t) = D
  BY DEF IsText
<1>2. /\ s \o t \in Seq(Nat) /\ Len(s \o t) = Len(s) + Len(t)
      /\ \A i \in 1..Len(s) + Len(t) :
           (s \o t)[i] = IF i <= Len(s) THEN s[i] ELSE t[i - Len(s)]
  BY <1>1, ConcatProperties
<1>3. Range(s \o t) = C \cup D
  BY <1>1, RangeConcatenation
<1>4. Increasing(s \o t)
  <2> SUFFICES ASSUME NEW i \in 1..Len(s) + Len(t), NEW j \in 1..Len(s) + Len(t), i < j
               PROVE  (s \o t)[i] < (s \o t)[j]
    BY <1>2 DEF Increasing
  <2>1. \A m \in 1..Len(s) : s[m] \in C
    BY <1>1 DEF Range
  <2>2. \A m \in 1..Len(t) : t[m] \in D
    BY <1>1 DEF Range
  <2>3. Len(s) \in Nat /\ Len(t) \in Nat
    BY <1>1
  <2>4. CASE j <= Len(s)
    <3>1. (s \o t)[i] = s[i] /\ (s \o t)[j] = s[j] BY <1>2, <2>3, <2>4
    <3> QED BY <1>1, <2>3, <2>4, <3>1 DEF Increasing
  <2>5. CASE i <= Len(s) /\ Len(s) < j
    <3>1. (s \o t)[i] = s[i] /\ (s \o t)[j] = t[j - Len(s)] BY <1>2, <2>3, <2>5
    <3>2. s[i] \in C /\ t[j - Len(s)] \in D BY <2>1, <2>2, <2>3, <2>5
    <3> QED BY <3>1, <3>2
  <2>6. CASE Len(s) < i
    <3>1. (s \o t)[i] = t[i - Len(s)] /\ (s \o t)[j] = t[j - Len(s)] BY <1>2, <2>3, <2>6
    <3>2. i - Len(s) \in 1..Len(t) /\ j - Len(s) \in 1..Len(t) /\ i - Len(s) < j - Len(s)
      BY <2>3, <2>6
    <3> QED BY <1>1, <3>1, <3>2 DEF Increasing
  <2> QED BY <2>3, <2>4, <2>5, <2>6
<1> QED BY <1>2, <1>3, <1>4 DEF IsText

(* Nothing to add.                                                          *)
LEMMA EmptyText == IsText(<<>>, {})
<1>1. <<>> \in Seq(Nat) /\ DOMAIN <<>> = 1..0
  OBVIOUS
<1> QED BY <1>1 DEF IsText, Increasing, Range

(* The greatest of a set of seqs.                                           *)
LEMMA MaxIsMax ==
  ASSUME NEW K \in Nat, NEW S \in SUBSET (0..K), S # {}
  PROVE  Max(S) \in S /\ \A n \in S : n <= Max(S)
<1> DEFINE Upper == {u \in Nat : \A n \in S : n <= u}
<1>1. K \in Upper
  OBVIOUS
<1>2. \E u \in Upper : \A v \in Upper : ~(<<v, u>> \in OpToRel(<, Nat))
  <2>1. Upper \subseteq Nat OBVIOUS
  <2> HIDE DEF Upper
  <2> QED BY <1>1, <2>1, NatLessThanWellFounded, WFMin
<1>3. PICK u \in Upper : \A v \in Upper : ~(<<v, u>> \in OpToRel(<, Nat))
  BY <1>2
<1>4. u \in S
  <2> SUFFICES ASSUME u \notin S PROVE FALSE
    OBVIOUS
  <2>1. \A n \in S : n \in Nat /\ n <= u /\ n # u
    OBVIOUS
  <2>2. u \in Nat /\ u # 0
    <3>1. PICK n \in S : TRUE
      OBVIOUS
    <3> QED BY <2>1, <3>1
  <2>3. u - 1 \in Upper
    BY <2>1, <2>2
  <2>4. <<u - 1, u>> \in OpToRel(<, Nat)
    BY <2>2 DEF OpToRel
  <2> QED BY <1>3, <2>3, <2>4
<1>5. \E x \in S : \A y \in S : x >= y
  BY <1>4
<1>6. Max(S) \in S /\ \A y \in S : Max(S) >= y
  BY <1>5 DEF Max
<1> QED BY <1>6

-----------------------------------------------------------------------------
(* The invariant.                                                           *)

(* The seqs that exist: the events so far and, once the run has ended, the  *)
(* terminal event.                                                          *)
Known == {n \in 1..(last + 1) : n = last + 1 => phase # "running"}

(* Where everybody is.                                                      *)
ControlInv ==
  /\ todo \subseteq {"redis", "pg", "draft"}
  /\ phase \in {"running", "ended", "published", "deleted"}
  /\ pc \in {"off", "list", "replay", "merge", "check", "tail", "closed"}
  /\ st \in {"idle", "row", "events", "draft"}
  /\ baseline \in BOOLEAN /\ first \in BOOLEAN /\ terminal \in BOOLEAN
  /\ stEnded \in BOOLEAN /\ healthy \in BOOLEAN

(* The worker emits an event when all sinks have the one before it, and a   *)
(* draft ends with a delta.                                                 *)
WorkerInv ==
  /\ types \in Seq({"delta", "tool"}) /\ last <= MaxSeq
  /\ phase # "running" => todo = {}
  /\ todo # {} => last > 0
  /\ draft \in {0} \cup Deltas(1..last) /\ latest \in {0} \cup Deltas(1..last)
  /\ events \subseteq Known /\ stream \subseteq Known

(* No seq that a request remembers is ahead of the run.                     *)
SeenInv ==
  /\ cursor \in {0} \cup Known /\ after \in {0} \cup Known
  /\ stSeq \in {0} \cup Known /\ stAfter \in {0} \cup Known
  /\ persisted \subseteq Known /\ streamed \subseteq Known
  /\ shown \in Seq(Nat) /\ sent \in Seq(Nat)

(* What a client that resumed has on its screen is in order and not beyond  *)
(* the cursor; and the merge never sends it the whole snapshot: in the      *)
(* first iteration the server does not know what the client has, and in the *)
(* others the merge has not asked Redis, so that a newer draft is always    *)
(* sent as its events.                                                      *)
ResumeInv ==
  /\ pc = "off" => after = 0
  /\ st # "idle" => pc = "off"
  /\ st = "draft" => IsText(stText, Deltas(1..stAfter)) /\ stAfter <= stSeq
  /\ after > 0 => Increasing(shown) /\ \A n \in Range(shown) : n <= cursor
  /\ after > 0 /\ first /\ pc \in {"list", "replay", "merge"} => ~baseline
  /\ pc = "replay" => first
  /\ pc = "tail" => ~first
  /\ pc = "merge" => /\ ~first => streamed = {}
                     /\ \A n \in streamed : n > cursor

(* As long as Redis has lost nothing, the stream has every delta but the    *)
(* one on its way to it, and has all those before an event of PostgreSQL.   *)
StreamInv ==
  /\ \A n \in Deltas(1..last) : n \in stream \/ (n = last /\ "redis" \in todo)
  /\ \A n \in events : Deltas(1..n) \subseteq stream

(* get_owned_run_state: what the draft lacks up to stSeq, the stream has.   *)
StateReads ==
  st \in {"events", "draft"} =>
    \A n \in Deltas(1..stSeq) : n \in stream \/ (st = "draft" /\ n <= stAfter)

(* The first iteration of iter_run_events: the client has everything up to  *)
(* the cursor, and what comes before an event that was read was read too.   *)
ConnReads ==
  /\ first /\ pc \in {"list", "replay", "merge"} => IsText(shown, Deltas(1..cursor))
  /\ pc = "replay" => \A n \in persisted : Deltas(1..n) \subseteq stream
  /\ first /\ pc = "merge" =>
       \A n \in persisted \cup streamed :
         \A m \in Deltas(1..n) : m > cursor => m \in streamed

HealthyInv == healthy => StreamInv /\ StateReads /\ ConnReads

SseInv == /\ ControlInv /\ WorkerInv /\ SeenInv /\ ResumeInv
          /\ HealthyInv /\ ReplayComplete

-----------------------------------------------------------------------------
(* What the operators of the model return.                                  *)
USE SseAssumption DEF last, TerminalSeq, Deltas

(* Text(S) has the deltas of S, in order.                                   *)
LEMMA TextIs ==
  ASSUME WorkerInv, NEW S \in SUBSET Nat
  PROVE  IsText(Text(S), Deltas(S))
<1> DEFINE D == Deltas(S)
           k == Cardinality(D)
<1>1. last \in Nat /\ D \in SUBSET Nat /\ \A n \in D : n <= last
  <2>1. last \in Nat
    BY DEF WorkerInv
  <2> QED BY <2>1
<1>2. IsFiniteSet(D) /\ k \in Nat
  BY <1>1, FS_BoundedSetOfNaturals, FS_CardinalityType
<1>3. Text(S) \in [1..k -> D] /\ Increasing(Text(S))
  <2> HIDE DEF D
  <2>1. \E s \in [1..k -> D] : Increasing(s)
    BY <1>1, <1>2, SortExists
  <2>2. Text(S) = CHOOSE s \in [1..k -> D] : Increasing(s)
    BY DEF Text, D
  <2> HIDE DEF k
  <2> QED BY <2>1, <2>2
<1> HIDE DEF D
<1>4. Text(S) \in Seq(Nat) /\ Len(Text(S)) = k
  <2>1. Text(S) \in [1..k -> Nat] /\ k \in Nat
    BY <1>1, <1>2, <1>3
  <2> HIDE DEF k
  <2> QED BY <2>1
<1>5. Text(S) \in Injection(1..k, D)
  BY <1>2, <1>3, <1>4, IncreasingIsInjective DEF Injection, IsInjective
<1>6. IsFiniteSet(1..k) /\ Cardinality(1..k) = k
  BY <1>2, FS_Interval
<1>7. Text(S) \in Surjection(1..k, D)
  BY <1>2, <1>5, <1>6, FS_Injection
<1>8. Range(Text(S)) = D
  BY <1>3, <1>7 DEF Surjection, Range
<1> QED BY <1>3, <1>4, <1>8 DEF IsText, D

(* The greatest of some seqs and of numbers known to be seqs.               *)
LEMMA MaxKnown ==
  ASSUME WorkerInv, NEW S \in SUBSET ({0} \cup Known), S # {}
  PROVE  Max(S) \in S /\ \A n \in S : n <= Max(S)
<1> DEFINE K == MaxSeq + 1
<1>1. last \in Nat /\ last <= MaxSeq
  BY DEF WorkerInv
<1>2. K \in Nat /\ S \in SUBSET (0..K)
  BY <1>1 DEF Known
<1> HIDE DEF K
<1> QED BY <1>2, MaxIsMax

(* What a Newest keeps, and what it never drops.                            *)
LEMMA NewestKeeps ==
  ASSUME NEW S \in SUBSET Nat, NEW k \in Nat
  PROVE  /\ Newest(S, k) \subseteq S
         /\ \A n \in S : k > 0 /\ (\A m \in S : ~(m > n)) => n \in Newest(S, k)
         /\ IsFiniteSet(S) /\ Cardinality(S) <= k => Newest(S, k) = S
<1>1. Newest(S, k) \subseteq S
  BY DEF Newest
<1>2. ASSUME NEW n \in S, k > 0, \A m \in S : ~(m > n) PROVE n \in Newest(S, k)
  <2>1. {m \in S : m > n} = {} BY <1>2
  <2>2. Cardinality({m \in S : m > n}) = 0 BY <2>1, FS_EmptySet
  <2> QED BY <1>2, <2>2 DEF Newest
<1>3. ASSUME IsFiniteSet(S), Cardinality(S) <= k, NEW n \in S
      PROVE n \in Newest(S, k)
  <2> DEFINE T == {m \in S : m > n}
  <2>1. T \in SUBSET S /\ n \notin T BY <1>3
  <2> HIDE DEF T
  <2>2. /\ Cardinality(T) <= Cardinality(S) /\ IsFiniteSet(T)
        /\ Cardinality(S) = Cardinality(T) => S = T
    BY <1>3, <2>1, FS_Subset
  <2>3. Cardinality(S) \in Nat /\ Cardinality(T) \in Nat BY <1>3, <2>2, FS_CardinalityType
  <2>4. Cardinality(T) < k BY <1>3, <2>1, <2>2, <2>3
  <2> QED BY <2>4 DEF Newest, T
<1> QED BY <1>1, <1>2, <1>3

(* A step of the worker only adds seqs.                                     *)
LEMMA EmitAdds ==
  ASSUME WorkerInv, Emit
  PROVE  /\ types' \in Seq({"delta", "tool"}) /\ last' = last + 1 /\ last \in Nat
         /\ \A n \in 1..last : types'[n] = types[n]
         /\ \A n \in 0..last : Deltas(1..n)' = Deltas(1..n)
<1>1. PICK t \in {"delta", "tool"} : types' = Append(types, t)
  BY DEF Emit
<1>2. types \in Seq({"delta", "tool"})
  BY DEF WorkerInv
<1> QED BY <1>1, <1>2, AppendProperties

(* An XADD adds at most its event; if nothing went wrong it adds it.        *)
LEMMA XAddAdds ==
  ASSUME WorkerInv, ControlInv, NEW e \in Known', XAdd(e)
  PROVE  /\ stream' \subseteq stream \cup {e}
         /\ healthy' \in BOOLEAN /\ (healthy' => healthy)
         /\ healthy' => stream \subseteq stream'
         /\ healthy' /\ (\A m \in stream : m <= e) => e \in stream'
<1>1. stream \in SUBSET Nat /\ e \in Nat
  BY DEF WorkerInv, Known
<1>2. CASE healthy' = FALSE /\ UNCHANGED stream
  BY <1>2
<1>3. ASSUME NEW k \in MaxEvents..(MaxSeq + 1),
             stream' = Newest(stream \cup {e}, k), healthy' = (healthy /\ stream \subseteq stream')
      PROVE  /\ stream' \subseteq stream \cup {e}
             /\ healthy' \in BOOLEAN /\ (healthy' => healthy)
             /\ healthy' => stream \subseteq stream'
             /\ healthy' /\ (\A m \in stream : m <= e) => e \in stream'
  <2>1. k \in Nat /\ k > 0 /\ stream \cup {e} \in SUBSET Nat
    BY <1>1
  <2>2. stream' \subseteq stream \cup {e}
    BY <1>3, <2>1, NewestKeeps
  <2>3. (\A m \in stream : m <= e) => e \in stream'
    <3> SUFFICES ASSUME \A m \in stream : m <= e PROVE e \in stream'
      OBVIOUS
    <3>1. \A m \in stream \cup {e} : ~(m > e)
      BY <1>1
    <3> QED BY <1>3, <2>1, <3>1, NewestKeeps
  <2> QED BY <1>3, <2>2, <2>3 DEF ControlInv
<1> QED BY <1>2, <1>3 DEF XAdd

(* The events of the draft that Redis did not deliver are deltas of the     *)
(* draft, after the cursor; a draft of no more than MaxEvents deltas has    *)
(* them all, and any draft has its last.                                    *)
LEMMA CheckpointEventsAre ==
  ASSUME WorkerInv, SeenInv
  PROVE  /\ \A n \in CheckpointEvents : n \in Deltas(1..draft) /\ n > cursor
         /\ draft > cursor => draft \in CheckpointEvents \cup streamed
         /\ draft > cursor /\ Cardinality(Deltas(1..last)) <= MaxEvents
              => \A n \in Deltas(1..draft) : n > cursor => n \in CheckpointEvents \cup streamed
<1>1. last \in Nat /\ draft \in Nat /\ draft <= last /\ Deltas(1..draft) \subseteq Deltas(1..last)
  BY DEF WorkerInv
<1>2. draft > cursor => draft \in Deltas(1..draft)
  BY <1>1 DEF WorkerInv, SeenInv, Known
<1>3. Deltas(1..draft) \in SUBSET Nat
  BY <1>1
<1>4. DraftEvents \subseteq Deltas(1..draft)
  BY <1>3, NewestKeeps DEF DraftEvents
<1>5. draft > cursor => draft \in DraftEvents
  <2>1. \A m \in Deltas(1..draft) : ~(m > draft)
    BY <1>1
  <2> DEFINE D == Deltas(1..draft)
  <2>2. D \in SUBSET Nat /\ MaxEvents \in Nat /\ MaxEvents > 0 /\ DraftEvents = Newest(D, MaxEvents)
    BY <1>3 DEF DraftEvents
  <2>3. (\A m \in D : ~(m > draft)) /\ (draft > cursor => draft \in D)
    BY <1>2, <2>1
  <2> HIDE DEF D
  <2> QED BY <2>2, <2>3, NewestKeeps
<1>6. Cardinality(Deltas(1..last)) <= MaxEvents => DraftEvents = Deltas(1..draft)
  <2>1. IsFiniteSet(Deltas(1..last))
    <3>1. IsFiniteSet(1..last) /\ Deltas(1..last) \in SUBSET (1..last)
      BY <1>1, FS_Interval
    <3> QED BY <3>1, FS_Subset
  <2>2. IsFiniteSet(Deltas(1..draft)) /\ Cardinality(Deltas(1..draft)) <= Cardinality(Deltas(1..last))
    BY <1>1, <2>1, FS_Subset
  <2>3. Cardinality(Deltas(1..draft)) \in Nat /\ Cardinality(Deltas(1..last)) \in Nat
    BY <2>1, <2>2, FS_CardinalityType
  <2>4. Cardinality(Deltas(1..last)) <= MaxEvents => Cardinality(Deltas(1..draft)) <= MaxEvents
    BY <2>2, <2>3
  <2> QED BY <1>3, <2>2, <2>4, NewestKeeps DEF DraftEvents
<1> QED BY <1>2, <1>4, <1>5, <1>6 DEF CheckpointEvents, Above

(* What the merge sends: the new deltas in order, and the rest of the       *)
(* snapshot among them when there is one.                                   *)
LEMMA MergedTextIs ==
  ASSUME WorkerInv, SeenInv
  PROVE  /\ MergedText \in Seq(Nat)
         /\ Deltas(streamed \cup CheckpointEvents) \subseteq Range(MergedText)
         /\ SnapshotDelta = <<>> => IsText(MergedText, Deltas(streamed \cup CheckpointEvents))
<1> DEFINE S == streamed \cup CheckpointEvents
           A == {n \in S : n <= draft}
           B == {n \in S : n > draft}
<1>1. S \in SUBSET Nat /\ draft \in Nat /\ last \in Nat
  <2>1. last \in Nat /\ draft \in Nat
    BY DEF WorkerInv
  <2>2. streamed \in SUBSET Nat
    BY <2>1 DEF SeenInv, Known
  <2>3. CheckpointEvents \in SUBSET Nat
    BY <2>1, CheckpointEventsAre
  <2> QED BY <2>1, <2>2, <2>3
<1>2. MergedText = Text(A) \o SnapshotDelta \o Text(B)
  BY DEF MergedText
<1>3. SnapshotDelta \in Seq(Nat)
  <2>1. IsText(DraftText, Deltas(1..draft))
    BY <1>1, TextIs DEF DraftText
  <2>2. DraftText \in Seq(Nat) /\ sent \in Seq(Nat) /\ <<>> \in Seq(Nat)
    BY <2>1 DEF IsText, SeenInv
  <2>3. SubSeq(DraftText, Len(sent) + 1, Len(DraftText)) \in Seq(Nat)
    <3>1. Len(sent) \in Nat /\ Len(DraftText) \in Nat
      BY <2>2
    <3>2. \A i \in (Len(sent) + 1)..Len(DraftText) : DraftText[i] \in Nat
      BY <2>2, <3>1
    <3> QED BY <3>1, <3>2, SubSeqProperties
  <2> QED BY <2>2, <2>3 DEF SnapshotDelta, SnapshotSuffix
<1>4. IsText(Text(A), Deltas(A)) /\ IsText(Text(B), Deltas(B))
  <2>1. A \in SUBSET Nat /\ B \in SUBSET Nat
    BY <1>1
  <2> HIDE DEF A, B
  <2> QED BY <2>1, TextIs
<1>5. Deltas(S) = Deltas(A) \cup Deltas(B) /\ \A m \in Deltas(A), n \in Deltas(B) : m < n
  BY <1>1
<1> HIDE DEF S, A, B
<1> DEFINE x == Text(A)
           y == SnapshotDelta
           z == Text(B)
<1>6. x \in Seq(Nat) /\ z \in Seq(Nat) /\ Range(x) = Deltas(A) /\ Range(z) = Deltas(B)
  BY <1>4 DEF IsText
<1>7. y \in Seq(Nat) /\ MergedText = x \o y \o z
  BY <1>2, <1>3
<1>8. IsText(x, Deltas(A)) /\ IsText(z, Deltas(B))
  BY <1>4
<1> HIDE DEF x, y, z
<1>9. x \o y \in Seq(Nat) /\ x \o y \o z \in Seq(Nat)
      /\ Range(x \o y \o z) = (Range(x) \cup Range(y)) \cup Range(z)
  <2>1. x \o y \in Seq(Nat) /\ Range(x \o y) = Range(x) \cup Range(y)
    BY <1>6, <1>7, ConcatProperties, RangeConcatenation
  <2> DEFINE u == x \o y
  <2>2. u \in Seq(Nat) /\ Range(u) = Range(x) \cup Range(y)
    BY <2>1
  <2> HIDE DEF u
  <2>3. u \o z \in Seq(Nat) /\ Range(u \o z) = Range(u) \cup Range(z)
    BY <1>6, <2>2, ConcatProperties, RangeConcatenation
  <2> QED BY <2>1, <2>2, <2>3 DEF u
<1>10. y = <<>> => IsText(x \o y \o z, Deltas(A) \cup Deltas(B))
  BY <1>5, <1>6, <1>8, ConcatEmptySeq, TextGoesOn
<1> QED BY <1>5, <1>6, <1>7, <1>9, <1>10 DEF y, S

(* If the stream has an event, it has the deltas before it.                 *)
LEMMA StreamIsClosed ==
  ASSUME WorkerInv, StreamInv
  PROVE  \A n \in stream : Deltas(1..n) \subseteq stream
<1> SUFFICES ASSUME NEW n \in stream, NEW m \in Deltas(1..n), m \notin stream PROVE FALSE
  OBVIOUS
<1>1. last \in Nat /\ n \in Known
  BY DEF WorkerInv
<1>2. m \in Deltas(1..last)
  BY <1>1 DEF Known
<1>3. m = last /\ "redis" \in todo
  BY <1>2 DEF StreamInv
<1>4. phase = "running"
  BY <1>3 DEF WorkerInv
<1>5. n <= last /\ m <= n /\ n \in Nat
  BY <1>1, <1>4 DEF Known
<1> QED BY <1>1, <1>3, <1>5

(* What was read stays true while the worker goes on.                       *)
LEMMA ReadersKeep ==
  ASSUME SeenInv, StateReads, ConnReads, UNCHANGED <<conn, state, client>>,
         stream \subseteq stream',
         \A n \in {0} \cup Known : Deltas(1..n)' = Deltas(1..n)
  PROVE  (StateReads /\ ConnReads)'
<1>1. /\ Deltas(1..stSeq)' = Deltas(1..stSeq) /\ Deltas(1..cursor)' = Deltas(1..cursor)
      /\ \A n \in persisted \cup streamed : Deltas(1..n)' = Deltas(1..n)
  BY DEF SeenInv, conn, state
<1> HIDE DEF Deltas
<1>2. StateReads'
  BY <1>1 DEF StateReads, state
<1>3. ConnReads'
  BY <1>1 DEF ConnReads, conn, client
<1> QED BY <1>2, <1>3

-----------------------------------------------------------------------------
(* The steps.                                                               *)

(* No seq disappears.                                                       *)
LEMMA KnownGrows ==
  ASSUME WorkerInv, [Next]_vars
  PROVE  /\ last \in Nat /\ last' \in Nat /\ last <= last'
         /\ \A n \in Known : n \in Known'
<1>0. last \in Nat
  BY DEF WorkerInv
<1>1. CASE RedisSink \/ PgSink \/ DraftSink \/ Checkpoint
  BY <1>1, <1>0 DEF RedisSink, PgSink, DraftSink, Checkpoint, conn, state, client,
    XAdd, Known
<1>2. CASE Finish \/ PublishTerminal \/ DeleteDraft
  BY <1>2, <1>0 DEF Finish, PublishTerminal, DeleteDraft, conn, state, client, XAdd,
    Known
<1>3. CASE ListPersisted \/ ReplayRedis \/ Merge \/ CheckTerminal \/ ReadTail \/
            TailEmpty \/ Disconnect \/ StartFresh \/ StateRow \/ StateEvents \/
            StateDraft \/ StateStream
  BY <1>3, <1>0 DEF ListPersisted, ReplayRedis, Merge, CheckTerminal, ReadTail,
    TailEmpty, Disconnect, StartFresh, StateRow, StateEvents, StateDraft,
      StateStream, worker, state, client, Connect, conn, Known
<1>4. CASE Emit
  BY <1>4, EmitAdds DEF Emit, conn, state, client, Known, Emit
<1>5. CASE UNCHANGED vars
  BY <1>5, <1>0 DEF vars, worker, conn, state, client, Known
<1> QED BY <1>1, <1>2, <1>3, <1>4, <1>5 DEF Next, Worker, Server, Client

(* Where everybody is after a step.                                         *)
LEMMA ControlStep ==
  ASSUME ControlInv, [Next]_vars
  PROVE  ControlInv'
<1>1. CASE Emit
  BY <1>1 DEF Emit, conn, state, client, ControlInv
<1>2. CASE RedisSink
  BY <1>2 DEF RedisSink, conn, state, client, XAdd, ControlInv
<1>3. CASE PgSink
  BY <1>3 DEF PgSink, conn, state, client, ControlInv
<1>4. CASE DraftSink
  BY <1>4 DEF DraftSink, conn, state, client, ControlInv
<1>5. CASE Checkpoint
  BY <1>5 DEF Checkpoint, conn, state, client, ControlInv
<1>6. CASE Finish
  BY <1>6 DEF Finish, conn, state, client, ControlInv
<1>7. CASE PublishTerminal
  BY <1>7 DEF PublishTerminal, conn, state, client, XAdd, ControlInv
<1>8. CASE DeleteDraft
  BY <1>8 DEF DeleteDraft, conn, state, client, ControlInv
<1>9. CASE ListPersisted
  BY <1>9 DEF ListPersisted, worker, state, client, ControlInv
<1>10. CASE ReplayRedis
  BY <1>10 DEF ReplayRedis, worker, state, client, ControlInv
<1>11. CASE Merge
  BY <1>11 DEF Merge, worker, state, ControlInv
<1>12. CASE CheckTerminal
  BY <1>12 DEF CheckTerminal, worker, state, client, ControlInv
<1>13. CASE ReadTail
  BY <1>13 DEF ReadTail, worker, state, ControlInv
<1>14. CASE TailEmpty
  BY <1>14 DEF TailEmpty, worker, state, client, ControlInv
<1>15. CASE Disconnect
  BY <1>15 DEF Disconnect, worker, state, client, ControlInv
<1>16. CASE StartFresh
  BY <1>16 DEF StartFresh, worker, state, Connect, ControlInv
<1>17. CASE StateRow
  BY <1>17 DEF StateRow, worker, conn, client, ControlInv
<1>18. CASE StateEvents
  BY <1>18 DEF StateEvents, worker, conn, client, ControlInv
<1>19. CASE StateDraft
  BY <1>19 DEF StateDraft, worker, conn, client, ControlInv
<1>20. CASE StateStream
  BY <1>20 DEF StateStream, worker, conn, Connect, ControlInv
<1>21. CASE UNCHANGED vars
  BY <1>21 DEF vars, worker, conn, state, client, ControlInv
<1> QED BY <1>1, <1>2, <1>3, <1>4, <1>5, <1>6, <1>7, <1>8, <1>9, <1>10, <1>11, <1>12,
    <1>13, <1>14, <1>15, <1>16, <1>17, <1>18, <1>19, <1>20, <1>21 DEF Next, Worker,
      Server, Client

(* What the worker writes exists.                                          *)
LEMMA WorkerStep ==
  ASSUME ControlInv, WorkerInv, [Next]_vars
  PROVE  WorkerInv'
<1>0. last \in Nat /\ last' \in Nat /\ \A n \in Known : n \in Known'
  BY KnownGrows
<1>1. CASE ListPersisted \/ ReplayRedis \/ Merge \/ CheckTerminal \/ ReadTail \/
            TailEmpty \/ Disconnect \/ StartFresh \/ StateRow \/ StateEvents \/
            StateDraft \/ StateStream
  BY <1>1 DEF ListPersisted, ReplayRedis, Merge, CheckTerminal, ReadTail, TailEmpty,
    Disconnect, StartFresh, StateRow, StateEvents, StateDraft, StateStream, worker,
      state, client, Connect, conn, WorkerInv, Known
<1>2. CASE Emit
  <2>1. /\ types' \in Seq({"delta", "tool"}) /\ last' = last + 1 /\ last < MaxSeq
        /\ \A n \in 0..last : Deltas(1..n)' = Deltas(1..n)
    BY <1>2, EmitAdds DEF Emit
  <2>2. Deltas(1..last) \subseteq Deltas(1..last)'
    BY <1>2, EmitAdds
  <2>3. events' = events /\ stream' = stream /\ draft' = draft /\ latest' = latest
        /\ phase' = phase /\ phase = "running"
    BY <1>2 DEF Emit
  <2> QED BY <1>0, <2>1, <2>2, <2>3 DEF WorkerInv
<1>3. CASE RedisSink
  <2>1. last \in Known' /\ XAdd(last)
    BY <1>3, <1>0 DEF RedisSink, WorkerInv, Known
  <2>2. stream' \subseteq Known'
    BY <1>0, <2>1, XAddAdds DEF WorkerInv
  <2> QED BY <1>3, <1>0, <2>2 DEF RedisSink, WorkerInv, Known
<1>4. CASE PgSink
  <2>1. types' = types /\ Deltas(1..last)' = Deltas(1..last)
    BY <1>4 DEF PgSink
  <2>2. /\ phase' # "running" => todo' = {}
        /\ todo' # {} => last > 0
    BY <1>4 DEF PgSink, WorkerInv
  <2>3. draft' \in {0} \cup Deltas(1..last) /\ latest' \in {0} \cup Deltas(1..last)
    BY <1>4, <1>0 DEF PgSink, WorkerInv
  <2>4. events' \subseteq Known' /\ stream' \subseteq Known'
    <3>1. last \in Known'
      BY <1>4, <1>0 DEF PgSink, WorkerInv, Known
    <3>2. events' \subseteq events \cup {last} /\ stream' = stream
      BY <1>4 DEF PgSink
    <3>3. events \subseteq Known' /\ stream \subseteq Known'
      BY <1>0 DEF WorkerInv
    <3> QED BY <3>1, <3>2, <3>3
  <2> QED BY <2>1, <2>2, <2>3, <2>4 DEF WorkerInv
<1>5. CASE DraftSink
  <2>1. types' = types /\ Deltas(1..last)' = Deltas(1..last)
    BY <1>5 DEF DraftSink
  <2>2. /\ phase' # "running" => todo' = {}
        /\ todo' # {} => last > 0
    BY <1>5 DEF DraftSink, WorkerInv
  <2>3. draft' \in {0} \cup Deltas(1..last) /\ latest' \in {0} \cup Deltas(1..last)
    BY <1>5, <1>0 DEF DraftSink, WorkerInv
  <2>4. events' \subseteq Known' /\ stream' \subseteq Known'
    BY <1>5, <1>0 DEF DraftSink, WorkerInv, Known
  <2> QED BY <2>1, <2>2, <2>3, <2>4 DEF WorkerInv
<1>6. CASE Checkpoint
  <2>1. types' = types /\ Deltas(1..last)' = Deltas(1..last)
    BY <1>6 DEF Checkpoint
  <2>2. /\ phase' # "running" => todo' = {}
        /\ todo' # {} => last > 0
    BY <1>6 DEF Checkpoint, WorkerInv
  <2>3. draft' \in {0} \cup Deltas(1..last) /\ latest' \in {0} \cup Deltas(1..last)
    BY <1>6, <1>0 DEF Checkpoint, WorkerInv
  <2>4. events' \subseteq Known' /\ stream' \subseteq Known'
    BY <1>6, <1>0 DEF Checkpoint, WorkerInv, Known
  <2> QED BY <2>1, <2>2, <2>3, <2>4 DEF WorkerInv
<1>7. CASE Finish
  <2>1. types' = types /\ Deltas(1..last)' = Deltas(1..last)
    BY <1>7 DEF Finish
  <2>2. /\ phase' # "running" => todo' = {}
        /\ todo' # {} => last > 0
    BY <1>7 DEF Finish, WorkerInv
  <2>3. draft' \in {0} \cup Deltas(1..last) /\ latest' \in {0} \cup Deltas(1..last)
    BY <1>7, <1>0 DEF Finish, WorkerInv
  <2>4. events' \subseteq Known' /\ stream' \subseteq Known'
    <3>1. last + 1 \in Known'
      BY <1>7, <1>0 DEF Finish, WorkerInv, Known
    <3>2. events' \subseteq events \cup {last + 1} /\ stream' = stream
      BY <1>7 DEF Finish
    <3>3. events \subseteq Known' /\ stream \subseteq Known'
      BY <1>0 DEF WorkerInv
    <3> QED BY <3>1, <3>2, <3>3
  <2> QED BY <2>1, <2>2, <2>3, <2>4 DEF WorkerInv
<1>8. CASE PublishTerminal
  <2>1. last + 1 \in Known' /\ XAdd(last + 1)
    BY <1>8, <1>0 DEF PublishTerminal, WorkerInv, Known
  <2>2. stream' \subseteq Known'
    BY <1>0, <2>1, XAddAdds DEF WorkerInv
  <2> QED BY <1>8, <1>0, <2>2 DEF PublishTerminal, WorkerInv, Known
<1>9. CASE DeleteDraft
  <2>1. types' = types /\ Deltas(1..last)' = Deltas(1..last)
    BY <1>9 DEF DeleteDraft
  <2>2. /\ phase' # "running" => todo' = {}
        /\ todo' # {} => last > 0
    BY <1>9 DEF DeleteDraft, WorkerInv
  <2>3. draft' \in {0} \cup Deltas(1..last) /\ latest' \in {0} \cup Deltas(1..last)
    BY <1>9, <1>0 DEF DeleteDraft, WorkerInv
  <2>4. events' \subseteq Known' /\ stream' \subseteq Known'
    BY <1>9, <1>0 DEF DeleteDraft, WorkerInv, Known
  <2> QED BY <2>1, <2>2, <2>3, <2>4 DEF WorkerInv
<1>10. CASE UNCHANGED vars
  BY <1>10, <1>0 DEF vars, worker, conn, state, client, WorkerInv
<1> QED BY <1>1, <1>2, <1>3, <1>4, <1>5, <1>6, <1>7, <1>8, <1>9, <1>10 DEF Next,
    Worker, Server, Client

(* Readers see what exists.                                                 *)
LEMMA SeenStep ==
  ASSUME ControlInv, WorkerInv, SeenInv, ResumeInv, [Next]_vars
  PROVE  SeenInv'
<1>0. last \in Nat /\ last' \in Nat /\ \A n \in Known : n \in Known'
  BY KnownGrows
<1>k. 0 \in Nat /\ <<>> \in Seq(Nat) /\ \A S \in SUBSET ({0} \cup Known) : S # {} => Max(S) \in S
  BY MaxKnown
<1>1. CASE Emit \/ RedisSink \/ PgSink \/ DraftSink \/ Checkpoint \/ Finish \/
            PublishTerminal \/ DeleteDraft
  BY <1>1, <1>0 DEF Emit, RedisSink, PgSink, DraftSink, Checkpoint, Finish,
    PublishTerminal, DeleteDraft, conn, state, client, XAdd, SeenInv
<1>2. CASE ListPersisted
  BY <1>2, <1>0, <1>k DEF ListPersisted, worker, state, client, SeenInv, WorkerInv,
    Above
<1>3. CASE ReplayRedis
  BY <1>3, <1>0, <1>k DEF ReplayRedis, worker, state, client, SeenInv, WorkerInv, Above
<1>4. CASE Merge
  <2>1. cursor' = Max((streamed \cup CheckpointEvents \cup persisted) \cup {cursor,
    draft})
    BY <1>4 DEF Merge
  <2>2. (streamed \cup CheckpointEvents \cup persisted) \cup {cursor,
    draft} \in SUBSET ({0} \cup Known)
    <3>1. \A n \in CheckpointEvents : n \in Known
      BY <1>0, CheckpointEventsAre DEF Known, WorkerInv
    <3>2. draft \in {0} \cup Known
      BY <1>0 DEF WorkerInv, Known
    <3> QED BY <3>1, <3>2 DEF SeenInv
  <2>3. cursor' \in {0} \cup Known
    BY <1>k, <2>1, <2>2
  <2>4. shown' \in Seq(Nat)
    <3>1. shown' = shown \o MergedText
      BY <1>4 DEF Merge
    <3> QED BY <3>1, MergedTextIs, ConcatProperties DEF SeenInv
  <2>5. sent' \in Seq(Nat)
    <3>1. streamed \in SUBSET Nat /\ 1..draft \in SUBSET Nat
      BY <1>0 DEF SeenInv, Known
    <3>2. DraftText \in Seq(Nat) /\ Text(streamed) \in Seq(Nat)
      BY <3>1, TextIs DEF IsText, DraftText
    <3>3. /\ sent \in Seq(Nat)
          /\ sent' \in {sent, DraftText \o Text(streamed), sent \o Text(streamed)}
      BY <1>4 DEF Merge, SeenInv
    <3> QED BY <3>2, <3>3, ConcatProperties
  <2> QED BY <1>4, <1>0, <2>3, <2>4, <2>5 DEF Merge, worker, state, SeenInv
<1>5. CASE CheckTerminal
  BY <1>5, <1>0, <1>k DEF CheckTerminal, worker, state, client, SeenInv
<1>6. CASE ReadTail
  <2> DEFINE S == Above(stream)
  <2>1. S \in SUBSET Known /\ S # {} /\ S \in SUBSET Nat
    <3>1. S # {} /\ S \subseteq stream /\ \A n \in S : n > cursor
      BY <1>6 DEF ReadTail, Above
    <3>2. stream \subseteq Known /\ \A n \in Known : n \in Nat
      BY <1>0 DEF WorkerInv, Known
    <3> QED BY <3>1, <3>2
  <2>2. Text(S) \in Seq(Nat)
    BY <2>1, TextIs DEF IsText
  <2>3. /\ shown' = shown \o Text(S) /\ cursor' = Max(S)
        /\ sent' \in {sent, sent \o Text(S)}
    BY <1>6 DEF ReadTail
  <2> HIDE DEF S
  <2>4. shown' \in Seq(Nat) /\ sent' \in Seq(Nat)
    BY <2>2, <2>3, ConcatProperties DEF SeenInv
  <2>5. cursor' \in Known
    BY <1>k, <2>1, <2>3
  <2> QED BY <1>6, <1>0, <2>4, <2>5 DEF ReadTail, worker, state, SeenInv
<1>7. CASE TailEmpty
  BY <1>7, <1>0, <1>k DEF TailEmpty, worker, state, client, SeenInv
<1>8. CASE Disconnect
  BY <1>8, <1>0, <1>k DEF Disconnect, worker, state, client, SeenInv
<1>9. CASE StartFresh
  BY <1>9, <1>0, <1>k DEF StartFresh, worker, state, Connect, SeenInv
<1>10. CASE StateRow
  BY <1>10, <1>0, <1>k DEF StateRow, worker, conn, client, SeenInv
<1>11. CASE StateEvents
  <2>1. events \cup {0} \in SUBSET ({0} \cup Known) /\ stSeq' = Max(events \cup {0})
    BY <1>11 DEF StateEvents, WorkerInv
  <2>2. stSeq' \in {0} \cup Known
    BY <1>k, <2>1
  <2> QED BY <1>11, <1>0, <2>2 DEF StateEvents, worker, conn, client, SeenInv
<1>12. CASE StateDraft
  <2>1. draft \in {0} \cup Known
    BY <1>0 DEF WorkerInv, Known
  <2>2. {stSeq, draft} \in SUBSET ({0} \cup Known) /\ stSeq' = Max({stSeq, draft})
    BY <1>12, <2>1 DEF StateDraft, SeenInv
  <2>3. stSeq' \in {0} \cup Known
    BY <1>k, <2>2
  <2> QED BY <1>12, <1>0, <2>1, <2>3 DEF StateDraft, worker, conn, client, SeenInv
<1>13. CASE StateStream
  <2>1. PICK newer \in {{n \in stream : n > stAfter}, {}} :
          /\ shown' = stText \o Text(newer)
          /\ IF stEnded THEN UNCHANGED conn ELSE Connect(Max(newer \cup {stSeq}))
    BY <1>13 DEF StateStream
  <2>2. newer \in SUBSET Known /\ newer \in SUBSET Nat
    BY DEF WorkerInv, Known
  <2>3. shown' \in Seq(Nat)
    <3>1. stText \in Seq(Nat) /\ Text(newer) \in Seq(Nat)
      BY <1>13, <2>2, TextIs DEF StateStream, ResumeInv, IsText
    <3> QED BY <2>1, <3>1, ConcatProperties
  <2>4. Max(newer \cup {stSeq}) \in {0} \cup Known
    <3>1. newer \cup {stSeq} \in SUBSET ({0} \cup Known) /\ newer \cup {stSeq} # {}
      BY <2>2 DEF SeenInv
    <3> QED BY <1>k, <3>1
  <2> QED BY <1>13, <1>0, <1>k, <2>1, <2>3, <2>4 DEF StateStream, worker, conn,
    Connect, SeenInv
<1>14. CASE UNCHANGED vars
  BY <1>14, <1>0, <1>k DEF vars, worker, conn, state, client, SeenInv
<1> QED BY <1>1, <1>2, <1>3, <1>4, <1>5, <1>6, <1>7, <1>8, <1>9, <1>10, <1>11, <1>12,
    <1>13, <1>14 DEF Next, Worker, Server, Client

(* A resumed text stays in order.                                          *)
LEMMA ResumeStep ==
  ASSUME ControlInv, WorkerInv, SeenInv, ResumeInv, [Next]_vars
  PROVE  ResumeInv'
<1>0. last \in Nat /\ last' \in Nat /\ \A n \in Known : n \in Known'
  BY KnownGrows
<1>k. \A S \in SUBSET ({0} \cup Known) : S # {} => Max(S) \in S /\ \A n \in S : n <= Max(S)
  BY MaxKnown
<1>1. CASE Emit
  <2>1. stAfter \in 0..last /\ \A n \in 0..last : Deltas(1..n)' = Deltas(1..n)
    BY <1>1, <1>0, EmitAdds DEF Emit, SeenInv, Known
  <2>2. Deltas(1..stAfter)' = Deltas(1..stAfter)
    BY <1>1, <2>1 DEF Emit, state
  <2> QED BY <1>1, <2>2 DEF Emit, conn, state, client, ResumeInv
<1>2. CASE RedisSink
  <2>1. types' = types /\ UNCHANGED <<conn, state, client>>
    BY <1>2 DEF RedisSink
  <2> QED BY <2>1 DEF conn, state, client, ResumeInv
<1>3. CASE PgSink
  <2>1. types' = types /\ UNCHANGED <<conn, state, client>>
    BY <1>3 DEF PgSink
  <2> QED BY <2>1 DEF conn, state, client, ResumeInv
<1>4. CASE DraftSink
  <2>1. types' = types /\ UNCHANGED <<conn, state, client>>
    BY <1>4 DEF DraftSink
  <2> QED BY <2>1 DEF conn, state, client, ResumeInv
<1>5. CASE Checkpoint
  <2>1. types' = types /\ UNCHANGED <<conn, state, client>>
    BY <1>5 DEF Checkpoint
  <2> QED BY <2>1 DEF conn, state, client, ResumeInv
<1>6. CASE Finish
  <2>1. types' = types /\ UNCHANGED <<conn, state, client>>
    BY <1>6 DEF Finish
  <2> QED BY <2>1 DEF conn, state, client, ResumeInv
<1>7. CASE PublishTerminal
  <2>1. types' = types /\ UNCHANGED <<conn, state, client>>
    BY <1>7 DEF PublishTerminal
  <2> QED BY <2>1 DEF conn, state, client, ResumeInv
<1>8. CASE DeleteDraft
  <2>1. types' = types /\ UNCHANGED <<conn, state, client>>
    BY <1>8 DEF DeleteDraft
  <2> QED BY <2>1 DEF conn, state, client, ResumeInv
<1>9. CASE ListPersisted
  BY <1>9, <1>0 DEF ListPersisted, worker, state, client, ResumeInv
<1>10. CASE ReplayRedis
  BY <1>10 DEF ReplayRedis, worker, state, client, ResumeInv, Above
<1>11. CASE Merge
  <2>1. /\ pc = "merge" /\ cursor' = Max((streamed \cup CheckpointEvents \cup persisted) \cup {cursor, draft})
        /\ shown' = shown \o MergedText /\ after' = after /\ pc' \in {"closed", "check"}
        /\ st' = st /\ stText' = stText /\ types' = types /\ stAfter' = stAfter /\ stSeq' = stSeq
    BY <1>11 DEF Merge, worker, state
  <2>2. (streamed \cup CheckpointEvents \cup persisted) \cup {cursor,
    draft} \in SUBSET ({0} \cup Known)
    <3>1. \A n \in CheckpointEvents : n \in Known
      BY <1>0, CheckpointEventsAre DEF Known, WorkerInv
    <3>2. draft \in {0} \cup Known
      BY <1>0 DEF WorkerInv, Known
    <3> QED BY <3>1, <3>2 DEF SeenInv
  <2>3. \A n \in streamed \cup CheckpointEvents : n <= cursor'
    BY <1>k, <2>1, <2>2
  <2>4. cursor <= cursor' /\ cursor \in Nat /\ cursor' \in Nat
    <3>1. {0} \cup Known \subseteq Nat
      BY DEF Known
    <3> QED BY <1>k, <2>1, <2>2, <3>1
  <2>5. ASSUME after > 0
        PROVE  Increasing(shown') /\ \A n \in Range(shown') : n <= cursor'
    <3>1. SnapshotDelta = <<>>
      <4>1. CASE first
        <5>1. ~baseline
          BY <2>1, <2>5, <4>1 DEF ResumeInv
        <5> QED BY <5>1 DEF SnapshotDelta
      <4>2. CASE ~first
        <5>1. streamed = {}
          BY <2>1, <4>2 DEF ResumeInv
        <5>2. draft > cursor => CheckpointEvents # {}
          BY <5>1, CheckpointEventsAre
        <5> QED BY <5>2 DEF SnapshotDelta
      <4> QED BY <4>1, <4>2
    <3> DEFINE D == Deltas(streamed \cup CheckpointEvents)
    <3>2. IsText(MergedText, D)
      BY <3>1, MergedTextIs
    <3>3. \A n \in D : n \in streamed \cup CheckpointEvents
      OBVIOUS
    <3> HIDE DEF D
    <3>4. IsText(shown, Range(shown)) /\ \A n \in Range(shown) : n <= cursor
      BY <2>5 DEF SeenInv, ResumeInv, IsText
    <3>5. \A n \in D : n > cursor
      BY <2>1, <3>3, CheckpointEventsAre DEF ResumeInv
    <3>6. \A n \in Range(shown) \cup D : n \in Nat
      <4>1. Range(shown) \subseteq Nat
        BY RangeOfSeq DEF SeenInv
      <4>2. Range(MergedText) \subseteq Nat
        BY MergedTextIs, RangeOfSeq
      <4> QED BY <3>2, <4>1, <4>2 DEF IsText
    <3>7. \A m \in Range(shown), n \in D : m < n
      BY <2>4, <3>4, <3>5, <3>6
    <3>8. IsText(shown', Range(shown) \cup D)
      BY <2>1, <3>2, <3>4, <3>7, TextGoesOn
    <3>9. \A n \in Range(shown) \cup D : n <= cursor'
      BY <2>3, <2>4, <3>3, <3>4, <3>6
    <3> QED BY <3>8, <3>9 DEF IsText
  <2> QED BY <2>1, <2>5 DEF ResumeInv
<1>12. CASE CheckTerminal
  BY <1>12, <1>0 DEF CheckTerminal, worker, state, client, ResumeInv
<1>13. CASE ReadTail
  <2> DEFINE S == Above(stream)
  <2>1. /\ S \in SUBSET ({0} \cup Known) /\ S \in SUBSET Nat /\ S # {}
        /\ \A n \in S : n > cursor
    <3>1. S # {} /\ S \subseteq stream /\ \A n \in S : n > cursor
      BY <1>13 DEF ReadTail, Above
    <3>2. stream \subseteq Known /\ \A n \in Known : n \in Nat
      BY <1>0 DEF WorkerInv, Known
    <3> QED BY <3>1, <3>2
  <2>2. /\ IsText(Text(S), Deltas(S)) /\ Deltas(S) \subseteq S
    BY <2>1, TextIs
  <2>3. /\ shown' = shown \o Text(S) /\ cursor' = Max(S) /\ after' = after
        /\ pc = "tail" /\ pc' \in {"closed", "tail"} /\ first' = first
        /\ st' = st /\ stText' = stText /\ types' = types /\ stAfter' = stAfter /\ stSeq' = stSeq
    BY <1>13 DEF ReadTail, worker, state
  <2> HIDE DEF S
  <2>4. ASSUME after > 0
        PROVE  Increasing(shown') /\ \A n \in Range(shown') : n <= cursor'
    <3> DEFINE D == Deltas(S)
    <3>1. D \subseteq S /\ IsText(Text(S), D)
      BY <2>2
    <3> HIDE DEF D
    <3>2. IsText(shown, Range(shown)) /\ \A n \in Range(shown) : n <= cursor
      BY <2>4 DEF SeenInv, ResumeInv, IsText
    <3>3. Range(shown) \subseteq Nat /\ cursor \in Nat
      BY RangeOfSeq DEF SeenInv, Known
    <3>4. \A m \in Range(shown), n \in D : m < n
      BY <2>1, <3>1, <3>2, <3>3
    <3>5. IsText(shown', Range(shown) \cup D)
      BY <2>3, <3>1, <3>2, <3>4, TextGoesOn
    <3>6. \A n \in S : n <= cursor'
      BY <1>k, <2>1, <2>3
    <3>7. cursor <= cursor' /\ cursor' \in Nat
      <4>1. cursor' \in S
        BY <1>k, <2>1, <2>3
      <4> QED BY <2>1, <3>3, <4>1
    <3>8. \A n \in Range(shown) \cup D : n <= cursor'
      BY <3>1, <3>2, <3>3, <3>6, <3>7
    <3> QED BY <3>5, <3>8 DEF IsText
  <2> QED BY <2>3, <2>4 DEF ResumeInv
<1>14. CASE TailEmpty
  BY <1>14, <1>0 DEF TailEmpty, worker, state, client, ResumeInv
<1>15. CASE Disconnect
  BY <1>15, <1>0 DEF Disconnect, worker, state, client, ResumeInv
<1>16. CASE StartFresh
  BY <1>16, <1>0 DEF StartFresh, worker, state, Connect, ResumeInv
<1>17. CASE StateRow
  BY <1>17, <1>0 DEF StateRow, worker, conn, client, ResumeInv
<1>18. CASE StateEvents
  BY <1>18, <1>0 DEF StateEvents, worker, conn, client, ResumeInv
<1>19. CASE StateDraft
  <2>1. IsText(DraftText, Deltas(1..draft))
    <3>1. 1..draft \in SUBSET Nat
      BY <1>0 DEF WorkerInv
    <3> QED BY <3>1, TextIs DEF DraftText
  <2>2. draft <= Max({stSeq, draft})
    <3>1. {stSeq, draft} \in SUBSET ({0} \cup Known)
      BY <1>0 DEF WorkerInv, SeenInv, Known
    <3> QED BY <1>k, <3>1
  <2> QED BY <1>19, <2>1, <2>2 DEF StateDraft, worker, conn, client, ResumeInv
<1>20. CASE StateStream
  <2>1. PICK newer \in {{n \in stream : n > stAfter}, {}} :
          /\ shown' = stText \o Text(newer)
          /\ IF stEnded THEN UNCHANGED conn ELSE Connect(Max(newer \cup {stSeq}))
    BY <1>20 DEF StateStream
  <2>2. /\ pc = "off" /\ st = "draft" /\ st' = "idle"
        /\ IsText(stText, Deltas(1..stAfter)) /\ stAfter <= stSeq /\ stAfter \in Nat
        /\ stSeq \in Nat
    BY <1>20 DEF StateStream, ResumeInv, SeenInv, Known
  <2>3. CASE stEnded
    BY <2>1, <2>2, <2>3 DEF conn, ResumeInv
  <2>4. CASE ~stEnded
    <3>1. newer \in SUBSET Known /\ newer \in SUBSET Nat /\ \A n \in newer : n > stAfter
      BY DEF WorkerInv, Known
    <3> DEFINE M == newer \cup {stSeq}
               D == Deltas(newer)
    <3>2. M \in SUBSET ({0} \cup Known) /\ M # {} /\ stSeq \in M /\ newer \subseteq M
      BY <3>1 DEF SeenInv
    <3>3. D \subseteq newer /\ IsText(Text(newer), D)
      BY <3>1, TextIs
    <3>4. cursor' = Max(M) /\ after' = Max(M) /\ pc' = "list" /\ first' = TRUE
          /\ baseline' = (Max(M) = 0)
      BY <2>1, <2>4 DEF Connect
    <3> HIDE DEF M, D
    <3>5. \A n \in M : n <= cursor'
      BY <1>k, <3>2, <3>4
    <3>6. IsText(shown', Deltas(1..stAfter) \cup D)
      <4>1. \A m \in Deltas(1..stAfter), n \in D : m < n
        BY <2>2, <3>1, <3>3
      <4> QED BY <2>1, <2>2, <3>3, <4>1, TextGoesOn
    <3>7. \A n \in Deltas(1..stAfter) : n <= cursor'
      <4>1. stSeq <= cursor' /\ cursor' \in M
        BY <1>k, <3>2, <3>4, <3>5
      <4>2. cursor' \in Nat
        BY <2>2, <3>1, <4>1 DEF M
      <4> QED BY <2>2, <4>1, <4>2
    <3>8. \A n \in Range(shown') : n <= cursor'
      BY <3>2, <3>3, <3>5, <3>6, <3>7 DEF IsText
    <3>9. after' > 0 => ~baseline'
      <4>1. Max(M) > 0 => Max(M) # 0
        BY <1>k, <3>2
      <4> QED BY <3>4, <4>1
    <3>10. Increasing(shown')
      BY <3>6 DEF IsText
    <3> QED BY <2>2, <3>4, <3>8, <3>9, <3>10 DEF ResumeInv
  <2> QED BY <2>3, <2>4
<1>21. CASE UNCHANGED vars
  BY <1>21, <1>0 DEF vars, worker, conn, state, client, ResumeInv
<1> QED BY <1>1, <1>2, <1>3, <1>4, <1>5, <1>6, <1>7, <1>8, <1>9, <1>10, <1>11, <1>12,
    <1>13, <1>14, <1>15, <1>16, <1>17, <1>18, <1>19, <1>20, <1>21 DEF Next, Worker,
      Server, Client

(* A Redis that loses nothing has all that the readers did not find elsewhere. *)
LEMMA HealthyStep ==
  ASSUME ControlInv, WorkerInv, SeenInv, ResumeInv, HealthyInv, [Next]_vars
  PROVE  HealthyInv'
<1>0. last \in Nat /\ last' \in Nat /\ \A n \in Known : n \in Known'
  BY KnownGrows
<1>k. \A S \in SUBSET ({0} \cup Known) : S # {} => Max(S) \in S /\ \A n \in S : n <= Max(S)
  BY MaxKnown
<1> SUFFICES ASSUME healthy' PROVE (StreamInv /\ StateReads /\ ConnReads)'
  BY DEF HealthyInv
<1>g. healthy => StreamInv /\ StateReads /\ ConnReads
  BY DEF HealthyInv
<1>1. CASE Emit
  <2>1. UNCHANGED <<conn, state, client>> /\ stream' = stream /\ events' = events
        /\ healthy /\ todo = {} /\ "redis" \in todo' /\ phase = "running"
    BY <1>1 DEF Emit
  <2>2. last' = last + 1 /\ \A n \in 0..last : Deltas(1..n)' = Deltas(1..n)
    BY <1>1, EmitAdds
  <2>3. \A n \in {0} \cup Known : n \in 0..last
    BY <1>0, <2>1 DEF Known
  <2>4. \A n \in {0} \cup Known : Deltas(1..n)' = Deltas(1..n)
    BY <2>2, <2>3
  <2>5. StreamInv'
    <3>1. \A n \in Deltas(1..last)' : n \in Deltas(1..last) \/ n = last'
      BY <1>0, <1>1, EmitAdds
    <3>2. \A n \in Deltas(1..last)' : n \in stream' \/ (n = last' /\ "redis" \in todo')
      BY <1>g, <2>1, <3>1 DEF StreamInv
    <3>3. \A n \in events' : Deltas(1..n)' = Deltas(1..n) /\ n \in events
      BY <2>1, <2>4 DEF WorkerInv
    <3> HIDE DEF Deltas
    <3>4. \A n \in events' : Deltas(1..n)' \subseteq stream'
      BY <1>g, <2>1, <3>3 DEF StreamInv
    <3> QED BY <3>2, <3>4 DEF StreamInv
  <2> QED BY <1>g, <2>1, <2>4, <2>5, ReadersKeep
<1>2. CASE RedisSink
  <2>1. UNCHANGED <<conn, state, client>> /\ types' = types
    BY <1>2 DEF RedisSink
  <2>2. \A n \in {0} \cup Known : Deltas(1..n)' = Deltas(1..n)
    BY <2>1
  <2>3. stream \subseteq stream' /\ last \in stream' /\ healthy
    <3>1. last \in Known' /\ XAdd(last) /\ phase = "running"
      BY <1>2, <1>0 DEF RedisSink, WorkerInv, Known
    <3>2. \A m \in stream : m <= last
      BY <1>0, <3>1 DEF WorkerInv, Known
    <3> QED BY <3>1, <3>2, XAddAdds
  <2>4. StreamInv'
    <3>1. todo' = todo \ {"redis"} /\ events' = events
      BY <1>2 DEF RedisSink
    <3>2. \A n \in Deltas(1..last)' : n \in stream'
      BY <1>g, <2>1, <2>3 DEF StreamInv
    <3>3. \A n \in events' : Deltas(1..n)' \subseteq stream'
      BY <1>g, <2>1, <2>3, <3>1 DEF StreamInv
    <3> HIDE DEF Deltas
    <3> QED BY <3>2, <3>3 DEF StreamInv
  <2> QED BY <1>g, <2>1, <2>2, <2>3, <2>4, ReadersKeep
<1>3. CASE PgSink
  <2>1. UNCHANGED <<conn, state, client>> /\ types' = types
    BY <1>3 DEF PgSink
  <2>2. \A n \in {0} \cup Known : Deltas(1..n)' = Deltas(1..n)
    BY <2>1
  <2>3. healthy /\ stream' = stream /\ last \in Nat
    BY <1>3, <1>0 DEF PgSink
  <2>4. StreamInv'
    <3>1. types[last] = "tool" => \A n \in Deltas(1..last) : n # last
      OBVIOUS
    <3>2. types[last] = "tool" => Deltas(1..last) \subseteq stream
      BY <1>g, <2>3, <3>1 DEF StreamInv
    <3>3. \A n \in events' : n \in events \/ (n = last /\ types[last] = "tool")
      <4>1. CASE types[last] = "tool"
        BY <1>3, <4>1 DEF PgSink
      <4>2. CASE types[last] # "tool"
        BY <1>3, <4>2 DEF PgSink
      <4> QED BY <4>1, <4>2
    <3>4. "redis" \in todo => "redis" \in todo'
      BY <1>3 DEF PgSink
    <3> QED BY <1>g, <2>1, <2>3, <3>2, <3>3, <3>4 DEF StreamInv
  <2> QED BY <1>g, <2>1, <2>2, <2>3, <2>4, ReadersKeep
<1>4. CASE DraftSink
  <2>1. UNCHANGED <<conn, state, client>> /\ types' = types
    BY <1>4 DEF DraftSink
  <2>2. \A n \in {0} \cup Known : Deltas(1..n)' = Deltas(1..n)
    BY <2>1
  <2>3. stream \subseteq stream'
    BY <1>4 DEF DraftSink
  <2>4. StreamInv'
    BY <1>4, <1>g, <1>4 DEF DraftSink, StreamInv
  <2>5. healthy
    BY <1>4 DEF DraftSink
  <2> QED BY <1>g, <2>5, <2>1, <2>2, <2>3, <2>4, ReadersKeep
<1>5. CASE Checkpoint
  <2>1. UNCHANGED <<conn, state, client>> /\ types' = types
    BY <1>5 DEF Checkpoint
  <2>2. \A n \in {0} \cup Known : Deltas(1..n)' = Deltas(1..n)
    BY <2>1
  <2>3. stream \subseteq stream'
    BY <1>5 DEF Checkpoint
  <2>4. StreamInv'
    BY <1>5, <1>g, <1>5 DEF Checkpoint, StreamInv
  <2>5. healthy
    BY <1>5 DEF Checkpoint
  <2> QED BY <1>g, <2>5, <2>1, <2>2, <2>3, <2>4, ReadersKeep
<1>6. CASE Finish
  <2>1. UNCHANGED <<conn, state, client>> /\ types' = types
    BY <1>6 DEF Finish
  <2>2. \A n \in {0} \cup Known : Deltas(1..n)' = Deltas(1..n)
    BY <2>1
  <2>3. healthy /\ stream' = stream /\ last \in Nat
    BY <1>6, <1>0 DEF Finish
  <2>4. StreamInv'
    <3>1. events' = events \cup {last + 1} /\ todo = {} /\ todo' = todo
      BY <1>6 DEF Finish
    <3>2. Deltas(1..(last + 1)) \subseteq stream
      BY <1>g, <2>3, <3>1 DEF StreamInv
    <3> QED BY <1>g, <2>1, <2>3, <3>1, <3>2 DEF StreamInv
  <2> QED BY <1>g, <2>1, <2>2, <2>3, <2>4, ReadersKeep
<1>7. CASE PublishTerminal
  <2>1. UNCHANGED <<conn, state, client>> /\ types' = types
    BY <1>7 DEF PublishTerminal
  <2>2. \A n \in {0} \cup Known : Deltas(1..n)' = Deltas(1..n)
    BY <2>1
  <2>3. stream \subseteq stream' /\ healthy
    <3>1. last + 1 \in Known' /\ XAdd(last + 1)
      BY <1>7, <1>0 DEF PublishTerminal, WorkerInv, Known
    <3> QED BY <3>1, XAddAdds
  <2>4. StreamInv'
    BY <1>7, <1>g, <2>3 DEF PublishTerminal, StreamInv
  <2> QED BY <1>g, <2>1, <2>2, <2>3, <2>4, ReadersKeep
<1>8. CASE DeleteDraft
  <2>1. UNCHANGED <<conn, state, client>> /\ types' = types
    BY <1>8 DEF DeleteDraft
  <2>2. \A n \in {0} \cup Known : Deltas(1..n)' = Deltas(1..n)
    BY <2>1
  <2>3. stream \subseteq stream'
    BY <1>8 DEF DeleteDraft
  <2>4. StreamInv'
    BY <1>8, <1>g, <1>8 DEF DeleteDraft, StreamInv
  <2>5. healthy
    BY <1>8 DEF DeleteDraft
  <2> QED BY <1>g, <2>5, <2>1, <2>2, <2>3, <2>4, ReadersKeep
<1>9. CASE ListPersisted
  BY <1>9, <1>0, <1>g DEF ListPersisted, worker, state, client, StreamInv,
    StateReads, ConnReads, Above
<1>10. CASE ReplayRedis
  <2>1. /\ healthy /\ streamed' = Above(stream) /\ pc = "replay" /\ pc' = "merge"
        /\ UNCHANGED <<worker, state, client, persisted, cursor, first>>
    BY <1>10 DEF ReplayRedis
  <2>2. StreamInv' /\ StateReads'
    BY <1>g, <2>1 DEF StreamInv, StateReads, worker, state
  <2>3. \A n \in persisted \cup stream : Deltas(1..n) \subseteq stream
    BY <1>g, <2>1, StreamIsClosed DEF ConnReads
  <2>4. \A n \in persisted \cup streamed' : \A m \in Deltas(1..n) : m > cursor => m \in streamed'
    BY <2>1, <2>3 DEF Above
  <2>5. types' = types /\ (first => IsText(shown, Deltas(1..cursor)))
    BY <1>g, <2>1 DEF ConnReads, worker
  <2> QED BY <2>1, <2>2, <2>4, <2>5 DEF ConnReads, client
<1>11. CASE Merge
  BY <1>11, <1>0, <1>g DEF Merge, worker, state, StreamInv, StateReads, ConnReads
<1>12. CASE CheckTerminal
  BY <1>12, <1>0, <1>g DEF CheckTerminal, worker, state, client, StreamInv,
    StateReads, ConnReads
<1>13. CASE ReadTail
  BY <1>13, <1>0, <1>g DEF ReadTail, worker, state, StreamInv, StateReads, ConnReads
<1>14. CASE TailEmpty
  BY <1>14, <1>0, <1>g DEF TailEmpty, worker, state, client, StreamInv, StateReads,
    ConnReads, ResumeInv
<1>15. CASE Disconnect
  BY <1>15, <1>0, <1>g DEF Disconnect, worker, state, client, StreamInv, StateReads,
    ConnReads
<1>16. CASE StartFresh
  <2>1. /\ healthy /\ cursor' = 0 /\ pc' = "list" /\ shown' = <<>> /\ types' = types
        /\ UNCHANGED <<worker, state>>
    BY <1>16 DEF StartFresh, Connect, worker
  <2>2. StreamInv' /\ StateReads'
    BY <1>g, <2>1 DEF StreamInv, StateReads, worker, state
  <2>3. Deltas(1..0) = {}
    OBVIOUS
  <2>4. IsText(shown', Deltas(1..cursor)')
    BY <2>1, <2>3, EmptyText
  <2> QED BY <2>1, <2>2, <2>4 DEF ConnReads
<1>17. CASE StateRow
  BY <1>17, <1>0, <1>g DEF StateRow, worker, conn, client, StreamInv, StateReads,
    ConnReads
<1>18. CASE StateEvents
  <2>1. /\ healthy /\ st' = "events" /\ stSeq' = Max(events \cup {0})
        /\ UNCHANGED <<worker, conn, client>>
    BY <1>18 DEF StateEvents
  <2>2. StreamInv' /\ ConnReads'
    BY <1>g, <2>1 DEF StreamInv, ConnReads, worker, conn, client
  <2>3. stSeq' \in events \cup {0}
    BY <1>k, <2>1 DEF WorkerInv
  <2>4. Deltas(1..stSeq)' \subseteq stream /\ stream' = stream
    <3>1. types' = types /\ stream' = stream
      BY <2>1 DEF worker
    <3>2. CASE stSeq' = 0
      BY <3>1, <3>2
    <3>3. CASE stSeq' \in events
      BY <1>g, <2>1, <3>1, <3>3 DEF StreamInv
    <3> QED BY <2>3, <3>1, <3>2, <3>3
  <2>5. StateReads'
    <3>1. ASSUME NEW n \in Deltas(1..stSeq)'
          PROVE  n \in stream' \/ (st' = "draft" /\ n <= stAfter')
      BY <2>1, <2>4
    <3> HIDE DEF Deltas
    <3> QED BY <3>1 DEF StateReads
  <2> QED BY <2>2, <2>5
<1>19. CASE StateDraft
  <2>1. /\ healthy /\ st = "events" /\ st' = "draft" /\ stSeq' = Max({stSeq, draft})
        /\ stAfter' = draft /\ UNCHANGED <<worker, conn, client>>
    BY <1>19 DEF StateDraft
  <2>2. StreamInv' /\ ConnReads'
    BY <1>g, <2>1 DEF StreamInv, ConnReads, worker, conn, client
  <2>3. stSeq' = stSeq \/ stSeq' = draft
    <3>1. {stSeq, draft} \in SUBSET ({0} \cup Known)
      BY <1>0 DEF WorkerInv, SeenInv, Known
    <3> QED BY <1>k, <2>1, <3>1
  <2>4. \A n \in Deltas(1..stSeq)' : n \in stream' \/ n <= stAfter'
    <3>1. types' = types /\ stream' = stream
      BY <2>1 DEF worker
    <3>2. CASE stSeq' = stSeq
      BY <1>g, <2>1, <3>1, <3>2 DEF StateReads
    <3>3. CASE stSeq' = draft
      BY <1>0, <2>1, <3>1, <3>3 DEF WorkerInv
    <3> QED BY <2>3, <3>2, <3>3
  <2>5. StateReads'
    <3>1. ASSUME NEW n \in Deltas(1..stSeq)'
          PROVE  n \in stream' \/ (st' = "draft" /\ n <= stAfter')
      BY <2>1, <2>4
    <3> HIDE DEF Deltas
    <3> QED BY <3>1 DEF StateReads
  <2> QED BY <2>2, <2>5
<1>20. CASE StateStream
  <2>1. /\ healthy /\ shown' = stText \o Text({n \in stream : n > stAfter})
        /\ IF stEnded THEN UNCHANGED conn
           ELSE Connect(Max({n \in stream : n > stAfter} \cup {stSeq}))
        /\ st = "draft" /\ st' = "idle" /\ UNCHANGED worker
    BY <1>20 DEF StateStream
  <2>2. StreamInv' /\ StateReads' /\ types' = types
    BY <1>g, <2>1 DEF StreamInv, StateReads, worker
  <2>3. /\ pc = "off" /\ IsText(stText, Deltas(1..stAfter)) /\ stAfter <= stSeq
        /\ stAfter \in Nat /\ stSeq \in Nat
    BY <2>1 DEF ResumeInv, SeenInv, Known
  <2>4. CASE stEnded
    BY <2>1, <2>2, <2>3, <2>4 DEF ConnReads, conn
  <2>5. CASE ~stEnded
    <3> DEFINE newer == {n \in stream : n > stAfter}
               M     == newer \cup {stSeq}
               D     == Deltas(newer)
    <3>1. newer \in SUBSET Nat /\ M \in SUBSET ({0} \cup Known) /\ M # {} /\ \A n \in M : n \in Nat
      <4>1. newer \subseteq Known /\ stSeq \in {0} \cup Known
        BY DEF WorkerInv, SeenInv
      <4>2. \A n \in Known : n \in Nat
        BY <1>0 DEF Known
      <4> QED BY <2>3, <4>1, <4>2
    <3>2. cursor' = Max(M) /\ pc' = "list"
      BY <2>1, <2>5 DEF Connect
    <3>3. cursor' \in M /\ \A n \in M : n <= cursor'
      <4> HIDE DEF M
      <4> QED BY <1>k, <3>1, <3>2
    <3>4. IsText(shown', Deltas(1..stAfter) \cup D)
      <4>1. IsText(Text(newer), D) /\ \A m \in Deltas(1..stAfter), n \in D : m < n
        BY <2>3, <3>1, TextIs
      <4> HIDE DEF D
      <4>2. shown' = stText \o Text(newer)
        BY <2>1
      <4> HIDE DEF newer
      <4> QED BY <2>3, <4>1, <4>2, TextGoesOn
    <3>5. \A n \in Deltas(1..stAfter) \cup D : n \in Deltas(1..cursor')
      BY <1>0, <2>3, <3>1, <3>3
    <3>6. \A n \in Deltas(1..cursor') : n \in Deltas(1..stAfter) \cup D
      <4> SUFFICES ASSUME NEW n \in Deltas(1..cursor'), n > stAfter PROVE n \in stream
        BY <2>3, <3>1, <3>3
      <4>1. CASE cursor' = stSeq
        BY <1>g, <2>1, <2>3, <4>1 DEF StateReads
      <4>2. CASE cursor' \in stream
        BY <1>g, <2>1, <4>2, StreamIsClosed
      <4> QED BY <3>3, <4>1, <4>2
    <3>7. Deltas(1..cursor)' = Deltas(1..stAfter) \cup D
      BY <2>2, <3>5, <3>6
    <3> HIDE DEF Deltas, newer, M, D
    <3> QED BY <2>2, <3>2, <3>4, <3>7 DEF ConnReads
  <2> QED BY <2>4, <2>5
<1>21. CASE UNCHANGED vars
  BY <1>21, <1>0, <1>g DEF vars, worker, conn, state, client, StreamInv, StateReads,
    ConnReads
<1> QED BY <1>1, <1>2, <1>3, <1>4, <1>5, <1>6, <1>7, <1>8, <1>9, <1>10, <1>11, <1>12,
    <1>13, <1>14, <1>15, <1>16, <1>17, <1>18, <1>19, <1>20, <1>21 DEF Next, Worker,
      Server, Client

(* The first answer is complete.                                            *)
LEMMA ReplayStep ==
  ASSUME ControlInv, WorkerInv, SeenInv, ResumeInv, HealthyInv, ReplayComplete,
    [Next]_vars
  PROVE  ReplayComplete'
<1>0. last \in Nat /\ last' \in Nat /\ \A n \in Known : n \in Known'
  BY KnownGrows
<1>1. CASE Emit
  <2>1. /\ last' = last + 1 /\ \A n \in 0..last : Deltas(1..n)' = Deltas(1..n)
        /\ Deltas(1..last) \subseteq Deltas(1..last)'
    BY <1>1, EmitAdds
  <2>2. phase = "running" /\ UNCHANGED <<conn, client, healthy>>
    BY <1>1 DEF Emit
  <2>3. cursor \in 0..last
    BY <1>0, <2>2 DEF SeenInv, Known
  <2>4. Deltas(1..cursor)' = Deltas(1..cursor)
    BY <2>1, <2>2, <2>3 DEF conn
  <2>5. Cardinality(Deltas(1..last)) <= Cardinality(Deltas(1..last)')
        /\ Cardinality(Deltas(1..last)) \in Nat /\ Cardinality(Deltas(1..last)') \in Nat
    <3> DEFINE A == Deltas(1..last)
               B == Deltas(1..last)'
    <3>1. IsFiniteSet(1..(last + 1)) /\ B \in SUBSET (1..(last + 1)) /\ A \in SUBSET B
      BY <1>0, <2>1, FS_Interval
    <3> HIDE DEF A, B
    <3>2. IsFiniteSet(B)
      BY <3>1, FS_Subset
    <3>3. IsFiniteSet(A) /\ Cardinality(A) <= Cardinality(B)
      BY <3>1, <3>2, FS_Subset
    <3>4. Cardinality(A) \in Nat /\ Cardinality(B) \in Nat
      BY <3>2, <3>3, FS_CardinalityType
    <3> QED BY <3>3, <3>4 DEF A, B
  <2> HIDE DEF Deltas
  <2>6. Cardinality(Deltas(1..last)') <= MaxEvents => Cardinality(Deltas(1..last)) <= MaxEvents
    BY <2>5
  <2> QED BY <2>2, <2>4, <2>6 DEF ReplayComplete, conn, client
<1>2. CASE RedisSink
  <2>1. last \in Known' /\ XAdd(last)
    BY <1>2, <1>0 DEF RedisSink, WorkerInv, Known
  <2>2. types' = types /\ UNCHANGED <<conn, client>> /\ (healthy' => healthy)
    BY <1>2, <2>1, XAddAdds DEF RedisSink
  <2> QED BY <2>2 DEF ReplayComplete, conn, client
<1>3. CASE PgSink
  <2>1. types' = types /\ UNCHANGED <<conn, client>> /\ (healthy' => healthy)
    BY <1>3 DEF PgSink
  <2> QED BY <2>1 DEF ReplayComplete, conn, client
<1>4. CASE DraftSink
  <2>1. types' = types /\ UNCHANGED <<conn, client>> /\ (healthy' => healthy)
    BY <1>4 DEF DraftSink
  <2> QED BY <2>1 DEF ReplayComplete, conn, client
<1>5. CASE Checkpoint
  <2>1. types' = types /\ UNCHANGED <<conn, client>> /\ (healthy' => healthy)
    BY <1>5 DEF Checkpoint
  <2> QED BY <2>1 DEF ReplayComplete, conn, client
<1>6. CASE Finish
  <2>1. types' = types /\ UNCHANGED <<conn, client>> /\ (healthy' => healthy)
    BY <1>6 DEF Finish
  <2> QED BY <2>1 DEF ReplayComplete, conn, client
<1>7. CASE PublishTerminal
  <2>1. last + 1 \in Known' /\ XAdd(last + 1)
    BY <1>7, <1>0 DEF PublishTerminal, WorkerInv, Known
  <2>2. types' = types /\ UNCHANGED <<conn, client>> /\ (healthy' => healthy)
    BY <1>7, <2>1, XAddAdds DEF PublishTerminal
  <2> QED BY <2>2 DEF ReplayComplete, conn, client
<1>8. CASE DeleteDraft
  <2>1. types' = types /\ UNCHANGED <<conn, client>> /\ (healthy' => healthy)
    BY <1>8 DEF DeleteDraft
  <2> QED BY <2>1 DEF ReplayComplete, conn, client
<1>9. CASE ListPersisted
  BY <1>9 DEF ListPersisted, worker, state, client, ReplayComplete
<1>10. CASE ReplayRedis
  BY <1>10 DEF ReplayRedis, worker, state, client, ReplayComplete
<1>11. CASE Merge
  <2> SUFFICES ASSUME healthy, first, Cardinality(Deltas(1..last)) <= MaxEvents,
                      pc' = "check"
               PROVE  Deltas(1..cursor)' \subseteq Range(shown')
    BY <1>11 DEF Merge, worker, ReplayComplete
  <2>1. /\ pc = "merge" /\ shown' = shown \o MergedText /\ types' = types
        /\ cursor' = Max((streamed \cup CheckpointEvents \cup persisted) \cup {cursor, draft})
    BY <1>11 DEF Merge, worker
  <2>2. cursor' \in (streamed \cup CheckpointEvents \cup persisted) \cup {cursor, draft}
    <3>1. \A n \in CheckpointEvents : n \in Known
      BY <1>0, CheckpointEventsAre DEF Known, WorkerInv
    <3>2. draft \in {0} \cup Known
      BY <1>0 DEF WorkerInv, Known
    <3>3. (streamed \cup CheckpointEvents \cup persisted) \cup {cursor, draft}
             \in SUBSET ({0} \cup Known)
      BY <3>1, <3>2 DEF SeenInv
    <3> QED BY <2>1, <3>3, MaxKnown
  <2>3. ConnReads
    BY DEF HealthyInv
  <2>4. Range(shown') = Range(shown) \cup Range(MergedText)
    BY <2>1, MergedTextIs, RangeConcatenation DEF SeenInv
  <2>5. Range(shown) = Deltas(1..cursor)
    BY <2>1, <2>3 DEF ConnReads, IsText
  <2>6. Deltas(streamed \cup CheckpointEvents) \subseteq Range(MergedText)
    BY MergedTextIs
  <2>7. /\ cursor \in Nat /\ draft \in Nat
        /\ \A m \in Deltas(1..draft) : m > cursor => m \in CheckpointEvents \cup streamed
    <3>1. cursor \in Nat /\ draft \in Nat
      BY <1>0 DEF SeenInv, WorkerInv, Known
    <3>2. ASSUME NEW m \in Deltas(1..draft), m > cursor PROVE draft > cursor
      BY <3>1, <3>2
    <3> QED BY <3>1, <3>2, CheckpointEventsAre
  <2>8. ASSUME NEW m \in Deltas(1..cursor'), m > cursor
        PROVE  m \in streamed \cup CheckpointEvents
    <3>1. CASE cursor' \in streamed \cup persisted
      BY <2>1, <2>3, <2>8, <3>1 DEF ConnReads
    <3>2. CASE cursor' = draft
      BY <2>7, <2>8, <3>2
    <3>3. CASE cursor' \in CheckpointEvents
      <4>1. cursor' <= draft /\ cursor' \in Nat
        BY <3>3, <2>7, CheckpointEventsAre
      <4>2. m \in Deltas(1..draft)
        BY <2>7, <4>1
      <4> QED BY <2>7, <2>8, <4>2
    <3>4. CASE cursor' = cursor
      BY <2>7, <2>8, <3>4
    <3> QED BY <2>2, <3>1, <3>2, <3>3, <3>4
  <2>9. ASSUME NEW m \in Deltas(1..cursor') PROVE m \in Range(shown')
    <3>1. m \in Nat /\ m > 0 /\ m <= last /\ types[m] = "delta"
      OBVIOUS
    <3>2. CASE m <= cursor
      <4>1. m \in Deltas(1..cursor)
        BY <2>7, <3>1, <3>2
      <4> QED BY <2>4, <2>5, <4>1
    <3>3. CASE m > cursor
      <4>1. m \in Deltas(streamed \cup CheckpointEvents)
        BY <2>8, <3>1, <3>3
      <4> QED BY <2>4, <2>6, <4>1
    <3> QED BY <2>7, <3>1, <3>2, <3>3
  <2> QED BY <2>1, <2>9
<1>12. CASE CheckTerminal
  BY <1>12 DEF CheckTerminal, worker, state, client, ReplayComplete
<1>13. CASE ReadTail
  BY <1>13 DEF ReadTail, worker, state, ReplayComplete
<1>14. CASE TailEmpty
  BY <1>14 DEF TailEmpty, worker, state, client, ReplayComplete
<1>15. CASE Disconnect
  BY <1>15 DEF Disconnect, worker, state, client, ReplayComplete
<1>16. CASE StartFresh
  BY <1>16 DEF StartFresh, worker, state, Connect, ReplayComplete
<1>17. CASE StateRow
  BY <1>17 DEF StateRow, worker, conn, client, ReplayComplete
<1>18. CASE StateEvents
  BY <1>18 DEF StateEvents, worker, conn, client, ReplayComplete
<1>19. CASE StateDraft
  BY <1>19 DEF StateDraft, worker, conn, client, ReplayComplete
<1>20. CASE StateStream
  <2>1. pc = "off"
    BY <1>20 DEF StateStream, ResumeInv
  <2>2. pc' \in {"off", "list"}
    BY <1>20, <2>1 DEF StateStream, conn, Connect
  <2> QED BY <2>2 DEF ReplayComplete
<1>21. CASE UNCHANGED vars
  BY <1>21 DEF vars, worker, conn, state, client, ReplayComplete
<1> QED BY <1>1, <1>2, <1>3, <1>4, <1>5, <1>6, <1>7, <1>8, <1>9, <1>10, <1>11, <1>12,
    <1>13, <1>14, <1>15, <1>16, <1>17, <1>18, <1>19, <1>20, <1>21 DEF Next, Worker,
      Server, Client

-----------------------------------------------------------------------------
(* Nobody has read or written anything yet.                                 *)
LEMMA InitSse == Init => SseInv
<1> SUFFICES ASSUME Init PROVE SseInv
  OBVIOUS
<1>1. <<>> \in Seq(Nat) /\ <<>> \in Seq({"delta", "tool"}) /\ Len(<<>>) = 0
  OBVIOUS
<1>2. ControlInv
  BY DEF Init, ControlInv
<1>3. WorkerInv
  BY <1>1 DEF Init, WorkerInv
<1>4. SeenInv
  BY <1>1 DEF Init, SeenInv
<1>5. ResumeInv
  BY DEF Init, ResumeInv
<1>6. HealthyInv
  BY <1>1 DEF Init, HealthyInv, StreamInv, StateReads, ConnReads
<1>7. ReplayComplete
  BY DEF Init, ReplayComplete
<1> QED BY <1>2, <1>3, <1>4, <1>5, <1>6, <1>7 DEF SseInv

(* The inductive invariant from which the theorems below follow.            *)
THEOREM SseInvariant == Safety => []SseInv
<1>1. SseInv /\ [Next]_vars => SseInv'
  BY ControlStep, WorkerStep, SeenStep, ResumeStep, HealthyStep, ReplayStep DEF SseInv
<1> QED BY <1>1, InitSse, PTL DEF Safety

(* The types of the whole module: no store, cursor or state names a seq     *)
(* beyond the terminal event.                                               *)
THEOREM SseTypes == Safety => []TypeOK
<1>1. SseInv => TypeOK
  <2> SUFFICES ASSUME ControlInv, WorkerInv, SeenInv PROVE TypeOK
    BY DEF SseInv
  <2>1. last \in Nat /\ last <= MaxSeq /\ types \in Seq({"delta", "tool"})
    BY DEF WorkerInv
  <2>2. types \in BoundedSeq({"delta", "tool"}, MaxSeq)
    <3>1. types \in [1..last -> {"delta", "tool"}] /\ last \in 0..MaxSeq
      BY <2>1
    <3> HIDE DEF last
    <3> QED BY <3>1 DEF BoundedSeq, SeqOf
  <2>3. \A n \in Known : n \in 1..(MaxSeq + 1)
    BY <2>1 DEF Known
  <2>4. events \cup stream \cup persisted \cup streamed \subseteq 1..(MaxSeq + 1)
    BY <2>3 DEF WorkerInv, SeenInv
  <2>5. {draft, latest} \subseteq 0..MaxSeq
    BY <2>1 DEF WorkerInv
  <2>6. {after, cursor, stSeq, stAfter} \subseteq 0..(MaxSeq + 1)
    BY <2>3 DEF SeenInv
  <2>7. {baseline, first, terminal, stEnded, healthy} \subseteq BOOLEAN
    BY DEF ControlInv
  <2> QED BY <2>2, <2>4, <2>5, <2>6, <2>7 DEF ControlInv, TypeOK
<1> QED BY <1>1, SseInvariant, PTL

(* iter_run_events: a client that resumes sees every letter at most once    *)
(* and in order, for every length of the run and of the stream, whatever    *)
(* Redis drops, trims and refuses, and wherever the worker is.              *)
THEOREM ResumedTextInOrder == Safety => []ResumedInOrder
<1>1. SseInv => ResumedInOrder
  BY DEF SseInv, ResumeInv, SeenInv, Known, ResumedInOrder
<1> QED BY <1>1, SseInvariant, PTL

(* get_owned_run_state and the first iteration of iter_run_events: with a   *)
(* Redis that has lost nothing neither leaves a hole, although they read    *)
(* rows, draft and stream at different times.                               *)
THEOREM AnswersHaveNoHole == Safety => []NothingMissing
<1>1. SseInv => NothingMissing
  <2> SUFFICES ASSUME SseInv PROVE NothingMissing
    OBVIOUS
  <2>1. RestoredComplete
    <3> SUFFICES ASSUME healthy, first, pc = "list" PROVE shown = Text(1..cursor)
      BY DEF RestoredComplete
    <3>1. IsText(shown, Deltas(1..cursor))
      BY DEF SseInv, HealthyInv, ConnReads
    <3>2. WorkerInv /\ 1..cursor \in SUBSET Nat
      BY DEF SseInv, SeenInv, Known
    <3>3. IsText(Text(1..cursor), Deltas(1..cursor))
      BY <3>2, TextIs
    <3> HIDE DEF Deltas
    <3> QED BY <3>1, <3>3, TextsAgree
  <2> QED BY <2>1 DEF SseInv, NothingMissing
<1> QED BY <1>1, SseInvariant, PTL
=============================================================================
