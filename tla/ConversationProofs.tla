------------------------- MODULE ConversationProofs -------------------------
(***************************************************************************)
(* Theorems about Conversation, for every set of tabs and every bound.     *)
(*                                                                         *)
(* The argument: a request that is past its check for active runs holds    *)
(* the conversation and nothing can become active under it (LockInv), so   *)
(* one run is active at a time; while it is, no message is added but its   *)
(* own answer, so the position its final transaction has read is still the *)
(* next one (FinInv) and the answer lands behind its question.             *)
(***************************************************************************)
EXTENDS Conversation, SequenceTheorems, TLAPS

MsgRow == [role : {"user", "assistant"}, position : Nat, run : Nat, archived : BOOLEAN]
RunRow == [msg : Nat, status : ActiveStatuses \cup TerminalStatuses]

SeqInv == msgs \in Seq(MsgRow) /\ runs \in Seq(RunRow)

(* Messages are numbered in the order of their insertion, and runs answer   *)
(* user messages.                                                           *)
RowInv == /\ \A m \in DOMAIN msgs : msgs[m].position = m
          /\ \A r \in DOMAIN runs : msgs[runs[r].msg].role = "user"

(* A request that is under way holds the conversation; past the check no    *)
(* run is active; its target is a question that readers see.                *)
LockInv == \A t \in Tabs :
             /\ req[t].pc \in {"locked", "ensured"} => lock = t
             /\ req[t].pc = "ensured" => ActiveRuns = {}
             /\ req[t].pc \in {"locked", "ensured"}
                  /\ req[t].kind \in {"edit", "regenerate"}
                  => req[t].target \in Visible /\ msgs[req[t].target].role = "user"

(* The open final transaction belongs to an active run and has read the     *)
(* position that is still next.                                             *)
FinInv == fin # 0 => /\ fin \in DOMAIN runs /\ runs[fin].status = "started"
                     /\ finPos = Len(msgs) + 1

(* Foreign keys between messages and runs.                                  *)
RefInv == /\ \A m \in DOMAIN msgs : msgs[m].run \in DOMAIN runs
          /\ \A r \in DOMAIN runs : runs[r].msg \in DOMAIN msgs

RowsInv == /\ SeqInv /\ RowInv /\ RefInv
           /\ OneActiveRun /\ AnswersInPlace /\ ActiveRunAnswersLast

ReqRow == [pc : {"idle", "locked", "ensured", "deleting"},
           kind : {"none", "submit", "edit", "regenerate", "delete"},
           target : 0..MaxMsgs]

(* The variables besides the rows.                                          *)
CtlInv == /\ Len(msgs) <= MaxMsgs /\ Len(runs) <= MaxRuns
          /\ deleted \in {"no", "yes", "due"} /\ gone \in BOOLEAN
          /\ lock \in Tabs \cup {"nobody"}
          /\ req \in [Tabs -> ReqRow]
          /\ fin \in Nat /\ (fin = 0 => finPos = 0)

ConvInv == RowsInv /\ CtlInv /\ LockInv /\ FinInv

-----------------------------------------------------------------------------
(* The largest of an initial segment of the naturals.                       *)
LEMMA MaxUpTo ==
  ASSUME NEW n \in Nat
  PROVE  Max(0..n) = n
<1>1. n \in 0..n /\ \A y \in 0..n : n >= y
  OBVIOUS
<1>2. \A x \in 0..n : (\A y \in 0..n : x >= y) => x = n
  BY <1>1
<1> QED BY <1>1, <1>2 DEF Max

(* get_next_message_position is one more than the number of messages.       *)
LEMMA NextPositionIsNext ==
  ASSUME SeqInv, RowInv
  PROVE  NextPosition = Len(msgs) + 1
<1>1. Len(msgs) \in Nat /\ DOMAIN msgs = 1..Len(msgs)
  BY DEF SeqInv
<1>2. {msgs[m].position : m \in DOMAIN msgs} \cup {0} = 0..Len(msgs)
  BY <1>1 DEF RowInv
<1> QED BY <1>1, <1>2, MaxUpTo DEF NextPosition

(* What is left after archiving.                                            *)
LEMMA Archived ==
  ASSUME SeqInv, RowInv, NEW p \in Nat
  PROVE  /\ ArchiveFrom(p) \in Seq(MsgRow)
         /\ Len(ArchiveFrom(p)) = Len(msgs)
         /\ \A m \in DOMAIN msgs :
              ArchiveFrom(p)[m] = (IF m >= p THEN [msgs[m] EXCEPT !.archived = TRUE] ELSE msgs[m])
         /\ \A m \in DOMAIN msgs : /\ ArchiveFrom(p)[m].role = msgs[m].role
                                  /\ ArchiveFrom(p)[m].position = msgs[m].position
                                  /\ ArchiveFrom(p)[m].run = msgs[m].run
         /\ \A m \in DOMAIN msgs :
              ~ArchiveFrom(p)[m].archived <=> ~msgs[m].archived /\ ~(m >= p)
<1>1. /\ Len(msgs) \in Nat /\ DOMAIN msgs = 1..Len(msgs)
      /\ \A m \in DOMAIN msgs : msgs[m] \in MsgRow
  BY DEF SeqInv
<1>2. \A m \in DOMAIN msgs :
        ArchiveFrom(p)[m] = (IF m >= p THEN [msgs[m] EXCEPT !.archived = TRUE] ELSE msgs[m])
  BY <1>1 DEF ArchiveFrom, RowInv
<1>3. \A m \in DOMAIN msgs : ArchiveFrom(p)[m] \in MsgRow
  BY <1>1, <1>2 DEF MsgRow
<1>4. DOMAIN ArchiveFrom(p) = 1..Len(msgs)
  BY <1>1 DEF ArchiveFrom
<1>5. ArchiveFrom(p) \in [1..Len(msgs) -> MsgRow]
  BY <1>1, <1>3, <1>4 DEF ArchiveFrom
<1>6. ArchiveFrom(p) \in Seq(MsgRow)
  BY <1>1, <1>5, IsASeq
<1>7. ASSUME NEW m \in DOMAIN msgs
      PROVE  /\ ArchiveFrom(p)[m].role = msgs[m].role
             /\ ArchiveFrom(p)[m].position = msgs[m].position
             /\ ArchiveFrom(p)[m].run = msgs[m].run
  BY <1>1, <1>2 DEF MsgRow
<1>8. ASSUME NEW m \in DOMAIN msgs
      PROVE  ~ArchiveFrom(p)[m].archived <=> ~msgs[m].archived /\ ~(m >= p)
  BY <1>1, <1>2 DEF MsgRow
<1>9. Len(ArchiveFrom(p)) = Len(msgs)
  BY <1>1, <1>4, <1>6, LenProperties
<1> QED BY <1>2, <1>6, <1>7, <1>8, <1>9

-----------------------------------------------------------------------------
(* The rows under each kind of step.                                        *)

(* A step that leaves the rows alone keeps what is said of them.            *)
LEMMA RowsFrame ==
  ASSUME RowsInv, UNCHANGED rows
  PROVE  RowsInv' /\ ActiveRuns' = ActiveRuns /\ Visible' = Visible
BY DEF rows, RowsInv, SeqInv, RowInv, RefInv, OneActiveRun, AnswersInPlace,
       ActiveRunAnswersLast, ActiveRuns, Visible

(* What the rows are.                                                       *)
LEMMA RowFacts ==
  ASSUME RowsInv
  PROVE  /\ Len(msgs) \in Nat /\ DOMAIN msgs = 1..Len(msgs)
         /\ Len(runs) \in Nat /\ DOMAIN runs = 1..Len(runs)
         /\ \A m \in DOMAIN msgs : msgs[m] \in MsgRow
         /\ \A r \in DOMAIN runs : runs[r] \in RunRow
BY DEF RowsInv, SeqInv

(* SetRun changes one status and nothing else.                              *)
LEMMA SetRunFacts ==
  ASSUME RowsInv, NEW r \in ActiveRuns, NEW to \in ActiveStatuses \cup TerminalStatuses,
         SetRun(r, to)
  PROVE  /\ r \in DOMAIN runs /\ runs' \in Seq(RunRow)
         /\ Len(runs') = Len(runs) /\ DOMAIN runs' = DOMAIN runs
         /\ \A s \in DOMAIN runs : runs'[s].msg = runs[s].msg
         /\ \A s \in DOMAIN runs : s # r => runs'[s] = runs[s]
         /\ runs'[r].status = to
<1>1. /\ r \in DOMAIN runs /\ runs \in Seq(RunRow) /\ runs[r] \in RunRow
      /\ runs[r].status \in ActiveStatuses
  BY RowFacts DEF ActiveRuns, RowsInv, SeqInv
<1>2. [runs[r] EXCEPT !.status = to] \in RunRow
  BY <1>1 DEF RunRow
<1>3. runs' = [runs EXCEPT ![r] = [runs[r] EXCEPT !.status = to]]
  BY <1>1 DEF SetRun
<1>4. /\ runs' \in Seq(RunRow) /\ Len(runs') = Len(runs) /\ DOMAIN runs' = DOMAIN runs
      /\ \A s \in DOMAIN runs : runs'[s] = IF s = r THEN [runs[r] EXCEPT !.status = to]
                                                     ELSE runs[s]
  BY <1>1, <1>2, <1>3, ExceptSeq
<1>5. /\ \A s \in DOMAIN runs : runs'[s].msg = runs[s].msg
      /\ \A s \in DOMAIN runs : s # r => runs'[s] = runs[s]
      /\ runs'[r].status = to
  BY <1>1, <1>4, RowFacts DEF RunRow
<1> QED BY <1>1, <1>4, <1>5

(* An active run moves on, and perhaps ends.                                *)
LEMMA StatusStep ==
  ASSUME RowsInv, NEW r \in ActiveRuns, NEW to \in ActiveStatuses \cup TerminalStatuses,
         SetRun(r, to), UNCHANGED msgs
  PROVE  RowsInv' /\ ActiveRuns' \subseteq ActiveRuns /\ Visible' = Visible
<1>1. /\ r \in DOMAIN runs /\ runs' \in Seq(RunRow) /\ DOMAIN runs' = DOMAIN runs
      /\ \A s \in DOMAIN runs : runs'[s].msg = runs[s].msg
      /\ \A s \in DOMAIN runs : s # r => runs'[s] = runs[s]
  BY SetRunFacts
<1>2. ActiveRuns' \subseteq ActiveRuns /\ Visible' = Visible
  BY <1>1 DEF ActiveRuns, Visible
<1>3. SeqInv' /\ RowInv' /\ RefInv'
  BY <1>1 DEF RowsInv, SeqInv, RowInv, RefInv
<1>4. OneActiveRun'
  BY <1>2 DEF RowsInv, OneActiveRun
<1>5. AnswersInPlace'
  <2>1. \A m \in Visible : runs'[msgs[m].run].msg = runs[msgs[m].run].msg
    BY <1>1 DEF RowsInv, RefInv, Visible
  <2> QED BY <1>2, <2>1 DEF RowsInv, AnswersInPlace
<1>6. ActiveRunAnswersLast'
  BY <1>1, <1>2 DEF RowsInv, ActiveRunAnswersLast, ActiveRuns
<1> QED BY <1>2, <1>3, <1>4, <1>5, <1>6 DEF RowsInv

(* Queue adds a run, which is the only active one if none was.              *)
LEMMA QueueStep ==
  ASSUME RowsInv, ActiveRuns = {}, NEW q \in Nat, Queue(q)
  PROVE  /\ runs' \in Seq(RunRow) /\ Len(runs') = Len(runs) + 1
         /\ DOMAIN runs' = DOMAIN runs \cup {NewRun}
         /\ \A s \in DOMAIN runs : runs'[s] = runs[s]
         /\ NewRun \in Nat \ DOMAIN runs /\ runs'[NewRun].msg = q
         /\ ActiveRuns' = {NewRun}
<1>1. [msg |-> q, status |-> "queued"] \in RunRow
  BY DEF RunRow, ActiveStatuses
<1>2. /\ runs' \in Seq(RunRow) /\ Len(runs') = Len(runs) + 1
      /\ \A s \in 1..Len(runs) : runs'[s] = runs[s]
      /\ runs'[Len(runs) + 1] = [msg |-> q, status |-> "queued"]
  BY <1>1, AppendProperties DEF Queue, RowsInv, SeqInv
<1>3. /\ Len(runs) \in Nat /\ DOMAIN runs = 1..Len(runs)
      /\ DOMAIN runs' = 1..(Len(runs) + 1)
  BY <1>2, RowFacts, LenProperties
<1>4. DOMAIN runs' = DOMAIN runs \cup {NewRun} /\ NewRun \in Nat \ DOMAIN runs
  BY <1>3 DEF NewRun
<1>5. ActiveRuns' = {NewRun}
  BY <1>2, <1>3, <1>4 DEF ActiveRuns, NewRun, ActiveStatuses
<1> QED BY <1>2, <1>3, <1>4, <1>5 DEF NewRun

(* An answer in terms of the ids of rows.                                   *)
LEMMA AnswerFacts ==
  ASSUME RowsInv, NEW m \in Visible, msgs[m].role = "assistant"
  PROVE  LET a == runs[msgs[m].run].msg
         IN /\ a \in Visible /\ a \in DOMAIN msgs /\ msgs[a].role = "user"
            /\ msgs[a].run = msgs[m].run /\ a < m
            /\ \A k \in Visible : ~(a < k /\ k < m)
<1> DEFINE a == runs[msgs[m].run].msg
<1>1. \A k \in Visible : k \in DOMAIN msgs /\ msgs[k].position = k
  BY DEF RowsInv, RowInv, Visible
<1>2. /\ a \in Visible /\ msgs[a].role = "user" /\ msgs[a].run = msgs[m].run
      /\ msgs[a].position < msgs[m].position
      /\ ~ \E k \in Visible : /\ msgs[a].position < msgs[k].position
                             /\ msgs[k].position < msgs[m].position
  BY DEF RowsInv, AnswersInPlace
<1> QED BY <1>1, <1>2

(* A new question: what is at p or after it is archived, and the new        *)
(* message and run come last.                                               *)
LEMMA NewTurn ==
  ASSUME RowsInv, ActiveRuns = {}, NEW p \in Nat,
         msgs' = Append(ArchiveFrom(p), UserMessage(NextPosition, NewRun)),
         Queue(Len(msgs) + 1)
  PROVE  RowsInv' /\ Len(msgs') = Len(msgs) + 1 /\ Len(runs') = Len(runs) + 1
<1> DEFINE n == Len(msgs) + 1
<1>1. /\ Len(msgs) \in Nat /\ DOMAIN msgs = 1..Len(msgs) /\ n \in Nat
      /\ \A m \in DOMAIN msgs : msgs[m] \in MsgRow
      /\ NextPosition = n
  BY RowFacts, NextPositionIsNext DEF RowsInv
<1>2. /\ runs' \in Seq(RunRow) /\ Len(runs') = Len(runs) + 1
      /\ DOMAIN runs' = DOMAIN runs \cup {NewRun}
      /\ \A s \in DOMAIN runs : runs'[s] = runs[s]
      /\ NewRun \in Nat \ DOMAIN runs /\ runs'[NewRun].msg = n
      /\ ActiveRuns' = {NewRun}
  BY <1>1, QueueStep
<1>3. UserMessage(n, NewRun) \in MsgRow
  BY <1>1, <1>2 DEF UserMessage, MsgRow
<1>4. /\ ArchiveFrom(p) \in Seq(MsgRow) /\ Len(ArchiveFrom(p)) = Len(msgs)
      /\ \A m \in DOMAIN msgs :
           ArchiveFrom(p)[m] = (IF m >= p THEN [msgs[m] EXCEPT !.archived = TRUE] ELSE msgs[m])
  BY Archived DEF RowsInv
<1>5. /\ msgs' \in Seq(MsgRow) /\ Len(msgs') = n
      /\ \A m \in 1..Len(msgs) : msgs'[m] = ArchiveFrom(p)[m]
      /\ msgs'[n] = UserMessage(n, NewRun)
  BY <1>1, <1>3, <1>4, AppendProperties
<1>6. DOMAIN msgs' = DOMAIN msgs \cup {n} /\ n \notin DOMAIN msgs
  BY <1>1, <1>5
<1>7. /\ \A m \in DOMAIN msgs : /\ msgs'[m].role = msgs[m].role
                               /\ msgs'[m].position = msgs[m].position
                               /\ msgs'[m].run = msgs[m].run
      /\ msgs'[n].role = "user" /\ msgs'[n].position = n /\ msgs'[n].run = NewRun
  <2>1. ASSUME NEW m \in DOMAIN msgs
        PROVE  /\ msgs'[m].role = msgs[m].role
               /\ msgs'[m].position = msgs[m].position
               /\ msgs'[m].run = msgs[m].run
    BY <1>1, <1>4, <1>5 DEF MsgRow
  <2>2. msgs'[n].role = "user" /\ msgs'[n].position = n /\ msgs'[n].run = NewRun
    BY <1>5 DEF UserMessage
  <2> QED BY <2>1, <2>2
<1>8. Visible' = {m \in Visible : ~(m >= p)} \cup {n}
  <2>1. ASSUME NEW m \in DOMAIN msgs PROVE ~msgs'[m].archived <=> ~msgs[m].archived /\ ~(m >= p)
    BY <1>1, <1>4, <1>5 DEF MsgRow
  <2>2. ~msgs'[n].archived
    BY <1>5 DEF UserMessage
  <2> QED BY <1>6, <2>1, <2>2 DEF Visible
<1> HIDE DEF n
<1>9. SeqInv' /\ RowInv' /\ RefInv'
  <2>1. SeqInv' BY <1>2, <1>5 DEF SeqInv
  <2>2. RefInv' BY <1>2, <1>6, <1>7 DEF RowsInv, RefInv
  <2>3. \A r \in DOMAIN runs : msgs'[runs[r].msg].role = "user"
    BY <1>7 DEF RowsInv, RowInv, RefInv
  <2>4. RowInv' BY <1>2, <1>6, <1>7, <2>3 DEF RowsInv, RowInv
  <2> QED BY <2>1, <2>2, <2>4
<1>10. OneActiveRun'
  BY <1>2 DEF OneActiveRun
<1>11. ActiveRunAnswersLast'
  <2>1. \A m \in Visible' : msgs'[m].position <= n
    BY <1>1, <1>6, <1>7, <1>8 DEF RowsInv, RowInv, Visible, n
  <2> QED BY <1>2, <1>7, <1>8, <2>1 DEF ActiveRunAnswersLast
<1>12. AnswersInPlace'
  <2> SUFFICES ASSUME NEW m \in Visible', msgs'[m].role = "assistant"
               PROVE  LET asked == runs'[msgs'[m].run].msg
                      IN /\ asked \in Visible' /\ msgs'[asked].role = "user"
                         /\ msgs'[asked].run = msgs'[m].run
                         /\ msgs'[asked].position < msgs'[m].position
                         /\ ~ \E k \in Visible' : /\ msgs'[asked].position < msgs'[k].position
                                                 /\ msgs'[k].position < msgs'[m].position
    BY DEF AnswersInPlace
  <2> DEFINE a == runs[msgs[m].run].msg
  <2>1. m \in Visible /\ ~(m >= p) /\ msgs[m].role = "assistant" /\ m \in DOMAIN msgs
    BY <1>6, <1>7, <1>8 DEF Visible
  <2>2. /\ a \in Visible /\ msgs[a].role = "user" /\ msgs[a].run = msgs[m].run /\ a < m
        /\ \A k \in Visible : ~(a < k /\ k < m)
        /\ a \in DOMAIN msgs
    BY <2>1, AnswerFacts
  <2>3. runs'[msgs'[m].run].msg = a
    BY <1>2, <1>7, <2>1 DEF RowsInv, RefInv
  <2>4. ~(a >= p) /\ a \in Visible'
    BY <1>1, <1>8, <2>1, <2>2
  <2>5. /\ msgs'[a].role = "user" /\ msgs'[a].run = msgs'[m].run
        /\ msgs'[a].position = a /\ msgs'[m].position = m
    BY <1>7, <2>1, <2>2 DEF RowsInv, RowInv
  <2>6. \A k \in Visible' : msgs'[k].position = k /\ ~(a < k /\ k < m)
    <3>1. ~(n < m) BY <1>1, <2>1 DEF n
    <3> QED BY <1>7, <1>8, <2>2, <3>1 DEF RowsInv, RowInv, Visible
  <2> HIDE DEF a
  <2> QED BY <2>2, <2>3, <2>4, <2>5, <2>6
<1> QED BY <1>2, <1>5, <1>9, <1>10, <1>11, <1>12 DEF RowsInv, n

(* One row of a sequence of rows is replaced.                               *)
LEMMA RowReplaced ==
  ASSUME NEW s \in Seq(MsgRow), NEW i \in 1..Len(s), NEW e \in MsgRow,
         NEW z, z = [s EXCEPT ![i] = e]
  PROVE  /\ z \in Seq(MsgRow) /\ Len(z) = Len(s)
         /\ z[i] = e /\ \A m \in 1..Len(s) \ {i} : z[m] = s[m]
BY ExceptSeq

(* What regenerate_from_message does to the messages.                       *)
Reask(q) == msgs' = [ArchiveFrom(msgs[q].position + 1) EXCEPT ![q].run = NewRun]

(* A question is answered again: what comes after it is archived, and it    *)
(* belongs to the new run.                                                  *)
LEMMA AskedAgain ==
  ASSUME RowsInv, ActiveRuns = {}, NEW q \in Visible, msgs[q].role = "user",
         Reask(q), Queue(q)
  PROVE  RowsInv' /\ Len(msgs') = Len(msgs) /\ Len(runs') = Len(runs) + 1
<1> DEFINE old == ArchiveFrom(q + 1)
<1>1. /\ Len(msgs) \in Nat /\ DOMAIN msgs = 1..Len(msgs)
      /\ \A m \in DOMAIN msgs : msgs[m] \in MsgRow
      /\ q \in DOMAIN msgs /\ q \in Nat /\ msgs[q].position = q /\ ~msgs[q].archived
  BY RowFacts DEF RowsInv, RowInv, Visible
<1>2. /\ runs' \in Seq(RunRow) /\ Len(runs') = Len(runs) + 1
      /\ DOMAIN runs' = DOMAIN runs \cup {NewRun}
      /\ \A s \in DOMAIN runs : runs'[s] = runs[s]
      /\ NewRun \in Nat \ DOMAIN runs /\ runs'[NewRun].msg = q
      /\ ActiveRuns' = {NewRun}
  BY <1>1, QueueStep
<1>3. /\ old \in Seq(MsgRow) /\ Len(old) = Len(msgs)
      /\ \A m \in DOMAIN msgs :
           old[m] = (IF m >= q + 1 THEN [msgs[m] EXCEPT !.archived = TRUE] ELSE msgs[m])
      /\ \A m \in DOMAIN msgs : /\ old[m].role = msgs[m].role
                               /\ old[m].position = msgs[m].position
                               /\ old[m].run = msgs[m].run
      /\ \A m \in DOMAIN msgs :
           ~old[m].archived <=> ~msgs[m].archived /\ ~(m >= q + 1)
  BY <1>1, Archived DEF RowsInv
<1>4. msgs' = [old EXCEPT ![q].run = NewRun]
  BY <1>1 DEF Reask
<1> HIDE DEF old
<1>5. old[q] = msgs[q] /\ q \in 1..Len(old) /\ DOMAIN old = DOMAIN msgs
  <2>1. ~(q >= q + 1) BY <1>1
  <2>2. old[q] = msgs[q] BY <1>1, <1>3, <2>1
  <2>3. DOMAIN old = 1..Len(old) BY <1>3, LenProperties
  <2> QED BY <1>1, <1>3, <2>2, <2>3
<1> DEFINE row == [msgs[q] EXCEPT !.run = NewRun]
<1>6. /\ row \in MsgRow /\ row.role = msgs[q].role /\ row.position = q
      /\ row.run = NewRun /\ ~row.archived
  BY <1>1, <1>2 DEF MsgRow
<1>7. /\ msgs' \in Seq(MsgRow) /\ Len(msgs') = Len(msgs) /\ DOMAIN msgs' = DOMAIN msgs
      /\ \A m \in DOMAIN msgs : msgs'[m] = IF m = q THEN row ELSE old[m]
  <2>1. msgs' = [old EXCEPT ![q] = row]
    BY <1>4, <1>5
  <2>0. old \in Seq(MsgRow) /\ q \in 1..Len(old) /\ row \in MsgRow
    BY <1>3, <1>5, <1>6
  <2> HIDE DEF row
  <2>2. /\ msgs' \in Seq(MsgRow) /\ Len(msgs') = Len(old)
        /\ msgs'[q] = row /\ \A m \in 1..Len(old) \ {q} : msgs'[m] = old[m]
    BY <2>0, <2>1, RowReplaced
  <2> QED BY <1>1, <1>3, <2>2, LenProperties
<1> HIDE DEF row
<1>8. /\ \A m \in DOMAIN msgs : /\ msgs'[m].role = msgs[m].role
                               /\ msgs'[m].position = msgs[m].position
      /\ \A m \in DOMAIN msgs \ {q} : msgs'[m].run = msgs[m].run
      /\ msgs'[q].run = NewRun
  <2>1. msgs'[q].run = NewRun
    BY <1>1, <1>6, <1>7
  <2>2. ASSUME NEW m \in DOMAIN msgs
        PROVE  msgs'[m].role = msgs[m].role /\ msgs'[m].position = msgs[m].position
    <3>1. CASE m = q BY <3>1, <1>1, <1>6, <1>7
    <3>2. CASE m # q
      <4>1. msgs'[m] = old[m] BY <3>2, <1>7
      <4> QED BY <1>3, <4>1
    <3> QED BY <3>1, <3>2
  <2>3. ASSUME NEW m \in DOMAIN msgs \ {q} PROVE msgs'[m].run = msgs[m].run
    <3>1. msgs'[m] = old[m] BY <1>7
    <3> QED BY <1>3, <3>1
  <2> QED BY <2>1, <2>2, <2>3
<1>9. Visible' = {m \in Visible : m <= q}
  <2>1. ASSUME NEW m \in DOMAIN msgs PROVE ~msgs'[m].archived <=> ~msgs[m].archived /\ m <= q
    <3>1. CASE m = q
      <4>1. msgs'[q] = row BY <1>1, <1>7
      <4>2. q <= q BY <1>1
      <4> QED BY <3>1, <1>1, <1>6, <4>1, <4>2
    <3>2. CASE m # q
      <4>1. msgs'[m] = old[m] /\ m \in Nat BY <3>2, <1>1, <1>7
      <4>2. m >= q + 1 <=> ~(m <= q) BY <1>1, <4>1
      <4> QED BY <1>3, <4>1, <4>2
    <3> QED BY <3>1, <3>2
  <2> QED BY <1>7, <2>1 DEF Visible
<1>10. SeqInv' /\ RowInv' /\ RefInv'
  <2>1. SeqInv' BY <1>2, <1>7 DEF SeqInv
  <2>2. RefInv' BY <1>1, <1>2, <1>7, <1>8 DEF RowsInv, RefInv
  <2>3. \A r \in DOMAIN runs : msgs'[runs[r].msg].role = "user"
    BY <1>8 DEF RowsInv, RowInv, RefInv
  <2>4. RowInv' BY <1>1, <1>2, <1>7, <1>8, <2>3 DEF RowsInv, RowInv
  <2> QED BY <2>1, <2>2, <2>4
<1>11. OneActiveRun'
  BY <1>2 DEF OneActiveRun
<1>12. ActiveRunAnswersLast'
  <2>1. \A m \in Visible' : msgs'[m].position <= msgs'[q].position
    BY <1>1, <1>8, <1>9 DEF RowsInv, RowInv, Visible
  <2>2. q \in Visible'
    BY <1>1, <1>9
  <2> QED BY <1>2, <1>8, <2>1, <2>2 DEF ActiveRunAnswersLast
<1>13. AnswersInPlace'
  <2> SUFFICES ASSUME NEW m \in Visible', msgs'[m].role = "assistant"
               PROVE  LET asked == runs'[msgs'[m].run].msg
                      IN /\ asked \in Visible' /\ msgs'[asked].role = "user"
                         /\ msgs'[asked].run = msgs'[m].run
                         /\ msgs'[asked].position < msgs'[m].position
                         /\ ~ \E k \in Visible' : /\ msgs'[asked].position < msgs'[k].position
                                                 /\ msgs'[k].position < msgs'[m].position
    BY DEF AnswersInPlace
  <2> DEFINE a == runs[msgs[m].run].msg
  <2>1. m \in Visible /\ m <= q /\ msgs[m].role = "assistant" /\ m \in DOMAIN msgs /\ m # q
    BY <1>7, <1>8, <1>9 DEF Visible
  <2>2. /\ a \in Visible /\ msgs[a].role = "user" /\ msgs[a].run = msgs[m].run /\ a < m
        /\ \A k \in Visible : ~(a < k /\ k < m)
        /\ a \in DOMAIN msgs
    BY <2>1, AnswerFacts
  <2>3. runs'[msgs'[m].run].msg = a
    BY <1>2, <1>8, <2>1 DEF RowsInv, RefInv
  <2>4. a # q /\ a \in Visible'
    BY <1>1, <1>9, <2>1, <2>2
  <2>5. /\ msgs'[a].role = "user" /\ msgs'[a].run = msgs'[m].run
        /\ msgs'[a].position = a /\ msgs'[m].position = m
    BY <1>8, <2>1, <2>2, <2>4 DEF RowsInv, RowInv
  <2>6. \A k \in Visible' : msgs'[k].position = k /\ ~(a < k /\ k < m)
    BY <1>8, <1>9, <2>2 DEF RowsInv, RowInv, Visible
  <2> HIDE DEF a
  <2> QED BY <2>2, <2>3, <2>4, <2>5, <2>6
<1> QED BY <1>2, <1>7, <1>10, <1>11, <1>12, <1>13 DEF RowsInv

(* What materialize_assistant_message does to the messages.                 *)
Answer(r) == msgs' = Append(msgs, AssistantMessage(Len(msgs) + 1, r))

(* The answer of the active run comes last, behind its question, and no run *)
(* is active any more.                                                      *)
LEMMA RunAnswers ==
  ASSUME RowsInv, NEW r \in ActiveRuns, SetRun(r, "succeeded"), Answer(r)
  PROVE  /\ RowsInv' /\ Len(msgs') = Len(msgs) + 1 /\ Len(runs') = Len(runs)
         /\ ActiveRuns' = {}
<1> DEFINE n == Len(msgs) + 1
<1> DEFINE q == runs[r].msg
<1>1. /\ Len(msgs) \in Nat /\ DOMAIN msgs = 1..Len(msgs) /\ n \in Nat
      /\ \A m \in DOMAIN msgs : msgs[m] \in MsgRow
  BY RowFacts
<1>2. /\ r \in DOMAIN runs /\ r \in Nat /\ runs' \in Seq(RunRow)
      /\ Len(runs') = Len(runs) /\ DOMAIN runs' = DOMAIN runs
      /\ \A s \in DOMAIN runs : runs'[s].msg = runs[s].msg
      /\ \A s \in DOMAIN runs : s # r => runs'[s] = runs[s]
      /\ runs'[r].status = "succeeded"
  BY SetRunFacts, RowFacts DEF TerminalStatuses
<1>3. AssistantMessage(n, r) \in MsgRow
  BY <1>1, <1>2 DEF AssistantMessage, MsgRow
<1>4. /\ msgs' \in Seq(MsgRow) /\ Len(msgs') = n
      /\ \A m \in 1..Len(msgs) : msgs'[m] = msgs[m]
      /\ msgs'[n] = AssistantMessage(n, r)
  BY <1>1, <1>3, AppendProperties DEF Answer, RowsInv, SeqInv
<1>5. DOMAIN msgs' = DOMAIN msgs \cup {n} /\ n \notin DOMAIN msgs
  BY <1>1, <1>4
<1>6. /\ \A m \in DOMAIN msgs : msgs'[m] = msgs[m]
      /\ msgs'[n].role = "assistant" /\ msgs'[n].position = n /\ msgs'[n].run = r
      /\ ~msgs'[n].archived
  BY <1>1, <1>4 DEF AssistantMessage
<1>7. Visible' = Visible \cup {n}
  BY <1>5, <1>6 DEF Visible
<1>8. \A k \in Visible : k \in DOMAIN msgs /\ msgs[k].position = k /\ k < n
  BY <1>1 DEF RowsInv, RowInv, Visible
<1>9. /\ q \in Visible /\ msgs[q].run = r /\ msgs[q].role = "user"
      /\ \A k \in Visible : k <= q
  <2>1. /\ q \in Visible /\ msgs[q].run = r
        /\ \A k \in Visible : msgs[k].position <= msgs[q].position
    BY DEF RowsInv, ActiveRunAnswersLast
  <2> QED BY <1>2, <1>8, <2>1 DEF RowsInv, RowInv
<1> HIDE DEF n, q
<1>10. ActiveRuns' = {}
  <2>1. \A s \in ActiveRuns : s = r
    BY DEF RowsInv, OneActiveRun
  <2>2. "succeeded" \notin ActiveStatuses
    BY DEF ActiveStatuses
  <2> QED BY <1>2, <2>1, <2>2 DEF ActiveRuns
<1>11. SeqInv' /\ RowInv' /\ RefInv'
  <2>1. SeqInv' BY <1>2, <1>4 DEF SeqInv
  <2>2. RefInv' BY <1>2, <1>5, <1>6 DEF RowsInv, RefInv
  <2>3. \A s \in DOMAIN runs : msgs'[runs[s].msg].role = "user"
    BY <1>6 DEF RowsInv, RowInv, RefInv
  <2>4. RowInv' BY <1>2, <1>5, <1>6, <2>3 DEF RowsInv, RowInv
  <2> QED BY <2>1, <2>2, <2>4
<1>12. OneActiveRun' /\ ActiveRunAnswersLast'
  BY <1>10 DEF OneActiveRun, ActiveRunAnswersLast
<1>13. AnswersInPlace'
  <2> SUFFICES ASSUME NEW m \in Visible', msgs'[m].role = "assistant"
               PROVE  LET asked == runs'[msgs'[m].run].msg
                      IN /\ asked \in Visible' /\ msgs'[asked].role = "user"
                         /\ msgs'[asked].run = msgs'[m].run
                         /\ msgs'[asked].position < msgs'[m].position
                         /\ ~ \E k \in Visible' : /\ msgs'[asked].position < msgs'[k].position
                                                 /\ msgs'[k].position < msgs'[m].position
    BY DEF AnswersInPlace
  <2>1. \A k \in Visible' : msgs'[k].position = k
    BY <1>6, <1>7, <1>8
  <2>2. CASE m = n
    <3>1. runs'[msgs'[m].run].msg = q
      BY <1>2, <1>6, <2>2 DEF q
    <3>2. q \in Visible' /\ msgs'[q].role = "user" /\ msgs'[q].run = msgs'[m].run /\ q < m
      BY <1>6, <1>7, <1>8, <1>9, <2>2
    <3>3. \A k \in Visible' : ~(q < k /\ k < m)
      <4>1. ~(n < n) BY <1>1
      <4>2. \A k \in Visible : ~(q < k)
        BY <1>1, <1>8, <1>9
      <4> QED BY <1>7, <2>2, <4>1, <4>2
    <3> QED BY <2>1, <3>1, <3>2, <3>3
  <2>3. CASE m # n
    <3> DEFINE a == runs[msgs[m].run].msg
    <3>1. m \in Visible /\ m \in DOMAIN msgs /\ msgs'[m] = msgs[m] /\ m < n
      BY <1>6, <1>7, <1>8, <2>3
    <3>2. /\ a \in Visible /\ a \in DOMAIN msgs /\ msgs[a].role = "user"
          /\ msgs[a].run = msgs[m].run /\ a < m
          /\ \A k \in Visible : ~(a < k /\ k < m)
      BY <3>1, AnswerFacts
    <3>3. runs'[msgs'[m].run].msg = a
      BY <1>2, <3>1 DEF RowsInv, RefInv
    <3>4. a \in Visible' /\ msgs'[a] = msgs[a]
      BY <1>6, <1>7, <3>2
    <3>5. \A k \in Visible' : ~(a < k /\ k < m)
      <4>1. ~(n < m) BY <1>1, <3>1
      <4> QED BY <1>7, <3>2, <4>1
    <3> HIDE DEF a
    <3> QED BY <2>1, <3>1, <3>2, <3>3, <3>4, <3>5
  <2> QED BY <2>2, <2>3
<1> QED BY <1>2, <1>4, <1>10, <1>11, <1>12, <1>13 DEF RowsInv, n

-----------------------------------------------------------------------------
(* Steps.                                                                   *)

(* A tab without a request.                                                 *)
LEMMA IdleRow == Idle \in ReqRow
<1>1. 0 \in 0..MaxMsgs BY ConversationAssumption
<1> QED BY <1>1 DEF Idle, ReqRow

(* The empty conversation.                                                  *)
LEMMA InitConv == Init => ConvInv
<1> SUFFICES ASSUME Init PROVE ConvInv
  OBVIOUS
<1>1. msgs = <<>> /\ runs = <<>>
  BY DEF Init
<1>2. Len(msgs) = 0 /\ Len(runs) = 0 /\ DOMAIN msgs = {} /\ DOMAIN runs = {}
  BY <1>1
<1>3. SeqInv BY <1>1, EmptySeq DEF SeqInv
<1>4. Visible = {} /\ ActiveRuns = {}
  BY <1>2 DEF Visible, ActiveRuns
<1>5. RowsInv
  BY <1>2, <1>3, <1>4 DEF RowsInv, RowInv, RefInv, OneActiveRun, AnswersInPlace,
                         ActiveRunAnswersLast
<1>6. CtlInv
  <2>1. req \in [Tabs -> ReqRow] BY IdleRow DEF Init
  <2>2. 0 <= MaxMsgs /\ 0 <= MaxRuns BY ConversationAssumption
  <2> QED BY <1>2, <2>1, <2>2 DEF Init, CtlInv
<1>7. LockInv /\ FinInv
  BY DEF Init, LockInv, FinInv, Idle
<1> QED BY <1>5, <1>6, <1>7 DEF ConvInv

(* Nobody is between its SELECT FOR UPDATE and its end while the            *)
(* conversation is free.                                                    *)
LEMMA FreeMeansIdle ==
  ASSUME ConvInv, lock = "nobody", NEW t \in Tabs
  PROVE  req[t].pc \notin {"locked", "ensured"}
BY ConversationAssumption DEF ConvInv, LockInv

(* A request takes the conversation.                                        *)
LEMMA LockStep ==
  ASSUME ConvInv, NEW t \in Tabs, NEW kind \in {"submit", "edit", "regenerate"},
         NEW m \in 0..MaxMsgs, Lock(t, kind, m),
         kind # "submit" => m \in Visible /\ msgs[m].role = "user"
  PROVE  ConvInv'
<1>1. RowsInv' /\ ActiveRuns' = ActiveRuns /\ Visible' = Visible
  BY RowsFrame DEF ConvInv, Lock
<1>2. CtlInv'
  BY DEF ConvInv, CtlInv, Lock, rows, ReqRow
<1>3. FinInv'
  BY DEF ConvInv, FinInv, Lock, rows
<1>4. LockInv'
  <2> SUFFICES ASSUME NEW u \in Tabs
               PROVE  /\ req'[u].pc \in {"locked", "ensured"} => lock' = u
                      /\ req'[u].pc = "ensured" => ActiveRuns' = {}
                      /\ req'[u].pc \in {"locked", "ensured"}
                           /\ req'[u].kind \in {"edit", "regenerate"}
                           => req'[u].target \in Visible' /\ msgs'[req'[u].target].role = "user"
    BY DEF LockInv
  <2>1. /\ lock = "nobody" /\ lock' = t /\ msgs' = msgs
        /\ req' = [req EXCEPT ![t] = [pc |-> "locked", kind |-> kind, target |-> m]]
    BY DEF Lock, rows
  <2>2. CASE u = t
    <3>1. req'[u] = [pc |-> "locked", kind |-> kind, target |-> m]
      BY <2>1, <2>2 DEF ConvInv, CtlInv
    <3> QED BY <1>1, <2>1, <2>2, <3>1
  <2>3. CASE u # t
    <3>1. req'[u] = req[u]
      BY <2>1, <2>3 DEF ConvInv, CtlInv
    <3> QED BY <2>1, <3>1, FreeMeansIdle
  <2> QED BY <2>2, <2>3
<1> QED BY <1>1, <1>2, <1>3, <1>4 DEF ConvInv

(* A request ends without having changed a row.                             *)
LEMMA ReleaseStep ==
  ASSUME ConvInv, NEW t \in Tabs, req[t].pc \in {"locked", "ensured"}, Release(t),
         UNCHANGED <<rows, deleted, gone, fin, finPos>>
  PROVE  ConvInv'
<1>1. RowsInv' /\ ActiveRuns' = ActiveRuns /\ Visible' = Visible
  BY RowsFrame DEF ConvInv
<1>2. CtlInv'
  BY IdleRow DEF ConvInv, CtlInv, Release, rows
<1>3. FinInv'
  BY DEF ConvInv, FinInv, rows
<1>4. LockInv'
  BY DEF ConvInv, CtlInv, LockInv, Release, Idle, rows
<1> QED BY <1>1, <1>2, <1>3, <1>4 DEF ConvInv

(* A request ends with new rows: no other request is under way, and no      *)
(* final transaction is open, because no run is active.                     *)
LEMMA CommitStep ==
  ASSUME ConvInv, NEW t \in Tabs, req[t].pc = "ensured", Release(t), RowsInv',
         Len(msgs') <= MaxMsgs, Len(runs') <= MaxRuns,
         UNCHANGED <<deleted, gone, fin, finPos>>
  PROVE  ConvInv'
<1>1. ActiveRuns = {} /\ lock = t
  BY DEF ConvInv, LockInv
<1>2. fin = 0
  BY <1>1 DEF ConvInv, FinInv, ActiveRuns, ActiveStatuses
<1>3. CtlInv'
  BY IdleRow DEF ConvInv, CtlInv, Release
<1>4. FinInv'
  BY <1>2 DEF FinInv
<1>5. LockInv'
  <2>1. ASSUME NEW u \in Tabs PROVE req'[u].pc \notin {"locked", "ensured"}
    <3>1. CASE u = t BY <3>1 DEF ConvInv, CtlInv, Release, Idle
    <3>2. CASE u # t
      <4>1. req'[u] = req[u] BY <3>2 DEF ConvInv, CtlInv, Release
      <4> QED BY <1>1, <3>2, <4>1 DEF ConvInv, LockInv
    <3> QED BY <3>1, <3>2
  <2> QED BY <2>1 DEF LockInv
<1> QED BY <1>3, <1>4, <1>5 DEF ConvInv

(* A step of the conversation itself or of a final transaction: no row and  *)
(* no request that holds the conversation changes.                          *)
LEMMA OuterStep ==
  ASSUME ConvInv, UNCHANGED rows, UNCHANGED lock, CtlInv', FinInv',
         \A t \in Tabs : req'[t] = req[t] \/ req'[t].pc \in {"idle", "deleting"}
  PROVE  ConvInv'
<1>1. RowsInv' /\ ActiveRuns' = ActiveRuns /\ Visible' = Visible
  BY RowsFrame DEF ConvInv
<1>2. LockInv'
  <2> SUFFICES ASSUME NEW u \in Tabs
               PROVE  /\ req'[u].pc \in {"locked", "ensured"} => lock' = u
                      /\ req'[u].pc = "ensured" => ActiveRuns' = {}
                      /\ req'[u].pc \in {"locked", "ensured"}
                           /\ req'[u].kind \in {"edit", "regenerate"}
                           => req'[u].target \in Visible' /\ msgs'[req'[u].target].role = "user"
    BY DEF LockInv
  <2>1. CASE req'[u] = req[u]
    BY <1>1, <2>1 DEF ConvInv, LockInv, rows
  <2>2. CASE req'[u].pc \in {"idle", "deleting"}
    BY <2>2
  <2> QED BY <2>1, <2>2
<1> QED BY <1>1, <1>2 DEF ConvInv

(* A run changes its status outside a final transaction of its own.         *)
LEMMA RunMoves ==
  ASSUME ConvInv, NEW r \in ActiveRuns, NEW to \in ActiveStatuses \cup TerminalStatuses,
         SetRun(r, to), fin # r, UNCHANGED <<msgs, deleted, gone, lock, req, fin, finPos>>
  PROVE  ConvInv'
<1>1. RowsInv' /\ ActiveRuns' \subseteq ActiveRuns /\ Visible' = Visible
  BY StatusStep DEF ConvInv
<1>2. /\ r \in DOMAIN runs /\ Len(runs') = Len(runs) /\ DOMAIN runs' = DOMAIN runs
      /\ \A s \in DOMAIN runs : s # r => runs'[s] = runs[s]
  BY SetRunFacts DEF ConvInv
<1>3. CtlInv'
  BY <1>2 DEF ConvInv, CtlInv
<1>4. FinInv'
  <2>1. fin # 0 => runs'[fin] = runs[fin]
    BY <1>2 DEF ConvInv, FinInv
  <2> QED BY <1>2, <2>1 DEF ConvInv, FinInv
<1>5. LockInv'
  <2>1. ActiveRuns = {} => ActiveRuns' = {}
    BY <1>1
  <2> QED BY <1>1, <2>1 DEF ConvInv, LockInv
<1> QED BY <1>1, <1>3, <1>4, <1>5 DEF ConvInv

(* Every step keeps the invariant.                                          *)
LEMMA NextConv == ConvInv /\ [Next]_vars => ConvInv'
<1> SUFFICES ASSUME ConvInv, [Next]_vars PROVE ConvInv'
  OBVIOUS
<1>0. /\ RowsInv /\ CtlInv
      /\ Len(msgs) \in Nat /\ DOMAIN msgs = 1..Len(msgs) /\ Len(msgs) <= MaxMsgs
      /\ Len(runs) \in Nat /\ DOMAIN runs = 1..Len(runs) /\ Len(runs) <= MaxRuns
      /\ MaxMsgs \in Nat /\ MaxRuns \in Nat
      /\ Visible \subseteq DOMAIN msgs
  BY RowFacts, ConversationAssumption DEF ConvInv, CtlInv, Visible
<1>00. /\ \A m \in Visible : m \in 0..MaxMsgs /\ m \in Nat /\ msgs[m].position = m
       /\ 0 \in 0..MaxMsgs
  BY <1>0 DEF RowsInv, RowInv
<1>1. ASSUME NEW t \in Tabs, BeginSubmit(t) PROVE ConvInv'
  BY <1>00, <1>1, LockStep DEF BeginSubmit
<1>2. ASSUME NEW t \in Tabs, NEW m \in DOMAIN msgs, BeginEdit(t, m) PROVE ConvInv'
  BY <1>00, <1>2, LockStep DEF BeginEdit
<1>3. ASSUME NEW t \in Tabs, NEW m \in DOMAIN msgs, BeginRegenerate(t, m) PROVE ConvInv'
  <2> DEFINE anchor == IF msgs[m].role = "user" THEN m ELSE runs[msgs[m].run].msg
  <2>1. anchor \in Visible /\ Lock(t, "regenerate", anchor)
    BY <1>3 DEF BeginRegenerate
  <2>2. msgs[anchor].role = "user"
    BY <1>0 DEF RowsInv, RowInv, RefInv
  <2> HIDE DEF anchor
  <2> QED BY <1>00, <2>1, <2>2, LockStep
<1>4. ASSUME NEW t \in Tabs, EnsureNoActiveRun(t) PROVE ConvInv'
  <2>1. CASE ActiveRuns = {}
    <3>1. /\ req[t].pc = "locked" /\ req' = [req EXCEPT ![t].pc = "ensured"]
          /\ UNCHANGED <<lock, rows, deleted, gone, fin, finPos>>
      BY <1>4, <2>1 DEF EnsureNoActiveRun
    <3>2. RowsInv' /\ ActiveRuns' = ActiveRuns /\ Visible' = Visible
      BY <1>0, <3>1, RowsFrame
    <3>3. CtlInv' /\ FinInv'
      BY <1>0, <3>1 DEF ConvInv, CtlInv, FinInv, rows, ReqRow
    <3>4. \A u \in Tabs : /\ req'[u].kind = req[u].kind /\ req'[u].target = req[u].target
                          /\ u # t => req'[u].pc = req[u].pc
      BY <1>0, <3>1 DEF CtlInv, ReqRow
    <3>5. LockInv'
      BY <2>1, <3>1, <3>2, <3>4 DEF ConvInv, LockInv, rows
    <3> QED BY <3>2, <3>3, <3>5 DEF ConvInv
  <2>2. CASE ActiveRuns # {}
    BY <1>4, <2>2, ReleaseStep DEF EnsureNoActiveRun
  <2> QED BY <2>1, <2>2
<1>5. ASSUME NEW t \in Tabs, CommitSubmit(t) PROVE ConvInv'
  <2>1. ActiveRuns = {} /\ req[t].pc = "ensured"
    BY <1>5 DEF CommitSubmit, ConvInv, LockInv
  <2>2. ArchiveFrom(Len(msgs) + 1) = msgs
    BY <1>0 DEF ArchiveFrom, RowsInv, RowInv, SeqInv
  <2>3. RowsInv' /\ Len(msgs') = Len(msgs) + 1 /\ Len(runs') = Len(runs) + 1
    BY <1>0, <1>5, <2>1, <2>2, NewTurn DEF CommitSubmit
  <2> QED BY <1>0, <1>5, <2>1, <2>3, CommitStep DEF CommitSubmit
<1>6. ASSUME NEW t \in Tabs, CommitEdit(t) PROVE ConvInv'
  <2>1. ActiveRuns = {} /\ req[t].pc = "ensured" /\ req[t].target \in Visible
    BY <1>6 DEF CommitEdit, ConvInv, LockInv
  <2>2. RowsInv' /\ Len(msgs') = Len(msgs) + 1 /\ Len(runs') = Len(runs) + 1
    BY <1>0, <1>00, <1>6, <2>1, NewTurn DEF CommitEdit
  <2> QED BY <1>0, <1>6, <2>1, <2>2, CommitStep DEF CommitEdit
<1>7. ASSUME NEW t \in Tabs, CommitRegenerate(t) PROVE ConvInv'
  <2>1. /\ ActiveRuns = {} /\ req[t].pc = "ensured" /\ req[t].target \in Visible
        /\ msgs[req[t].target].role = "user"
    BY <1>7 DEF CommitRegenerate, ConvInv, LockInv
  <2>2. Reask(req[t].target) /\ Queue(req[t].target)
    BY <1>7 DEF CommitRegenerate, Reask
  <2>3. RowsInv' /\ Len(msgs') = Len(msgs) /\ Len(runs') = Len(runs) + 1
    BY <1>0, <2>1, <2>2, AskedAgain
  <2> QED BY <1>0, <1>7, <2>1, <2>3, CommitStep DEF CommitRegenerate
<1>8. ASSUME NEW t \in Tabs, Abort(t) PROVE ConvInv'
  BY <1>8, ReleaseStep DEF Abort
<1>9. ASSUME NEW t \in Tabs, BeginDelete(t) PROVE ConvInv'
  <2>1. CtlInv'
    BY <1>0, <1>00, <1>9 DEF BeginDelete, CtlInv, ReqRow, rows
  <2>2. FinInv'
    BY <1>9 DEF BeginDelete, ConvInv, FinInv, rows
  <2>3. \A u \in Tabs : req'[u] = req[u] \/ req'[u].pc \in {"idle", "deleting"}
    BY <1>0, <1>9 DEF BeginDelete, CtlInv
  <2> QED BY <1>9, <2>1, <2>2, <2>3, OuterStep DEF BeginDelete
<1>10. ASSUME NEW t \in Tabs, CommitDelete(t) \/ DeleteFails(t) PROVE ConvInv'
  <2>1. CtlInv'
    BY <1>0, <1>10, IdleRow DEF CommitDelete, DeleteFails, CtlInv, rows
  <2>2. FinInv'
    BY <1>10 DEF CommitDelete, DeleteFails, ConvInv, FinInv, rows
  <2>3. \A u \in Tabs : req'[u] = req[u] \/ req'[u].pc \in {"idle", "deleting"}
    BY <1>0, <1>10 DEF CommitDelete, DeleteFails, CtlInv, Idle
  <2> QED BY <1>10, <2>1, <2>2, <2>3, OuterStep DEF CommitDelete, DeleteFails
<1>11. ASSUME NEW r \in DOMAIN runs, CancelRun(r) PROVE ConvInv'
  BY <1>11, RunMoves DEF CancelRun, ActiveStatuses, TerminalStatuses
<1>12. ASSUME NEW r \in DOMAIN runs, ClaimRun(r) PROVE ConvInv'
  <2>1. fin # r /\ r \in ActiveRuns
    BY <1>12 DEF ClaimRun, ConvInv, FinInv, ActiveRuns, ActiveStatuses
  <2> QED BY <1>12, <2>1, RunMoves DEF ClaimRun, ActiveStatuses
<1>13. ASSUME NEW r \in DOMAIN runs, NEW to \in {"failed", "cancelled"}, EndRun(r, to)
       PROVE  ConvInv'
  <2>1. r \in ActiveRuns
    <3>1. runs[r] \in RunRow BY <1>0, RowFacts
    <3>2. runs[r].status \in ActiveStatuses
      BY <1>13, <3>1 DEF EndRun, RunRow, ActiveStatuses, TerminalStatuses, FailedFrom
    <3> QED BY <3>2 DEF ActiveRuns
  <2> QED BY <1>13, <2>1, RunMoves DEF EndRun, TerminalStatuses
<1>14. ASSUME NEW r \in DOMAIN runs, Finalize(r) PROVE ConvInv'
  <2>1. runs[r].status = "started"
    <3>1. runs[r] \in RunRow BY <1>0, RowFacts
    <3> QED BY <1>14, <3>1 DEF Finalize, RunRow, SucceededFrom, ActiveStatuses, TerminalStatuses
  <2>2. CtlInv'
    BY <1>0, <1>14 DEF Finalize, CtlInv, rows
  <2>3. FinInv'
    BY <1>0, <1>14, <2>1, NextPositionIsNext DEF Finalize, FinInv, rows, RowsInv
  <2> QED BY <1>14, <2>2, <2>3, OuterStep DEF Finalize
<1>15. CASE CommitFinalize
  <2>1. /\ fin # 0 /\ lock = "nobody" /\ Len(msgs) < MaxMsgs /\ fin \in ActiveRuns
        /\ finPos = Len(msgs) + 1
    BY <1>15 DEF CommitFinalize, ConvInv, FinInv, ActiveRuns, ActiveStatuses
  <2>2. SetRun(fin, "succeeded") /\ Answer(fin)
    BY <1>15, <2>1 DEF CommitFinalize, Answer
  <2>3. /\ RowsInv' /\ Len(msgs') = Len(msgs) + 1 /\ Len(runs') = Len(runs)
        /\ ActiveRuns' = {}
    BY <1>0, <2>1, <2>2, RunAnswers
  <2>4. CtlInv' /\ FinInv'
    BY <1>0, <1>15, <2>1, <2>3 DEF CommitFinalize, CtlInv, FinInv
  <2>5. LockInv'
    BY <1>15, <2>1, FreeMeansIdle DEF CommitFinalize, LockInv
  <2> QED BY <2>3, <2>4, <2>5 DEF ConvInv
<1>16. CASE AbortFinalize \/ Restore \/ RetentionEnds \/ Purge
  <2>1. CtlInv'
    <3>1. CASE AbortFinalize BY <1>0, <3>1 DEF AbortFinalize, CtlInv, rows
    <3>2. CASE Restore BY <1>0, <3>2 DEF Restore, CtlInv, rows
    <3>3. CASE RetentionEnds BY <1>0, <3>3 DEF RetentionEnds, CtlInv, rows
    <3>4. CASE Purge
      <4>1. /\ UNCHANGED <<msgs, runs, deleted, lock, req>> /\ gone' \in BOOLEAN
            /\ fin' = 0 /\ finPos' = 0
        BY <3>4 DEF Purge, rows
      <4> QED BY <1>0, <4>1 DEF CtlInv
    <3> QED BY <1>16, <3>1, <3>2, <3>3, <3>4
  <2>2. FinInv'
    BY <1>16 DEF AbortFinalize, Restore, RetentionEnds, Purge, ConvInv, FinInv, rows
  <2>3. UNCHANGED <<rows, lock, req>>
    BY <1>16 DEF AbortFinalize, Restore, RetentionEnds, Purge
  <2> QED BY <2>1, <2>2, <2>3, OuterStep
<1>17. CASE UNCHANGED vars
  <2>1. CtlInv' /\ FinInv'
    BY <1>17 DEF vars, ConvInv, CtlInv, FinInv
  <2> QED BY <1>17, <2>1, OuterStep DEF vars, rows
<1> QED
  BY <1>1, <1>2, <1>3, <1>4, <1>5, <1>6, <1>7, <1>8, <1>9, <1>10, <1>11, <1>12, <1>13,
     <1>14, <1>15, <1>16, <1>17 DEF Next, Request, RunStep

(* The invariant, along every behaviour.                                    *)
THEOREM ConvInvariant == Safety => []ConvInv
BY InitConv, NextConv, PTL DEF Safety

(* Submit, edit, regenerate and the workers never leave two runs active.    *)
THEOREM SingleActiveRun == Safety => []OneActiveRun
<1>1. ConvInv => OneActiveRun
  BY DEF ConvInv, RowsInv
<1> QED BY <1>1, ConvInvariant, PTL

(* No two messages have the same position.                                  *)
THEOREM NoSharedPosition == Safety => []PositionsUnique
<1>1. ConvInv => PositionsUnique
  BY DEF ConvInv, RowsInv, RowInv, PositionsUnique
<1> QED BY <1>1, ConvInvariant, PTL

(* Every answer a reader sees comes directly after its question.            *)
THEOREM AnswersBehindQuestions == Safety => []AnswersInPlace
<1>1. ConvInv => AnswersInPlace
  BY DEF ConvInv, RowsInv
<1> QED BY <1>1, ConvInvariant, PTL

(* While a run is active its question is the last message readers see.      *)
THEOREM ActiveRunIsLast == Safety => []ActiveRunAnswersLast
<1>1. ConvInv => ActiveRunAnswersLast
  BY DEF ConvInv, RowsInv
<1> QED BY <1>1, ConvInvariant, PTL

-----------------------------------------------------------------------------
(* The trash.                                                               *)

(* Nobody holds a conversation that is deleted.                             *)
TrashInv == lock # "nobody" => deleted = "no" /\ ~gone

(* A deletion waits for the row, and a request looks at deleted_at when it  *)
(* gets the row.                                                            *)
LEMMA TrashStep == TrashInv /\ [Next]_vars => TrashInv'
<1> SUFFICES ASSUME TrashInv, [Next]_vars PROVE TrashInv'
  OBVIOUS
<1> USE DEF TrashInv
<1>1. ASSUME NEW t \in Tabs, Request(t) PROVE TrashInv'
  BY <1>1 DEF Request, BeginSubmit, BeginEdit, BeginRegenerate, Lock, EnsureNoActiveRun,
     CommitSubmit, CommitEdit, CommitRegenerate, Abort, BeginDelete, CommitDelete,
     DeleteFails, Release
<1>2. CASE RunStep
  BY <1>2 DEF RunStep, CancelRun, ClaimRun, EndRun, Finalize, CommitFinalize, AbortFinalize
<1>3. CASE Restore \/ RetentionEnds \/ Purge
  BY <1>3 DEF Restore, RetentionEnds, Purge
<1>4. CASE UNCHANGED vars
  BY <1>4 DEF vars
<1> QED BY <1>1, <1>2, <1>3, <1>4 DEF Next

(* A request that commits rows does so while the conversation is visible.   *)
LEMMA CommitsVisible ==
  ASSUME ConvInv, TrashInv, NEW t \in Tabs, req[t].pc = "ensured"
  PROVE  deleted = "no" /\ ~gone
BY ConversationAssumption DEF ConvInv, LockInv, TrashInv

(* However deletions and requests interleave, no message is accepted and no *)
(* run is started in a deleted conversation.                                *)
THEOREM TrashIsQuiet == Safety => NothingAskedInTrash
<1> DEFINE Quiet == deleted # "no" \/ gone =>
                      /\ DOMAIN runs' = DOMAIN runs
                      /\ \A m \in DOMAIN msgs' \ DOMAIN msgs : msgs'[m].role = "assistant"
<1>1. ConvInv /\ TrashInv /\ [Next]_vars => [Quiet]_vars
  <2> SUFFICES ASSUME ConvInv, TrashInv, Next, deleted # "no" \/ gone
               PROVE  /\ DOMAIN runs' = DOMAIN runs
                      /\ \A m \in DOMAIN msgs' \ DOMAIN msgs : msgs'[m].role = "assistant"
    OBVIOUS
  <2>1. CASE UNCHANGED rows
    BY <2>1 DEF rows
  <2>2. ASSUME NEW t \in Tabs, CommitSubmit(t) \/ CommitEdit(t) \/ CommitRegenerate(t)
        PROVE  FALSE
    BY <2>2, CommitsVisible DEF CommitSubmit, CommitEdit, CommitRegenerate
  <2>3. ASSUME NEW r \in DOMAIN runs, NEW to, SetRun(r, to), UNCHANGED msgs
        PROVE  DOMAIN runs' = DOMAIN runs /\ msgs' = msgs
    BY <2>3 DEF SetRun
  <2>4. CASE CommitFinalize
    <3>1. /\ fin \in DOMAIN runs /\ SetRun(fin, "succeeded") /\ Len(msgs) \in Nat
          /\ DOMAIN msgs = 1..Len(msgs) /\ msgs \in Seq(MsgRow)
          /\ msgs' = Append(msgs, AssistantMessage(finPos, fin))
      BY <2>4, RowFacts DEF CommitFinalize, ConvInv, FinInv, RowsInv, SeqInv
    <3>2. DOMAIN runs' = DOMAIN runs
      BY <3>1 DEF SetRun
    <3>3. DOMAIN msgs' = 1..(Len(msgs) + 1) /\ msgs'[Len(msgs) + 1] = AssistantMessage(finPos, fin)
      BY <3>1
    <3>4. \A m \in DOMAIN msgs' \ DOMAIN msgs : m = Len(msgs) + 1
      BY <3>1, <3>3
    <3> QED BY <3>2, <3>3, <3>4 DEF AssistantMessage
  <2>5. CASE \E t \in Tabs : Request(t)
    <3>1. PICK t \in Tabs : Request(t)
      BY <2>5
    <3> QED BY <2>1, <2>2, <3>1 DEF Request, BeginSubmit, BeginEdit, BeginRegenerate, Lock,
               EnsureNoActiveRun, Abort, BeginDelete, CommitDelete, DeleteFails
  <2>6. CASE RunStep
    BY <2>1, <2>3, <2>4, <2>6 DEF RunStep, CancelRun, ClaimRun, EndRun, Finalize, AbortFinalize
  <2>7. CASE Restore \/ RetentionEnds \/ Purge
    BY <2>1, <2>7 DEF Restore, RetentionEnds, Purge
  <2> QED BY <2>5, <2>6, <2>7 DEF Next
<1>2. Init => TrashInv
  BY DEF Init, TrashInv
<1> QED BY <1>1, <1>2, TrashStep, ConvInvariant, PTL DEF Safety, NothingAskedInTrash

-----------------------------------------------------------------------------
(* Types, and the past.                                                     *)

(* Types; positions start at 1 and rows refer to rows that exist.           *)
THEOREM ConvTypes == Safety => []TypeOK
<1>1. ASSUME ConvInv PROVE TypeOK
  <2>1. /\ RowsInv /\ CtlInv /\ FinInv /\ MaxMsgs \in Nat /\ MaxRuns \in Nat
        /\ Len(msgs) \in Nat /\ DOMAIN msgs = 1..Len(msgs) /\ Len(msgs) <= MaxMsgs
        /\ Len(runs) \in Nat /\ DOMAIN runs = 1..Len(runs) /\ Len(runs) <= MaxRuns
    BY <1>1, RowFacts, ConversationAssumption DEF ConvInv, CtlInv
  <2>2. ASSUME NEW m \in DOMAIN msgs
        PROVE  msgs[m] \in [role : {"user", "assistant"}, position : 1..MaxMsgs,
                            run : DOMAIN runs, archived : BOOLEAN]
    <3>1. msgs[m] \in MsgRow /\ msgs[m].run \in DOMAIN runs /\ msgs[m].position = m
      BY <2>1, RowFacts DEF RowsInv, RowInv, RefInv
    <3>2. m \in 1..MaxMsgs
      BY <2>1
    <3> QED BY <3>1, <3>2 DEF MsgRow
  <2>3. ASSUME NEW r \in DOMAIN runs
        PROVE  runs[r] \in [msg : DOMAIN msgs, status : ActiveStatuses \cup TerminalStatuses]
    <3>1. runs[r] \in RunRow /\ runs[r].msg \in DOMAIN msgs
      BY <2>1, RowFacts DEF RowsInv, RefInv
    <3> QED BY <3>1 DEF RunRow
  <2>4. fin \in 0..MaxRuns /\ finPos \in 0..(MaxMsgs + 1)
    BY <2>1 DEF CtlInv, FinInv
  <2> QED BY <2>1, <2>2, <2>3, <2>4 DEF TypeOK, CtlInv, ReqRow
<1> QED BY <1>1, ConvInvariant, PTL

(* Archiving leaves an archived message as it is.                           *)
LEMMA ArchivedStays ==
  ASSUME RowsInv, NEW p \in Nat, NEW m \in DOMAIN msgs, msgs[m].archived
  PROVE  ArchiveFrom(p)[m] = msgs[m]
<1>1. msgs[m] \in MsgRow
  BY RowFacts
<1>2. msgs[m].archived = TRUE
  BY <1>1 DEF MsgRow
<1>3. [msgs[m] EXCEPT !.archived = TRUE] = msgs[m]
  BY <1>1, <1>2 DEF MsgRow
<1> QED BY <1>3, Archived DEF RowsInv

(* No step rewrites a message, brings one back or gives an answer to        *)
(* another run.                                                             *)
THEOREM HistoryIsKept == Safety => HistoryKept
<1> DEFINE Kept == \A m \in DOMAIN msgs :
                     /\ m \in DOMAIN msgs'
                     /\ msgs'[m].role = msgs[m].role /\ msgs'[m].position = msgs[m].position
                     /\ msgs[m].archived => msgs'[m] = msgs[m]
                     /\ msgs[m].role = "assistant" => msgs'[m].run = msgs[m].run
<1>1. ConvInv /\ [Next]_vars => [Kept]_vars
  <2> SUFFICES ASSUME ConvInv, Next, NEW m \in DOMAIN msgs
               PROVE  /\ m \in DOMAIN msgs'
                      /\ msgs'[m].role = msgs[m].role /\ msgs'[m].position = msgs[m].position
                      /\ msgs[m].archived => msgs'[m] = msgs[m]
                      /\ msgs[m].role = "assistant" => msgs'[m].run = msgs[m].run
    OBVIOUS
  <2>0. /\ RowsInv /\ Len(msgs) \in Nat /\ DOMAIN msgs = 1..Len(msgs)
        /\ msgs \in Seq(MsgRow) /\ msgs[m] \in MsgRow
        /\ \A k \in Visible : k \in DOMAIN msgs /\ k \in Nat /\ msgs[k].position = k
    BY RowFacts DEF ConvInv, RowsInv, RowInv, SeqInv, Visible
  <2>1. CASE msgs' = msgs
    BY <2>1
  <2>2. ASSUME NEW s \in Seq(MsgRow), Len(s) = Len(msgs), NEW e, msgs' = Append(s, e)
        PROVE  m \in DOMAIN msgs' /\ msgs'[m] = s[m]
    BY <2>0, <2>2
  <2>3. ASSUME NEW p \in Nat
        PROVE  /\ ArchiveFrom(p) \in Seq(MsgRow) /\ Len(ArchiveFrom(p)) = Len(msgs)
               /\ ArchiveFrom(p)[m].role = msgs[m].role
               /\ ArchiveFrom(p)[m].position = msgs[m].position
               /\ ArchiveFrom(p)[m].run = msgs[m].run
               /\ msgs[m].archived => ArchiveFrom(p)[m] = msgs[m]
    BY <2>0, Archived, ArchivedStays DEF RowsInv
  <2>4. ASSUME NEW t \in Tabs, CommitSubmit(t) PROVE msgs'[m] = msgs[m] /\ m \in DOMAIN msgs'
    BY <2>0, <2>2, <2>4 DEF CommitSubmit
  <2>5. ASSUME NEW t \in Tabs, CommitEdit(t)
        PROVE  \E p \in Nat : msgs'[m] = ArchiveFrom(p)[m] /\ m \in DOMAIN msgs'
    <3>1. req[t].target \in Visible
      BY <2>5 DEF CommitEdit, ConvInv, LockInv
    <3>2. PICK p \in Nat : p = msgs[req[t].target].position
      BY <2>0, <3>1
    <3>3. msgs' = Append(ArchiveFrom(p), UserMessage(NextPosition, NewRun))
      BY <2>5, <3>2 DEF CommitEdit
    <3> QED BY <2>2, <2>3, <3>3
  <2>6. ASSUME NEW t \in Tabs, CommitRegenerate(t)
        PROVE  /\ m \in DOMAIN msgs'
               /\ msgs'[m].role = msgs[m].role /\ msgs'[m].position = msgs[m].position
               /\ msgs[m].archived => msgs'[m] = msgs[m]
               /\ msgs[m].role = "assistant" => msgs'[m].run = msgs[m].run
    <3>1. /\ req[t].target \in Visible /\ msgs[req[t].target].role = "user"
          /\ Reask(req[t].target)
      BY <2>6 DEF CommitRegenerate, ConvInv, LockInv, Reask
    <3>2. PICK q \in Visible : q = req[t].target
      BY <3>1
    <3>3. PICK p \in Nat : p = msgs[q].position + 1
      BY <2>0
    <3>4. msgs' = [ArchiveFrom(p) EXCEPT ![q].run = NewRun]
      BY <3>1, <3>2, <3>3 DEF Reask
    <3>5. DOMAIN ArchiveFrom(p) = DOMAIN msgs
      BY DEF ArchiveFrom
    <3>6. CASE m # q
      <4>1. msgs'[m] = ArchiveFrom(p)[m] /\ m \in DOMAIN msgs'
        BY <3>4, <3>5, <3>6
      <4> QED BY <2>3, <4>1
    <3>7. CASE m = q
      <4>1. msgs'[m] = [ArchiveFrom(p)[m] EXCEPT !.run = NewRun] /\ m \in DOMAIN msgs'
        BY <3>4, <3>5, <3>7
      <4>2. ArchiveFrom(p)[m] \in MsgRow
        <5>1. ArchiveFrom(p) \in [1..Len(msgs) -> MsgRow]
          BY <2>3, LenProperties
        <5> QED BY <2>0, <5>1
      <4>3. msgs'[m].role = msgs[m].role /\ msgs'[m].position = msgs[m].position
        BY <2>3, <4>1, <4>2 DEF MsgRow
      <4>4. ~msgs[m].archived /\ msgs[m].role # "assistant"
        BY <3>1, <3>2, <3>7 DEF Visible
      <4> QED BY <4>1, <4>3, <4>4
    <3> QED BY <3>6, <3>7
  <2>7. CASE CommitFinalize
    <3>1. msgs' = Append(msgs, AssistantMessage(finPos, fin))
      BY <2>7 DEF CommitFinalize
    <3>2. m \in DOMAIN msgs' /\ msgs'[m] = msgs[m]
      BY <2>0, <2>2, <3>1
    <3> QED BY <3>2
  <2>8. CASE \E t \in Tabs : Request(t)
    <3>1. PICK t \in Tabs : Request(t)
      BY <2>8
    <3>2. CASE CommitEdit(t)
      BY <2>3, <2>5, <3>2
    <3> QED BY <2>1, <2>4, <2>6, <3>1, <3>2 DEF Request, BeginSubmit, BeginEdit,
               BeginRegenerate, Lock, EnsureNoActiveRun, Abort, BeginDelete, CommitDelete,
               DeleteFails, rows
  <2>9. CASE RunStep
    BY <2>1, <2>7, <2>9 DEF RunStep, CancelRun, ClaimRun, EndRun, Finalize, AbortFinalize, rows
  <2>10. CASE Restore \/ RetentionEnds \/ Purge
    BY <2>1, <2>10 DEF Restore, RetentionEnds, Purge, rows
  <2> QED BY <2>8, <2>9, <2>10 DEF Next
<1> QED BY <1>1, ConvInvariant, PTL DEF Safety, HistoryKept

-----------------------------------------------------------------------------
(* The life of a run.                                                       *)

(* The answer to a run exists if, and only if, the run has succeeded.       *)
AnswerInv == \A r \in Nat : Answered(r) <=> StatusOf(r) = "succeeded"

(* What the abstract run sees of a step.                                    *)
LEMMA RunStutters ==
  ASSUME NEW r, StatusOf(r)' = StatusOf(r), Answered(r)' = Answered(r)
  PROVE  [Run(r)!Next]_(Run(r)!vars)
  BY DEF Run!vars, TerminalType

LEMMA RunGoesOn ==
  ASSUME NEW r, Answered(r)' = Answered(r),
         \/ StatusOf(r) = "none" /\ StatusOf(r)' = "queued"
         \/ StatusOf(r) = "queued" /\ StatusOf(r)' = "started"
         \/ StatusOf(r) = "started" /\ StatusOf(r)' = "cancelling"
  PROVE  [Run(r)!Next]_(Run(r)!vars)
  BY DEF Run!Next, Run!Submit, Run!Claim, Run!RequestCancel, Run!Move, TerminalType

LEMMA RunEnds ==
  ASSUME NEW r,
         \/ StatusOf(r) \in SucceededFrom /\ StatusOf(r)' = "succeeded" /\ Answered(r)'
         \/ StatusOf(r) \in FailedFrom /\ StatusOf(r)' = "failed" /\ ~Answered(r)'
         \/ StatusOf(r) \in CancelledFrom /\ StatusOf(r)' = "cancelled" /\ ~Answered(r)'
  PROVE  [Run(r)!Next]_(Run(r)!vars)
<1> USE DEF TerminalType, SucceededFrom, FailedFrom, CancelledFrom,
            Run!TerminalType, Run!SucceededFrom, Run!FailedFrom, Run!CancelledFrom
<1>0. Answered(r)' \in BOOLEAN
  BY DEF Answered
<1>1. CASE StatusOf(r) \in SucceededFrom /\ StatusOf(r)' = "succeeded" /\ Answered(r)'
  BY <1>0, <1>1 DEF Run!Next, Run!Succeed, Run!Finish
<1>2. CASE StatusOf(r) \in FailedFrom /\ StatusOf(r)' = "failed" /\ ~Answered(r)'
  BY <1>0, <1>2 DEF Run!Next, Run!Fail, Run!Finish
<1>3. CASE StatusOf(r) \in CancelledFrom /\ StatusOf(r)' = "cancelled" /\ ~Answered(r)'
  BY <1>0, <1>3 DEF Run!Next, Run!Cancel, Run!Finish
<1> QED
  BY <1>1, <1>2, <1>3

(* Rows that stay, rows that are archived, and a new question, leave the    *)
(* answers as they are.                                                     *)
SameAnswers == \A r \in Nat : Answered(r)' = Answered(r)

LEMMA AnswersStay ==
  ASSUME \A m \in DOMAIN msgs : /\ m \in DOMAIN msgs' /\ msgs'[m].role = msgs[m].role
                                /\ msgs[m].role = "assistant" => msgs'[m].run = msgs[m].run,
         \A m \in DOMAIN msgs' \ DOMAIN msgs : msgs'[m].role = "user"
  PROVE  SameAnswers
  BY DEF SameAnswers, Answered

(* Statuses, as the abstract runs see them.                                 *)
LEMMA StatusesStay == ASSUME runs' = runs, NEW r PROVE StatusOf(r)' = StatusOf(r)
  BY DEF StatusOf

LEMMA SetRunStatus ==
  ASSUME RowsInv, NEW x \in ActiveRuns, NEW to \in ActiveStatuses \cup TerminalStatuses, SetRun(x, to)
  PROVE  /\ StatusOf(x) = runs[x].status /\ StatusOf(x)' = to /\ x \in Nat
         /\ \A r \in Nat : r # x => StatusOf(r)' = StatusOf(r)
<1>1. /\ x \in DOMAIN runs /\ DOMAIN runs' = DOMAIN runs /\ runs'[x].status = to
      /\ \A s \in DOMAIN runs : s # x => runs'[s] = runs[s]
  BY SetRunFacts
<1>2. x \in Nat
  BY <1>1, RowFacts
<1> QED
  BY <1>1, <1>2 DEF StatusOf

LEMMA QueueStatus ==
  ASSUME RowsInv, ActiveRuns = {}, NEW q \in Nat, Queue(q), NEW x, x = NewRun
  PROVE  /\ StatusOf(x) = "none" /\ StatusOf(x)' = "queued"
         /\ \A r \in Nat : r # x => StatusOf(r)' = StatusOf(r)
<1>1. /\ DOMAIN runs' = DOMAIN runs \cup {x} /\ \A s \in DOMAIN runs : runs'[s] = runs[s]
      /\ x \in Nat \ DOMAIN runs
  BY QueueStep
<1>2. runs'[x].status = "queued"
  <2>1. runs \in Seq(RunRow) /\ [msg |-> q, status |-> "queued"] \in RunRow
    BY DEF RowsInv, SeqInv, RunRow, ActiveStatuses
  <2> QED
    BY <2>1 DEF Queue, NewRun
<1> QED
  BY <1>1, <1>2 DEF StatusOf

(* A run that moves on while the answers stay.                              *)
LEMMA MovesFollow ==
  ASSUME RowsInv, AnswerInv, NEW x \in ActiveRuns, NEW to \in ActiveStatuses \cup TerminalStatuses,
         SetRun(x, to), UNCHANGED msgs, to # "succeeded",
         \/ runs[x].status = "queued" /\ to = "started"
         \/ runs[x].status = "started" /\ to = "cancelling"
         \/ runs[x].status \in FailedFrom /\ to = "failed"
         \/ runs[x].status \in CancelledFrom /\ to = "cancelled"
  PROVE  AnswerInv' /\ \A r \in Nat : [Run(r)!Next]_(Run(r)!vars)
<1>1. /\ StatusOf(x) = runs[x].status /\ StatusOf(x)' = to /\ x \in Nat
      /\ \A r \in Nat : r # x => StatusOf(r)' = StatusOf(r)
  BY SetRunStatus
<1>2. SameAnswers
  BY DEF SameAnswers, Answered
<1>3. StatusOf(x) # "succeeded" /\ ~Answered(x)'
  <2>1. runs[x].status # "succeeded"
    BY DEF ActiveRuns, ActiveStatuses
  <2> QED
    BY <1>1, <1>2, <2>1 DEF SameAnswers, AnswerInv
<1>4. AnswerInv'
  BY <1>1, <1>2, <1>3 DEF AnswerInv, SameAnswers
<1>5. ASSUME NEW r \in Nat PROVE [Run(r)!Next]_(Run(r)!vars)
  <2>1. Answered(r)' = Answered(r) /\ Answered(r)' \in BOOLEAN
    BY <1>2 DEF SameAnswers, Answered
  <2>2. CASE r # x
    BY <1>1, <2>1, <2>2, RunStutters
  <2>3. CASE r = x
    BY <1>1, <1>3, <2>1, <2>3, RunGoesOn, RunEnds
  <2> QED
    BY <2>2, <2>3
<1> QED
  BY <1>4, <1>5

(* A new run is queued, for a new question or for one that was asked before.*)
LEMMA QueueFollows ==
  ASSUME RowsInv, AnswerInv, ActiveRuns = {}, NEW q \in Nat, Queue(q), SameAnswers
  PROVE  AnswerInv' /\ \A r \in Nat : [Run(r)!Next]_(Run(r)!vars)
<1>0. PICK x : x = NewRun
  OBVIOUS
<1>1. /\ StatusOf(x) = "none" /\ StatusOf(x)' = "queued"
      /\ \A r \in Nat : r # x => StatusOf(r)' = StatusOf(r)
  BY <1>0, QueueStatus
<1>2. AnswerInv'
  BY <1>1 DEF AnswerInv, SameAnswers
<1>3. ASSUME NEW r \in Nat PROVE [Run(r)!Next]_(Run(r)!vars)
  <2>1. Answered(r)' = Answered(r)
    BY DEF SameAnswers
  <2>2. CASE r # x
    BY <1>1, <2>1, <2>2, RunStutters
  <2>3. CASE r = x
    BY <1>1, <2>1, <2>3, RunGoesOn
  <2> QED
    BY <2>2, <2>3
<1> QED
  BY <1>2, <1>3

(* The answer and the end of its run are one transaction.                   *)
LEMMA AnswerFollows ==
  ASSUME RowsInv, AnswerInv, NEW x \in ActiveRuns, runs[x].status = "started", SetRun(x, "succeeded"), Answer(x)
  PROVE  AnswerInv' /\ \A r \in Nat : [Run(r)!Next]_(Run(r)!vars)
<1>1. /\ StatusOf(x) = "started" /\ StatusOf(x)' = "succeeded" /\ x \in Nat
      /\ \A r \in Nat : r # x => StatusOf(r)' = StatusOf(r)
  BY SetRunStatus DEF TerminalStatuses
<1> DEFINE a == AssistantMessage(Len(msgs) + 1, x)
<1>2. /\ DOMAIN msgs' = DOMAIN msgs \cup {Len(msgs) + 1} /\ \A m \in DOMAIN msgs : msgs'[m] = msgs[m]
      /\ msgs'[Len(msgs) + 1] = a /\ Len(msgs) + 1 \notin DOMAIN msgs
  <2>1. msgs \in Seq(MsgRow) /\ msgs' = Append(msgs, a)
    BY DEF RowsInv, SeqInv, Answer
  <2> HIDE DEF a
  <2> QED
    BY <2>1
<1>3. a.role = "assistant" /\ a.run = x
  BY DEF AssistantMessage
<1> HIDE DEF a
<1>4. Answered(x)' /\ \A r \in Nat : r # x => Answered(r)' = Answered(r)
  BY <1>2, <1>3 DEF Answered
<1>5. AnswerInv'
  BY <1>1, <1>4 DEF AnswerInv
<1>6. ASSUME NEW r \in Nat PROVE [Run(r)!Next]_(Run(r)!vars)
  <2>1. CASE r # x
    BY <1>1, <1>4, <2>1, RunStutters
  <2>2. CASE r = x
    <3>1. StatusOf(r) \in SucceededFrom /\ StatusOf(r)' = "succeeded" /\ Answered(r)'
      BY <1>1, <1>4, <2>2 DEF SucceededFrom
    <3> QED
      BY <3>1, RunEnds
  <2> QED
    BY <2>1, <2>2
<1> QED
  BY <1>5, <1>6

(* A question that is added behind s, which is what archiving has left.     *)
LEMMA NewQuestion ==
  ASSUME RowsInv, NEW p \in Nat, NEW k, NEW x, msgs' = Append(ArchiveFrom(p), UserMessage(k, x))
  PROVE  SameAnswers
<1>1. /\ Len(msgs) \in Nat /\ DOMAIN msgs = 1..Len(msgs)
      /\ ArchiveFrom(p) \in Seq(MsgRow) /\ Len(ArchiveFrom(p)) = Len(msgs)
      /\ \A m \in DOMAIN msgs : /\ ArchiveFrom(p)[m].role = msgs[m].role
                                /\ ArchiveFrom(p)[m].run = msgs[m].run
  BY RowFacts, Archived DEF RowsInv
<1>2. /\ DOMAIN msgs' = 1..(Len(msgs) + 1)
      /\ \A m \in 1..Len(msgs) : msgs'[m] = ArchiveFrom(p)[m]
      /\ msgs'[Len(msgs) + 1] = UserMessage(k, x)
  BY <1>1
<1>3. \A m \in DOMAIN msgs' \ DOMAIN msgs : m = Len(msgs) + 1
  BY <1>1, <1>2
<1> QED
  BY <1>1, <1>2, <1>3, AnswersStay DEF UserMessage

(* Every step of the conversation is a step, or none, of each of its runs.  *)
LEMMA StepsFollow ==
  ASSUME ConvInv, AnswerInv, [Next]_vars
  PROVE  AnswerInv' /\ \A r \in Nat : [Run(r)!Next]_(Run(r)!vars)
<1>0. /\ RowsInv /\ Len(msgs) \in Nat /\ DOMAIN msgs = 1..Len(msgs) /\ msgs \in Seq(MsgRow)
      /\ \A k \in Visible : k \in DOMAIN msgs /\ k \in Nat /\ msgs[k].position = k
  BY RowFacts DEF ConvInv, RowsInv, RowInv, SeqInv, Visible
<1>1. ASSUME UNCHANGED rows PROVE AnswerInv' /\ \A r \in Nat : [Run(r)!Next]_(Run(r)!vars)
  <2>1. msgs' = msgs /\ runs' = runs
    BY <1>1 DEF rows
  <2>2. SameAnswers /\ \A r \in Nat : StatusOf(r)' = StatusOf(r)
    BY <2>1 DEF SameAnswers, Answered, StatusOf
  <2> QED
    BY <2>2, RunStutters DEF AnswerInv, SameAnswers
<1>2. ASSUME NEW t \in Tabs, req[t].pc = "ensured" PROVE ActiveRuns = {}
  BY <1>2 DEF ConvInv, LockInv
<1>3. ASSUME NEW t \in Tabs, CommitSubmit(t) PROVE AnswerInv' /\ \A r \in Nat : [Run(r)!Next]_(Run(r)!vars)
  <2>1. ArchiveFrom(Len(msgs) + 1) = msgs
    BY <1>0 DEF ArchiveFrom, RowsInv, RowInv, SeqInv
  <2>2. msgs' = Append(msgs, UserMessage(NextPosition, NewRun))
    BY <1>3 DEF CommitSubmit
  <2>3. SameAnswers
    BY <1>0, <2>1, <2>2, NewQuestion
  <2>4. Queue(Len(msgs) + 1) /\ ActiveRuns = {} /\ Len(msgs) + 1 \in Nat
    BY <1>0, <1>2, <1>3 DEF CommitSubmit
  <2> QED
    BY <1>0, <2>3, <2>4, QueueFollows
<1>4. ASSUME NEW t \in Tabs, CommitEdit(t) PROVE AnswerInv' /\ \A r \in Nat : [Run(r)!Next]_(Run(r)!vars)
  <2>1. req[t].target \in Visible
    BY <1>4 DEF CommitEdit, ConvInv, LockInv
  <2>2. PICK p \in Nat : p = msgs[req[t].target].position
    BY <1>0, <2>1
  <2>3. msgs' = Append(ArchiveFrom(p), UserMessage(NextPosition, NewRun))
    BY <1>4, <2>2 DEF CommitEdit
  <2>4. SameAnswers
    BY <1>0, <2>3, NewQuestion
  <2>5. Queue(Len(msgs) + 1) /\ ActiveRuns = {} /\ Len(msgs) + 1 \in Nat
    BY <1>0, <1>2, <1>4 DEF CommitEdit
  <2> QED
    BY <1>0, <2>4, <2>5, QueueFollows
<1>5. ASSUME NEW t \in Tabs, CommitRegenerate(t) PROVE AnswerInv' /\ \A r \in Nat : [Run(r)!Next]_(Run(r)!vars)
  <2>1. /\ req[t].target \in Visible /\ msgs[req[t].target].role = "user"
        /\ Reask(req[t].target)
    BY <1>5 DEF CommitRegenerate, ConvInv, LockInv, Reask
  <2>2. PICK q \in Visible : q = req[t].target
    BY <2>1
  <2>3. PICK p \in Nat : p = msgs[q].position + 1
    BY <1>0
  <2>4. msgs' = [ArchiveFrom(p) EXCEPT ![q].run = NewRun]
    BY <2>1, <2>2, <2>3 DEF Reask
  <2>5. /\ ArchiveFrom(p) \in Seq(MsgRow) /\ DOMAIN ArchiveFrom(p) = DOMAIN msgs
        /\ \A m \in DOMAIN msgs : /\ ArchiveFrom(p)[m].role = msgs[m].role
                                  /\ ArchiveFrom(p)[m].run = msgs[m].run
    BY <1>0, Archived DEF RowsInv, ArchiveFrom
  <2>6. DOMAIN msgs' = DOMAIN msgs /\ \A m \in DOMAIN msgs : m # q => msgs'[m] = ArchiveFrom(p)[m]
    BY <2>4, <2>5
  <2>7. msgs'[q].role = "user" /\ msgs[q].role = "user"
    <3>1. msgs'[q] = [ArchiveFrom(p)[q] EXCEPT !.run = NewRun]
      BY <1>0, <2>2, <2>4, <2>5
    <3>2. ArchiveFrom(p)[q] \in MsgRow
      BY <1>0, <2>5
    <3>3. ArchiveFrom(p)[q].role = "user"
      BY <1>0, <2>1, <2>2, <2>5
    <3> QED
      BY <2>1, <2>2, <3>1, <3>2, <3>3 DEF MsgRow
  <2>8. SameAnswers
    BY <2>5, <2>6, <2>7, AnswersStay
  <2>9. Queue(req[t].target) /\ ActiveRuns = {} /\ req[t].target \in Nat
    BY <1>0, <1>2, <1>5, <2>1 DEF CommitRegenerate
  <2> QED
    BY <1>0, <2>8, <2>9, QueueFollows
<1>6. ASSUME NEW x \in DOMAIN runs, CancelRun(x) PROVE AnswerInv' /\ \A r \in Nat : [Run(r)!Next]_(Run(r)!vars)
  <2> DEFINE to == IF runs[x].status = "queued" THEN "cancelled" ELSE "cancelling"
  <2>1. /\ x \in ActiveRuns /\ SetRun(x, to) /\ UNCHANGED msgs /\ runs[x].status \in {"queued", "started"}
    BY <1>6 DEF CancelRun, ActiveRuns, ActiveStatuses
  <2>2. to \in ActiveStatuses \cup TerminalStatuses /\ to # "succeeded"
    BY DEF ActiveStatuses, TerminalStatuses
  <2>3. \/ runs[x].status = "started" /\ to = "cancelling"
        \/ runs[x].status \in CancelledFrom /\ to = "cancelled"
    BY <2>1 DEF CancelledFrom
  <2> HIDE DEF to
  <2> QED
    BY <1>0, <2>1, <2>2, <2>3, MovesFollow
<1>7. ASSUME NEW x \in DOMAIN runs, ClaimRun(x) PROVE AnswerInv' /\ \A r \in Nat : [Run(r)!Next]_(Run(r)!vars)
  <2>1. /\ x \in ActiveRuns /\ SetRun(x, "started") /\ UNCHANGED msgs /\ runs[x].status = "queued"
        /\ "started" \in ActiveStatuses \cup TerminalStatuses
    BY <1>7 DEF ClaimRun, ActiveRuns, ActiveStatuses
  <2> QED
    BY <1>0, <2>1, MovesFollow
<1>8. ASSUME NEW x \in DOMAIN runs, NEW to \in {"failed", "cancelled"}, EndRun(x, to)
      PROVE  AnswerInv' /\ \A r \in Nat : [Run(r)!Next]_(Run(r)!vars)
  <2>1. /\ runs[x] \in RunRow /\ SetRun(x, to) /\ UNCHANGED msgs
        /\ \/ to = "failed" /\ runs[x].status \in FailedFrom
           \/ to = "cancelled" /\ runs[x].status \in {"started", "cancelling"}
    BY <1>0, <1>8, RowFacts DEF EndRun
  <2>2. x \in ActiveRuns
    BY <2>1 DEF ActiveRuns, RunRow, ActiveStatuses, TerminalStatuses, FailedFrom
  <2>3. to \in ActiveStatuses \cup TerminalStatuses /\ to # "succeeded"
    BY DEF TerminalStatuses
  <2>4. \/ runs[x].status \in FailedFrom /\ to = "failed"
        \/ runs[x].status \in CancelledFrom /\ to = "cancelled"
    BY <2>1 DEF CancelledFrom
  <2> QED
    BY <1>0, <2>1, <2>2, <2>3, <2>4, MovesFollow
<1>9. CASE CommitFinalize
  <2>1. /\ fin \in ActiveRuns /\ runs[fin].status = "started" /\ finPos = Len(msgs) + 1
    BY <1>9 DEF CommitFinalize, ConvInv, FinInv, ActiveRuns, ActiveStatuses
  <2>2. SetRun(fin, "succeeded") /\ Answer(fin)
    BY <1>9, <2>1 DEF CommitFinalize, Answer
  <2> QED
    BY <1>0, <2>1, <2>2, AnswerFollows
<1>10. CASE \E t \in Tabs : Request(t)
  <2>1. PICK t \in Tabs : Request(t)
    BY <1>10
  <2>2. CASE CommitSubmit(t) \/ CommitEdit(t) \/ CommitRegenerate(t)
    BY <1>3, <1>4, <1>5, <2>2
  <2>3. CASE ~(CommitSubmit(t) \/ CommitEdit(t) \/ CommitRegenerate(t))
    <3>1. UNCHANGED rows
      BY <2>1, <2>3 DEF Request, BeginSubmit, BeginEdit, BeginRegenerate, Lock,
         EnsureNoActiveRun, Abort, BeginDelete, CommitDelete, DeleteFails
    <3> QED
      BY <1>1, <3>1
  <2> QED
    BY <2>2, <2>3
<1>11. CASE RunStep
  <2>1. ASSUME NEW x \in DOMAIN runs, Finalize(x) PROVE UNCHANGED rows
    BY <2>1 DEF Finalize
  <2>2. ASSUME AbortFinalize PROVE UNCHANGED rows
    BY <2>2 DEF AbortFinalize
  <2> QED
    BY <1>1, <1>6, <1>7, <1>8, <1>9, <1>11, <2>1, <2>2 DEF RunStep
<1>12. CASE Restore \/ RetentionEnds \/ Purge \/ UNCHANGED vars
  <2>1. UNCHANGED rows
    BY <1>12 DEF Restore, RetentionEnds, Purge, vars, rows
  <2> QED
    BY <1>1, <2>1
<1> QED
  BY <1>10, <1>11, <1>12 DEF Next

(* Each run of the conversation only ever takes steps of RunLifecycle, for  *)
(* any number of tabs, messages and runs: whatever is edited, regenerated,  *)
(* cancelled, deleted and purged around it, its status moves as             *)
(* lifecycle.py says, its answer appears with `succeeded' and once, and     *)
(* nothing moves a run that has ended.                                      *)
THEOREM RunsFollowTheLifecycle == Safety => RunsFollowLifecycle
<1>1. Init => AnswerInv
  BY DEF Init, AnswerInv, Answered, StatusOf
<1>2. ConvInv /\ AnswerInv /\ [Next]_vars => AnswerInv'
  BY StepsFollow
<1>3. ConvInv /\ AnswerInv /\ [Next]_vars => [\A r \in 1..MaxRuns : [Run(r)!Next]_(Run(r)!vars)]_vars
  <2>1. \A r \in 1..MaxRuns : r \in Nat
    OBVIOUS
  <2> QED
    BY <2>1, StepsFollow
<1> QED
  BY <1>1, <1>2, <1>3, ConvInvariant, PTL DEF Safety, RunsFollowLifecycle
=============================================================================
