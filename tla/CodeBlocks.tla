------------------------------ MODULE CodeBlocks ------------------------------
(***************************************************************************)
(* A code block of an answer (frontend/src/messages/markdown/CodeBlock.tsx *)
(* and codeHighlight.ts): its source grows while the answer streams, each  *)
(* source is highlighted by a promise that may answer late or fail, parsers*)
(* are loaded once, and its text is copied by another promise.             *)
(***************************************************************************)
EXTENDS Integers

CONSTANTS Langs,        \* languages of a fence
          Lezer,        \* those whose parser is loaded once
          Prism,        \* those whose grammar is imported for each source
          MaxLen, MaxCopies
ASSUME CodeAssumption == Lezer \subseteq Langs /\ Prism \subseteq Langs /\ "plain" \in Langs
                         /\ MaxLen \in Nat \ {0} /\ MaxCopies \in Nat

VARIABLE cb

SourceOf(s) == [lang |-> s.lang, ver |-> s.ver, len |-> s.len]
NoResult == [lang |-> "plain", ver |-> 0, len |-> 0, chunks |-> FALSE]

(* ver: another text takes the place of the source; jobs: sources that are  *)
(* being highlighted, the one shown and those whose effect was cleaned up;  *)
(* copying: attempts in flight; last: how the newest of them ended.         *)
CodeStart(on, lang) ==
  [on |-> on, lang |-> lang, ver |-> 0, len |-> 1, result |-> NoResult,
   jobs |-> {[lang |-> lang, ver |-> 0, len |-> 1]},
   parser |-> [l \in Lezer |-> IF l = lang THEN "loading" ELSE "none"], view |-> "code", search |-> FALSE,
   attempt |-> 0, copying |-> {}, last |-> "none", copyState |-> "idle", copiedTimer |-> FALSE]

-----------------------------------------------------------------------------
(* Highlighting                                                             *)

(* parserForLanguage: the promise is kept, a failed one too.                *)
ParserForLanguage(s, l) ==
  IF l \in Lezer /\ s.parser[l] = "none" THEN [s EXCEPT !.parser[l] = "loading"] ELSE s
(* The effect of a new source.                                              *)
SourceSet(s) == ParserForLanguage([s EXCEPT !.jobs = @ \cup {SourceOf(s)}], s.lang)

SourceGrows == /\ cb.on /\ cb.len < MaxLen /\ cb' = SourceSet([cb EXCEPT !.len = @ + 1])
SourceReplaced(l) == /\ cb.on /\ cb.ver = 0
                     /\ cb' = SourceSet([cb EXCEPT !.lang = l, !.ver = 1, !.len = 1])
ParserLoaded(l, ok) == /\ cb.on /\ cb.parser[l] = "loading"
                       /\ cb' = [cb EXCEPT !.parser[l] = IF ok THEN "ok" ELSE "failed"]

(* highlightSource: which sources can be answered, and which fail.          *)
CanAnswer(j) == j.lang \in Lezer => cb.parser[j.lang] = "ok"
CanFail(j) == j.lang \in Prism \/ (j.lang \in Lezer /\ cb.parser[j.lang] = "failed")
Highlighted(j) == [lang |-> j.lang, ver |-> j.ver, len |-> j.len, chunks |-> j.lang # "plain"]

(* Mutant: the answer to an earlier source is taken.                        *)
HighlightAnsweredLate(j) == /\ cb.on /\ j \in cb.jobs /\ CanAnswer(j)
                            /\ cb' = [cb EXCEPT !.jobs = @ \ {j}, !.result = Highlighted(j)]

(* The answer counts while its effect is the active one.                    *)
HighlightAnswered(j) ==
  /\ cb.on /\ j \in cb.jobs /\ CanAnswer(j)
  /\ cb' = [cb EXCEPT !.jobs = @ \ {j}, !.result = IF j = SourceOf(cb) THEN Highlighted(j) ELSE @]
HighlightFailed(j) == /\ cb.on /\ j \in cb.jobs /\ CanFail(j)
                      /\ cb' = [cb EXCEPT !.jobs = @ \ {j}]

KeepsHighlightedPrefix(s) == /\ s.result.chunks /\ s.result.lang = s.lang
                             /\ s.result.ver = s.ver /\ s.result.len <= s.len
(* highlightedSource: the chunks with the rest of the source behind them.   *)
HighlightedSource(s) ==
  IF KeepsHighlightedPrefix(s)
  THEN [ver |-> s.result.ver, len |-> IF s.result.len < s.len THEN s.len ELSE s.result.len]
  ELSE [ver |-> s.ver, len |-> s.len]

-----------------------------------------------------------------------------
(* What can be done with a block                                            *)

(* The html block has a preview; a search hit in the message shows its code.*)
HtmlPreview == cb.lang = "markup"
View == IF cb.search THEN "code" ELSE cb.view
CopyButton == ~HtmlPreview \/ View = "code"
SetView(v) == /\ cb.on /\ HtmlPreview /\ cb' = [cb EXCEPT !.view = v]
SearchRevealed == /\ cb.on /\ HtmlPreview /\ cb' = [cb EXCEPT !.search = ~@]

HandleCopy == /\ cb.on /\ CopyButton /\ cb.attempt < MaxCopies
              /\ cb' = [cb EXCEPT !.attempt = @ + 1, !.copying = @ \cup {cb.attempt + 1},
                                  !.copiedTimer = FALSE, !.last = "pending"]

(* Only the newest attempt tells.                                           *)
CopySettled(a, ok) ==
  /\ cb.on /\ a \in cb.copying
  /\ LET s == [cb EXCEPT !.copying = @ \ {a}] IN
     cb' = CASE a # cb.attempt -> s
             [] a = cb.attempt /\ ~ok -> [s EXCEPT !.copyState = "failure", !.last = "bad"]
             [] OTHER -> [s EXCEPT !.copyState = "success", !.copiedTimer = TRUE, !.last = "ok"]
CopiedTimer == /\ cb.on /\ cb.copiedTimer
               /\ cb' = [cb EXCEPT !.copiedTimer = FALSE, !.copyState = "idle"]

CodeNext ==
  \/ SourceGrows \/ (\E l \in Langs : SourceReplaced(l))
  \/ \E l \in Lezer, ok \in BOOLEAN : ParserLoaded(l, ok)
  \/ \E j \in cb.jobs : HighlightAnswered(j) \/ HighlightFailed(j)
  \/ (\E v \in {"code", "preview"} : SetView(v)) \/ SearchRevealed
  \/ HandleCopy \/ (\E a \in cb.copying, ok \in BOOLEAN : CopySettled(a, ok)) \/ CopiedTimer

-----------------------------------------------------------------------------
CodeTypeOK == cb.lang \in Langs /\ cb.len \in 1..MaxLen /\ cb.copyState \in {"idle", "success", "failure"}

(* The reader sees the whole source and nothing else, however late what is  *)
(* highlighted answers and whatever took the place of the source.           *)
CodeShownWhole == HighlightedSource(cb) = [ver |-> cb.ver, len |-> cb.len]

(* When every answer is in, the source is highlighted as it stands, unless  *)
(* its language could not be loaded.                                        *)
HighlightSettles ==
  cb.on /\ cb.jobs = {} /\ cb.lang \notin Prism /\ (cb.lang \in Lezer => cb.parser[cb.lang] = "ok") =>
    cb.result = Highlighted(SourceOf(cb))

(* What the button tells is how the newest copy ended, and success is told  *)
(* only for a while.                                                        *)
CopyToldIsLast ==
  /\ cb.last = "bad" => cb.copyState = "failure"
  /\ cb.last = "ok" => cb.copyState \in {"success", "idle"}
  /\ cb.copyState = "success" => cb.copiedTimer \/ cb.last = "pending"
=============================================================================
