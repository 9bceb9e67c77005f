----------------------------- MODULE ShareLinks -----------------------------
(***************************************************************************)
(* Public links to a conversation: the service that keeps at most one      *)
(* active link per conversation (app/services/shares/service.py), the      *)
(* share dialog of a sidebar row, the share button of the open chat, the   *)
(* card with all of the user's links, and the public page with its         *)
(* attachments.  Each of them runs in a tab of its own.                    *)
(***************************************************************************)
EXTENDS Integers, Sequences, FiniteSets

CONSTANTS ShareConvs,   \* conversations of the user
          WithFiles,    \* those whose messages have attachments
          MaxLinks      \* bound on the links that are ever made
ASSUME ShareAssumption == WithFiles \subseteq ShareConvs /\ MaxLinks \in Nat \ {0}

VARIABLE sh

NoConv == "none"
Creators == {"dialog", "quick"}
NoCall == [at |-> "none", conv |-> NoConv, confirm |-> FALSE, seen |-> FALSE, token |-> 0]
NoQuick == [conv |-> NoConv, at |-> "none"]

(* links: the rows of share_links in the order of creation.  lock: who has  *)
(* the row of a conversation.  call: a create request: none, asked, holding *)
(* the lock with what it saw, or its answer (a token, or 0 for an error).   *)
(* shown: the conversation that is open, whose messages are in memory.      *)
(* told: links the owner was told are revoked.  on: off, or the tab that is *)
(* there beside the chat: the card of all links or the public page.         *)
ShareStart(on) ==
  [on |-> on, links |-> <<>>, gone |-> {}, lock |-> [c \in ShareConvs |-> NoConv],
   call |-> [w \in Creators |-> NoCall],
   shown |-> NoConv,
   dialog |-> [conv |-> NoConv, loading |-> FALSE, link |-> 0, revoking |-> 0],
   quick |-> NoQuick,
   card |-> [status |-> "closed", rows |-> {}, revoking |-> 0],
   page |-> [status |-> "closed", token |-> 0], told |-> {}]

-----------------------------------------------------------------------------
(* The service                                                              *)

(* _active_share_filter: neither revoked nor past its expiry.               *)
Active(t) == sh.links[t].state = "active"
Tokens == 1..Len(sh.links)
ActiveOf(c) == {t \in Tokens : sh.links[t].conv = c /\ Active(t)}
Visible(c) == c \notin sh.gone

(* list_shares: the newest active link.                                     *)
Listed(c) == IF ActiveOf(c) = {} THEN 0 ELSE CHOOSE t \in ActiveOf(c) : \A u \in ActiveOf(c) : u <= t

(* Mutant: the conversation is read without its lock.                       *)
CreateBeginUnlocked(w) ==
  LET c == sh.call[w].conv IN
  /\ sh.on # "off" /\ sh.call[w].at = "asked"
  /\ sh' = IF ~Visible(c) THEN [sh EXCEPT !.call[w].at = "failed"]
           ELSE [sh EXCEPT !.call[w].at = "locked", !.call[w].seen = ActiveOf(c) # {}]

(* create_share waits for the row of the conversation, then looks whether a *)
(* link is active.                                                          *)
CreateBegin(w) ==
  LET c == sh.call[w].conv IN
  /\ sh.on # "off" /\ sh.call[w].at = "asked" /\ sh.lock[c] = NoConv
  /\ sh' = IF ~Visible(c) THEN [sh EXCEPT !.call[w].at = "failed"]
           ELSE [sh EXCEPT !.lock[c] = w, !.call[w].at = "locked", !.call[w].seen = ActiveOf(c) # {}]

(* It is refused when there is one, or when attachments were not confirmed; *)
(* else the snapshot is stored.  The lock goes with the transaction.        *)
CreateCommit(w) ==
  LET c == sh.call[w].conv
      refused == c \in WithFiles /\ ~sh.call[w].confirm
      freed == [sh EXCEPT !.lock[c] = NoConv] IN
  /\ sh.on # "off" /\ sh.call[w].at = "locked" /\ Len(sh.links) < MaxLinks
  /\ sh' = IF sh.call[w].seen THEN [freed EXCEPT !.call[w].at = "failed"]
           ELSE IF refused THEN [freed EXCEPT !.call[w].at = "refused"]
           ELSE [freed EXCEPT !.links = Append(@, [conv |-> c, state |-> "active"]),
                              !.call[w].at = "done", !.call[w].token = Len(sh.links) + 1]

(* The response does not arrive, whatever the service did.                  *)
CreateLost(w) == /\ sh.on # "off" /\ sh.call[w].at = "done"
                 /\ sh' = [sh EXCEPT !.call[w].at = "failed"]

(* Time passes the expiry of a link; the conversation is deleted.           *)
Expire(t) == /\ sh.on # "off" /\ t \in Tokens /\ Active(t)
             /\ sh' = [sh EXCEPT !.links[t].state = "expired"]
DeleteShared(c) == /\ sh.on # "off" /\ Visible(c) /\ sh.lock[c] = NoConv
                   /\ sh' = [sh EXCEPT !.gone = @ \cup {c},
                                       !.shown = IF @ = c THEN NoConv ELSE @]

(* revoke_share: idempotent, and also for a link that has expired.          *)
Revoked(s, t) == [s EXCEPT !.links[t].state = IF @ = "revoked" THEN @ ELSE "revoked"]

-----------------------------------------------------------------------------
(* What the surfaces show                                                   *)

DialogOpen == sh.dialog.conv # NoConv
DialogLoading == DialogOpen /\ sh.dialog.loading
DialogLink == DialogOpen /\ ~sh.dialog.loading /\ sh.dialog.link # 0
DialogForm == DialogOpen /\ ~sh.dialog.loading /\ sh.dialog.link = 0
AttachmentNotice == sh.shown \in WithFiles
CardLoading == sh.card.status = "loading"
CardRows == sh.card.status = "ready"
PageLoading == sh.page.status = "loading"
PageThread == sh.page.status = "ready"

-----------------------------------------------------------------------------
(* The share dialog of a row in the sidebar                                 *)

Ask(s, w, c, confirm) ==
  [s EXCEPT !.call[w] = [at |-> "asked", conv |-> c, confirm |-> confirm, seen |-> FALSE, token |-> 0]]

ShowChat(c) == /\ sh.on # "off" /\ Visible(c) /\ sh.shown # c
               /\ sh' = [sh EXCEPT !.shown = c]

OpenShare(c) == /\ sh.on # "off" /\ ~DialogOpen /\ Visible(c) /\ sh.call["dialog"].at = "none"
                /\ sh' = [sh EXCEPT !.dialog = [conv |-> c, loading |-> TRUE, link |-> 0, revoking |-> 0]]

(* The list: its first link or none; a failure leaves the form.             *)
DialogLoaded(ok) ==
  /\ sh.on # "off" /\ DialogLoading
  /\ sh' = [sh EXCEPT !.dialog.loading = FALSE,
              !.dialog.link = IF ok /\ Visible(sh.dialog.conv) THEN Listed(sh.dialog.conv) ELSE 0]

(* create: the flag follows the notice.                                     *)
DialogCreate ==
  /\ sh.on # "off" /\ DialogForm /\ sh.call["dialog"].at = "none"
  /\ sh' = Ask(sh, "dialog", sh.dialog.conv, AttachmentNotice)

DialogCreated ==
  LET r == sh.call["dialog"] IN
  /\ sh.on # "off" /\ r.at \in {"done", "failed", "refused"}
  /\ sh' = [sh EXCEPT !.call["dialog"] = NoCall,
              !.dialog.link = IF DialogOpen /\ r.at = "done" THEN r.token ELSE @]

DialogRevoke == /\ sh.on # "off" /\ DialogLink /\ sh.dialog.revoking = 0
                /\ sh' = [sh EXCEPT !.dialog.revoking = sh.dialog.link]

DialogRevoked(ok) ==
  LET t == sh.dialog.revoking
      done == ok /\ Visible(sh.dialog.conv)
      base == [sh EXCEPT !.dialog.revoking = 0] IN
  /\ sh.on # "off" /\ t # 0
  /\ sh' = IF done THEN [Revoked(base, t) EXCEPT !.dialog.link = 0, !.told = @ \cup {t}]
           ELSE base

(* Closing drops the answers of the dialog, not what they did.              *)
CloseShare == /\ sh.on # "off" /\ DialogOpen /\ sh.dialog.revoking = 0
              /\ sh' = [sh EXCEPT !.dialog = [conv |-> NoConv, loading |-> FALSE, link |-> 0, revoking |-> 0]]

-----------------------------------------------------------------------------
(* The share button of the open chat: an active link is used again          *)

QuickShare == /\ sh.on # "off" /\ sh.quick.at = "none" /\ sh.shown # NoConv
              /\ sh' = [sh EXCEPT !.quick = [conv |-> sh.shown, at |-> "list"]]

QuickListed(ok) ==
  LET q == sh.quick
      t == Listed(q.conv) IN
  /\ sh.on # "off" /\ q.at = "list"
  /\ sh' = IF ~ok \/ ~Visible(q.conv) THEN [sh EXCEPT !.quick = NoQuick]
           ELSE IF t # 0 THEN [sh EXCEPT !.quick.at = "copy"]
           ELSE [Ask(sh, "quick", q.conv, q.conv \in WithFiles) EXCEPT !.quick.at = "create"]

QuickCreated ==
  LET r == sh.call["quick"] IN
  /\ sh.on # "off" /\ sh.quick.at = "create" /\ r.at \in {"done", "failed", "refused"}
  /\ sh' = [sh EXCEPT !.call["quick"] = NoCall,
              !.quick = IF r.at = "done" THEN [@ EXCEPT !.at = "copy"] ELSE NoQuick]

(* The write begun with the tap, else a write now, else a selection: copied *)
(* or not, the share ends.                                                  *)
QuickCopied == /\ sh.on # "off" /\ sh.quick.at = "copy"
               /\ sh' = [sh EXCEPT !.quick = NoQuick]

-----------------------------------------------------------------------------
(* The card of all links                                                    *)

(* list_user_shares leaves out deleted conversations.                       *)
Mine == {t \in Tokens : Active(t) /\ Visible(sh.links[t].conv)}

OpenMyShares == /\ sh.on = "card" /\ sh.card.status \in {"closed", "error"}
                /\ sh' = [sh EXCEPT !.card = [status |-> "loading", rows |-> {}, revoking |-> 0]]
CardLoaded(ok) == /\ sh.on # "off" /\ CardLoading
                  /\ sh' = [sh EXCEPT !.card.status = IF ok THEN "ready" ELSE "error",
                                      !.card.rows = IF ok THEN Mine ELSE @]
CardRevoke(t) == /\ sh.on # "off" /\ CardRows /\ t \in sh.card.rows /\ sh.card.revoking = 0
                 /\ sh' = [sh EXCEPT !.card.revoking = t]
CardRevoked(ok) ==
  LET t == sh.card.revoking
      base == [sh EXCEPT !.card.revoking = 0] IN
  /\ sh.on # "off" /\ t # 0
  /\ sh' = IF ok /\ Visible(sh.links[t].conv)
           THEN [Revoked(base, t) EXCEPT !.card.rows = @ \ {t}, !.told = @ \cup {t}]
           ELSE base
CloseCard == /\ sh.on # "off" /\ sh.card.status # "closed" /\ sh.card.revoking = 0
             /\ sh' = [sh EXCEPT !.card = [status |-> "closed", rows |-> {}, revoking |-> 0]]

-----------------------------------------------------------------------------
(* The public page                                                          *)

VisitShare(t) == /\ sh.on = "page" /\ t \in Tokens /\ sh.page.status = "closed"
                 /\ sh' = [sh EXCEPT !.page = [status |-> "loading", token |-> t]]

(* get_public_share: revoked and expired are not told apart.                *)
GetPublic(ok) ==
  /\ sh.on # "off" /\ PageLoading
  /\ sh' = [sh EXCEPT !.page.status = IF ok /\ Active(sh.page.token) THEN "ready" ELSE "error"]

(* An attachment of the snapshot: also refused once the conversation is     *)
(* deleted, and then the page keeps what it has.                            *)
ReadShared ==
  /\ sh.on # "off" /\ PageThread /\ sh.links[sh.page.token].conv \in WithFiles
  /\ Active(sh.page.token) /\ Visible(sh.links[sh.page.token].conv)
  /\ sh' = [sh EXCEPT !.page.status = "reading"]
LeavePage == /\ sh.on # "off" /\ sh.page.status \in {"ready", "reading", "error"}
             /\ sh' = [sh EXCEPT !.page = [status |-> "closed", token |-> 0]]

ShareNext ==
  \/ \E w \in Creators : CreateBegin(w) \/ CreateCommit(w) \/ CreateLost(w)
  \/ \E c \in ShareConvs : DeleteShared(c) \/ ShowChat(c) \/ OpenShare(c)
  \/ \E t \in 1..MaxLinks : Expire(t) \/ CardRevoke(t) \/ VisitShare(t)
  \/ \E ok \in BOOLEAN : \/ DialogLoaded(ok) \/ DialogRevoked(ok) \/ QuickListed(ok)
                         \/ CardLoaded(ok) \/ CardRevoked(ok) \/ GetPublic(ok)
  \/ DialogCreate \/ DialogCreated \/ DialogRevoke \/ CloseShare
  \/ QuickShare \/ QuickCreated \/ QuickCopied
  \/ OpenMyShares \/ CloseCard \/ ReadShared \/ LeavePage

-----------------------------------------------------------------------------
ShareTypeOK ==
  /\ Len(sh.links) <= MaxLinks /\ sh.gone \subseteq ShareConvs
  /\ \A w \in Creators : sh.call[w].at \in {"none", "asked", "locked", "done", "failed", "refused"}
  /\ sh.page.token \in 0..MaxLinks /\ sh.card.rows \subseteq 1..MaxLinks

(* However the tabs race, a conversation never has two active links: no     *)
(* constraint of the database says so, only the lock of create_share.       *)
OneActiveLink == \A c \in ShareConvs : Cardinality(ActiveOf(c)) <= 1

(* A link the owner was told is revoked, by the dialog or by the card, is   *)
(* not active, and nothing makes it active again.                           *)
RevokedIsDead == \A t \in sh.told : ~Active(t)

(* From then on no visitor gets the snapshot or an attachment through it.   *)
VisitsActive ==
  [][\A t \in sh.told : sh'.page.token = t /\ sh'.page.status \in {"ready", "reading"}
       => sh'.page = sh.page]_sh
=============================================================================
