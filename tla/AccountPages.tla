---------------------------- MODULE AccountPages ----------------------------
(***************************************************************************)
(* The screens that act on the session of AuthSession: AuthScreen, the     *)
(* user menu with its account card, the reminder to verify the address,    *)
(* and the three pages that a mailed link opens.  A screen's local state   *)
(* ("ui") lives as long as the screen is mounted; a request that outlives  *)
(* its screen still settles, but its setState calls do nothing (att).      *)
(***************************************************************************)
EXTENDS AuthSession

CONSTANT
  MaxPolls  \* bound on the polls of an avatar before the 120 s deadline

VARIABLE ui

vars == <<cred, store, tab, refresh, calls, asked, rotated, ui>>

Pages == {"verify", "reset", "confirm"}

Screen ==
  [route : {"gate"} \cup Pages,
   mode : {"login", "register", "forgot"}, sent : BOOLEAN, resetBusy : BOOLEAN,
   panel : {"closed", "menu", "account", "logout"},
   view : {"overview", "password", "deletion"},
   submitting : BOOLEAN, sending : BOOLEAN, crop : {"none", "open", "busy"},
   banner : {"ready", "sending", "cooling"},
   page : {"loading", "calling", "form", "busy", "success", "error"},
   vok : BOOLEAN, resending : BOOLEAN]

NewUi(route, page) ==
  [route |-> route, mode |-> "login", sent |-> FALSE, resetBusy |-> FALSE, panel |-> "closed",
   view |-> "overview", submitting |-> FALSE, sending |-> FALSE, crop |-> "none",
   banner |-> "ready", page |-> page, vok |-> FALSE, resending |-> FALSE]

(* App: the routes.  Either there is no account yet, or one with a session  *)
(* and an address to verify, or one that has logged out; a link is in the   *)
(* mail of an account.  (A page without ?token= shows its error and does    *)
(* nothing.)                                                                *)
Init ==
  /\ issued = 1 /\ live = {1} /\ rotated = {}
  /\ \E x, v \in BOOLEAN :
       /\ v => x
       /\ account = [exists |-> x, ver |-> v, active |-> TRUE]
       /\ link = [p \in Purposes |-> IF x THEN "active" ELSE "none"]
       /\ store = [n |-> IF x /\ ~v THEN 1 ELSE 0, ver |-> FALSE]
  /\ tab = [t \in Tabs |-> [session |-> NoSession, boot |-> "new", busy |-> FALSE]]
  /\ refresh = [t \in Tabs |-> NoRefresh]
  /\ calls = <<>> /\ asked = 0
  /\ ui \in [Tabs -> {NewUi("gate", "form"), NewUi("reset", "form"),
                      NewUi("verify", "loading"), NewUi("confirm", "loading")}]

LoggedIn(t) == tab[t].session.n # 0
Shell(t) == ui[t].route = "gate" /\ tab[t].boot = "done" /\ LoggedIn(t)
AuthForm(t) == ui[t].route = "gate" /\ tab[t].boot = "done" /\ ~LoggedIn(t)

(* One continuation: the store, the tab, its screen and the requests it     *)
(* leaves.  AuthGate mounts another screen when the session comes or goes.  *)
Continue(t, s, tb, u, cs) ==
  LET swapped == /\ u.route = "gate"
                 /\ <<tb.boot, tb.session.n = 0>> # <<tab[t].boot, ~LoggedIn(t)>>
  IN /\ store' = s
     /\ tab' = [tab EXCEPT ![t] = tb]
     /\ ui' = [ui EXCEPT ![t] = IF swapped THEN NewUi("gate", "form") ELSE u]
     /\ calls' = IF ~swapped THEN cs
                 ELSE [i \in DOMAIN cs |-> IF cs[i].tab = t THEN [cs[i] EXCEPT !.att = "no"]
                                                            ELSE cs[i]]

Settled(I) == Restrict(calls, DOMAIN calls \ I)
Over(i) == Settled({i})
Quiet == UNCHANGED <<cred, refresh, asked, rotated>>
Ui(t, u) == ui' = [ui EXCEPT ![t] = u] /\ UNCHANGED <<cred, store, tab, refresh, calls, asked, rotated>>
Open(t, op, u) == /\ Request(t, op) /\ ui' = [ui EXCEPT ![t] = u]
                  /\ UNCHANGED <<cred, store, tab, refresh, rotated>>
Budget == asked < MaxCalls /\ asked' = asked + 1
Ask(t, op, u) == Budget /\ Open(t, op, u)

-----------------------------------------------------------------------------
(* Start of a tab                                                           *)

(* AppProvider's effect: restore the session and refresh its user.          *)
Restore(t) ==
  /\ tab[t].boot = "new"
  /\ IF store.n = 0
       THEN Continue(t, store, [tab[t] EXCEPT !.boot = "done"], ui[t], calls) /\ Quiet
       ELSE /\ Request(t, "bootMe")
            /\ tab' = [tab EXCEPT ![t].session = store, ![t].boot = "restoring"]
            /\ UNCHANGED <<cred, store, refresh, asked, rotated, ui>>

-----------------------------------------------------------------------------
(* AuthScreen                                                               *)

(* The tabs over the form and the links under it.                           *)
TabOffered(t, m) == ui[t].mode # "forgot" /\ m \in {"login", "register"}
LinkOffered(t, m) == \/ ui[t].mode = "login" /\ m \in {"register", "forgot"}
                     \/ ui[t].mode # "login" /\ m = "login"

SwitchMode(t, m) ==
  /\ AuthForm(t) /\ m # ui[t].mode
  /\ TabOffered(t, m) \/ LinkOffered(t, m)
  /\ Ui(t, [ui[t] EXCEPT !.mode = m, !.sent = FALSE])

(* The form's button is disabled while a request is out.                    *)
FormReady(t) == AuthForm(t) /\ ui[t].mode # "forgot" /\ ~tab[t].busy
ForgotReady(t) == AuthForm(t) /\ ui[t].mode = "forgot" /\ ~ui[t].sent /\ ~ui[t].resetBusy

(* handleSubmit with a form that validates: login or register.              *)
HandleSubmit(t) ==
  /\ FormReady(t)
  /\ Budget /\ Request(t, ui[t].mode)
  /\ tab' = [tab EXCEPT ![t].busy = TRUE]
  /\ UNCHANGED <<cred, store, refresh, rotated, ui>>

(* handleResetRequest.                                                      *)
HandleResetRequest(t) ==
  /\ ForgotReady(t)
  /\ Ask(t, "requestReset", [ui[t] EXCEPT !.resetBusy = TRUE])

-----------------------------------------------------------------------------
(* UserMenu                                                                 *)

(* toggleMenu; openAccount and openLogout; Escape, a click outside and the  *)
(* close buttons.  (Library has the shares.)                                *)
Trigger(t) == Shell(t) /\ ui[t].panel \in {"closed", "menu"}
MenuContent(t) == Shell(t) /\ ui[t].panel = "menu"
LogoutDialog(t) == Shell(t) /\ ui[t].panel = "logout"

ToggleMenu(t) ==
  /\ Trigger(t)
  /\ Ui(t, [ui[t] EXCEPT !.panel = IF @ = "menu" THEN "closed" ELSE "menu"])

OpenPanel(t, p) ==
  /\ MenuContent(t) /\ p \in {"account", "logout"}
  /\ Ui(t, [ui[t] EXCEPT !.panel = p])

(* The account card is unmounted with its local state.                      *)
ClosePanel(t) ==
  /\ Shell(t) /\ ui[t].panel \in {"account", "logout"} /\ ui[t].crop = "none"
  /\ ui' = [ui EXCEPT ![t] = [NewUi("gate", "form") EXCEPT !.banner = ui[t].banner]]
  /\ calls' = [i \in DOMAIN calls |->
                 IF calls[i].tab = t /\ calls[i].op # "bannerSend"
                   THEN [calls[i] EXCEPT !.att = "no"] ELSE calls[i]]
  /\ UNCHANGED <<cred, store, tab, refresh, asked, rotated>>

(* logout of useAuthSession, up to its request; the dialog has no guard     *)
(* against a second click.                                                  *)
Logout(t) ==
  /\ LogoutDialog(t)
  /\ IF store.n = 0 THEN Continue(t, NoSession, ResetTab, ui[t], calls) /\ Quiet
                    ELSE Ask(t, "logout", ui[t])

-----------------------------------------------------------------------------
(* AccountCard, AvatarCropper and VerifyEmailBanner                         *)

(* The card and what its three views offer.                                 *)
Card(t) == Shell(t) /\ ui[t].panel = "account" /\ ui[t].crop = "none"
NicknameForm(t) == Card(t) /\ ui[t].view = "overview" /\ ~ui[t].submitting
ResendOffered(t) == Card(t) /\ ui[t].view = "overview" /\ ~tab[t].session.ver /\ ~ui[t].sending
PasswordForm(t) == Card(t) /\ ui[t].view = "password" /\ ~ui[t].submitting
DeletionForm(t) == Card(t) /\ ui[t].view = "deletion" /\ ~ui[t].submitting

SetView(t, v) ==
  /\ Card(t) /\ ui[t].view # v /\ "overview" \in {v, ui[t].view}
  /\ Ui(t, [ui[t] EXCEPT !.view = v])

(* saveNickname with a name that validates and differs from the saved one.  *)
SaveNickname(t) ==
  /\ NicknameForm(t)
  /\ Ask(t, "profile", [ui[t] EXCEPT !.submitting = TRUE])

(* resend.                                                                  *)
Resend(t) ==
  /\ ResendOffered(t)
  /\ Ask(t, "resend", [ui[t] EXCEPT !.sending = TRUE])

(* changePassword with a new password that validates.                       *)
ChangePasswordForm(t) ==
  /\ PasswordForm(t)
  /\ Ask(t, "changePassword", [ui[t] EXCEPT !.submitting = TRUE])

(* requestDeletion.                                                         *)
RequestDeletion(t) ==
  /\ DeletionForm(t)
  /\ Ask(t, "requestDeletion", [ui[t] EXCEPT !.submitting = TRUE])

(* chooseAvatar and onFileChange with an image that is accepted.            *)
ChooseAvatar(t) ==
  /\ Card(t) /\ ui[t].view = "overview" /\ tab[t].session.ver
  /\ Ui(t, [ui[t] EXCEPT !.crop = "open"])

(* The uploads of a tab after its cropper has gone.                         *)
WithoutCropper(cs, t) ==
  [i \in DOMAIN cs |-> IF cs[i].tab = t /\ cs[i].op \in AvatarOps /\ cs[i].att = "yes"
                         THEN [cs[i] EXCEPT !.att = "card"] ELSE cs[i]]

Cropper(t) == Shell(t) /\ ui[t].crop # "none"

(* The cropper is closed, also while its upload goes on.                    *)
CancelCrop(t) ==
  /\ Cropper(t)
  /\ ui' = [ui EXCEPT ![t].crop = "none"]
  /\ calls' = WithoutCropper(calls, t)
  /\ UNCHANGED <<cred, store, tab, refresh, asked, rotated>>

(* The cropper's confirm button: createBlob, then uploadAvatar.             *)
ConfirmCrop(t) ==
  /\ Cropper(t) /\ ui[t].crop = "open"
  /\ Ask(t, "avCreate", [ui[t] EXCEPT !.crop = "busy"])

(* VerifyEmailBanner: onSend, and the countdown of its cooldown.            *)
BannerOffered(t) == Shell(t) /\ ~tab[t].session.ver /\ ui[t].banner = "ready"
BannerSend(t) ==
  /\ BannerOffered(t)
  /\ Ask(t, "bannerSend", [ui[t] EXCEPT !.banner = "sending"])

BannerReady(t) == ui[t].banner = "cooling" /\ Ui(t, [ui[t] EXCEPT !.banner = "ready"])

-----------------------------------------------------------------------------
(* The pages behind a mailed link                                           *)

(* VerifyEmailPage's effect.                                                *)
VerifyStart(t) ==
  /\ ui[t].route = "verify" /\ ui[t].page = "loading" /\ tab[t].boot = "done"
  /\ Open(t, "verify", [ui[t] EXCEPT !.page = "calling"]) /\ UNCHANGED asked

(* onResend, and the button for it.                                         *)
PageResendOffered(t) ==
  /\ ui[t].route = "verify" /\ ui[t].page = "error" /\ ~ui[t].resending
  /\ LoggedIn(t) /\ ~tab[t].session.ver
PageResend(t) ==
  /\ PageResendOffered(t)
  /\ Ask(t, "pageResend", [ui[t] EXCEPT !.resending = TRUE])

(* ResetPasswordPage.handleSubmit with passwords that validate.             *)
ResetForm(t) == ui[t].route = "reset" /\ ui[t].page = "form"
ResetSubmit(t) ==
  /\ ResetForm(t)
  /\ Ask(t, "reset", [ui[t] EXCEPT !.page = "busy"])

(* ConfirmAccountDeletionPage's effect: it does not wait for anything.      *)
ConfirmStart(t) ==
  /\ ui[t].route = "confirm" /\ ui[t].page = "loading"
  /\ Open(t, "confirm", [ui[t] EXCEPT !.page = "calling"]) /\ UNCHANGED asked

-----------------------------------------------------------------------------
(* Answers                                                                  *)

(* The catch and finally blocks of the operations in S, which were rejected *)
(* while their screen was mounted.                                          *)
FailUi(S, u) ==
  [u EXCEPT
     !.submitting = @ /\ S \cap {"profile", "changePassword", "requestDeletion"} = {},
     !.sending    = @ /\ "resend" \notin S,
     !.resending  = @ /\ "pageResend" \notin S,
     !.resetBusy  = @ /\ "requestReset" \notin S,
     !.banner     = IF "bannerSend" \in S THEN "ready" ELSE @,
     !.crop       = IF S \cap (AvatarOps) # {} THEN "open" ELSE @,
     !.page       = IF "reset" \in S THEN "form"
                    ELSE IF "confirm" \in S THEN "error"
                    ELSE IF "pageMe" \in S THEN IF u.vok THEN "success" ELSE "error" ELSE @]

Attached(I) == {calls[i].op : i \in {j \in I : calls[j].att = "yes"}}

(* expireAuth and createAuthExpiryHandler, reached from refreshSession      *)
(* without a refresh token and from a refresh that failed.  The requests in *)
(* I are rejected, those in cs go on.                                       *)
ExpireAuth(t, I, cs) == Continue(t, NoSession, ResetTab, FailUi(Attached(I), ui[t]), cs)

(* Mutant: without a refresh token the request joins a refresh that nobody  *)
(* has started.                                                             *)
NothingToRefreshWaits(i) ==
  /\ Unauthorized(calls[i]) /\ store.n = 0
  /\ calls' = [calls EXCEPT ![i].phase = "waiting"]
  /\ UNCHANGED <<store, tab, ui>> /\ Quiet

NothingToRefresh(i) ==
  /\ Unauthorized(calls[i]) /\ store.n = 0
  /\ ExpireAuth(calls[i].tab, {i}, Over(i)) /\ Quiet

RefreshFailed(t) ==
  /\ refresh[t].phase = "refused"
  /\ ExpireAuth(t, Waiting(t), Settled(Waiting(t)))
  /\ refresh' = [refresh EXCEPT ![t] = NoRefresh]
  /\ UNCHANGED <<cred, asked, rotated>>

(* Every other rejection, but for verifyEmail and logout.                   *)
Rejected(i) ==
  LET c == calls[i]
      t == c.tab
  IN /\ c.phase \in {"refused", "unauth"} /\ ~Unauthorized(c)
     /\ c.op \notin {"verify", "logout"}
     /\ Continue(t, store,
                 [tab[t] EXCEPT !.busy = @ /\ c.op \notin {"login", "register"},
                                !.boot = IF c.op = "bootMe" THEN "done" ELSE @],
                 FailUi(Attached({i}), ui[t]), Over(i))
     /\ Quiet

(* login and register of useAuthSession.                                    *)
SignedIn(i) ==
  LET c == calls[i]
      s == [n |-> c.n, ver |-> c.ver]
  IN /\ c.phase = "ok" /\ c.op \in {"login", "register"}
     /\ Continue(c.tab, s, [tab[c.tab] EXCEPT !.session = s, !.busy = FALSE], ui[c.tab], Over(i))
     /\ Quiet

(* logout, after its request, whatever came of that.                        *)
LoggedOut(i) ==
  LET c == calls[i] IN
  /\ c.op = "logout" /\ c.phase \in Answers
  /\ Continue(c.tab, NoSession, ResetTab, ui[c.tab], Over(i)) /\ Quiet

(* me and updateProfile: the user mirror, in the store and in the tab, and  *)
(* what the operation itself does next.                                     *)
UserUpdated(i) ==
  LET c == calls[i]
      t == c.tab
      u == ui[t]
  IN /\ c.phase = "ok" /\ c.op \in {"bootMe", "pageMe", "profile"}
     /\ Continue(t, WithUser(store, c.ver),
                 [tab[t] EXCEPT !.session = WithUser(@, c.ver),
                                !.boot = IF c.op = "bootMe" THEN "done" ELSE @],
                 [u EXCEPT !.submitting = @ /\ ~(c.op = "profile" /\ c.att = "yes"),
                           !.page = IF c.op # "pageMe" THEN @
                                    ELSE IF u.vok \/ c.ver THEN "success" ELSE "error"],
                 Over(i))
     /\ Quiet

(* The operations whose success only changes their screen.                  *)
Accepted(i) ==
  LET c == calls[i]
      on == c.att = "yes"
      u == ui[c.tab]
  IN /\ c.phase = "ok"
     /\ c.op \in {"resend", "bannerSend", "pageResend", "requestDeletion", "requestReset", "reset"}
     /\ Continue(c.tab, store, tab[c.tab],
          [u EXCEPT !.sending = @ /\ ~(on /\ c.op = "resend"),
                    !.resending = @ /\ ~(on /\ c.op = "pageResend"),
                    !.banner = IF on /\ c.op = "bannerSend" THEN "cooling" ELSE @,
                    !.submitting = @ /\ ~(on /\ c.op = "requestDeletion"),
                    !.view = IF on /\ c.op = "requestDeletion" THEN "overview" ELSE @,
                    !.resetBusy = @ /\ ~(on /\ c.op = "requestReset"),
                    !.sent = @ \/ (on /\ c.op = "requestReset"),
                    !.page = IF c.op = "reset" THEN "success" ELSE @],
          Over(i))
     /\ Quiet

(* onChangePassword: the accepted change goes on to logout.                 *)
PasswordChanged(i) ==
  LET c == calls[i] IN
  /\ c.phase = "ok" /\ c.op = "changePassword"
  /\ IF store.n = 0 THEN Continue(c.tab, NoSession, ResetTab, ui[c.tab], Over(i))
     ELSE /\ calls' = [calls EXCEPT ![i] = [NewCall(c.tab, "logout") EXCEPT !.att = c.att]]
          /\ UNCHANGED <<store, tab, ui>>
  /\ Quiet

(* verifyEmail answered: with a session, ask /me before the verdict.        *)
VerifyAnswered(i) ==
  LET c == calls[i]
      t == c.tab
      won == c.phase = "ok"
  IN /\ c.op = "verify" /\ c.phase \in Answers
     /\ IF LoggedIn(t)
          THEN /\ calls' = [calls EXCEPT ![i] = NewCall(t, "pageMe")]
               /\ ui' = [ui EXCEPT ![t].vok = won]
          ELSE /\ calls' = Over(i)
               /\ ui' = [ui EXCEPT ![t].page = IF won THEN "success" ELSE "error"]
     /\ UNCHANGED <<store, tab>> /\ Quiet

(* confirmAccountDeletion answered with success.                            *)
DeletionConfirmed(i) ==
  LET c == calls[i] IN
  /\ c.phase = "ok" /\ c.op = "confirm"
  /\ Continue(c.tab, NoSession, ResetTab, [ui[c.tab] EXCEPT !.page = "success"], Over(i))
  /\ Quiet

(* uploadAvatar: create, PUT, confirm, then poll until the processing ends  *)
(* or the deadline passes (here after MaxPolls polls).                      *)
AvatarNext(op) == [avCreate |-> "avPut", avPut |-> "avConfirm", avConfirm |-> "avPoll",
                   avPoll |-> "avPoll"][op]

AvatarStep(i) ==
  LET c == calls[i] IN
  /\ c.phase = "ok" /\ c.op \in AvatarOps /\ c.k < MaxPolls
  /\ calls' = [calls EXCEPT ![i] =
       [NewCall(c.tab, AvatarNext(c.op)) EXCEPT
          !.ver = c.ver, !.att = c.att, !.k = IF c.op \in {"avConfirm", "avPoll"} THEN c.k + 1 ELSE 0]]
  /\ UNCHANGED <<store, tab, ui>> /\ Quiet

(* The end of the polling: an error, or onUploadAvatar with the user of the *)
(* render in which the button was clicked.                                  *)
AvatarEnds(i) ==
  LET c == calls[i]
      t == c.tab
  IN /\ c.phase = "ok" /\ c.op \in {"avConfirm", "avPoll"}
     /\ \/ Continue(t, store, tab[t], FailUi(Attached({i}), ui[t]), Over(i))
        \/ Continue(t, WithUser(store, c.ver),
                    [tab[t] EXCEPT !.session = WithUser(@, c.ver)],
                    [ui[t] EXCEPT !.crop = IF c.att = "no" THEN @ ELSE "none"],
                    IF c.att = "no" THEN Over(i) ELSE WithoutCropper(Over(i), t))
     /\ Quiet

-----------------------------------------------------------------------------
(* A tab of the browser that is not in Tabs: it refreshes the pair, logs    *)
(* out or logs in, and saves or clears the shared entry of localStorage.    *)
OtherTab ==
  /\ Budget
  /\ \/ RefreshAdmits(store.n) /\ RefreshWrite(store.n) /\ store' = [n |-> issued', ver |-> account.ver]
     \/ store.n # 0 /\ LogoutToken(store.n, "ok") /\ store' = NoSession
     \/ LoginUser("ok") /\ store' = [n |-> issued', ver |-> account.ver]
  /\ UNCHANGED <<tab, refresh, calls, rotated, ui>>

User(t) ==
  \/ \E m \in {"login", "register", "forgot"} : SwitchMode(t, m)
  \/ HandleSubmit(t) \/ HandleResetRequest(t)
  \/ ToggleMenu(t) \/ ClosePanel(t) \/ Logout(t)
  \/ \E p \in {"account", "logout"} : OpenPanel(t, p)
  \/ \E v \in {"overview", "password", "deletion"} : SetView(t, v)
  \/ SaveNickname(t) \/ Resend(t) \/ ChangePasswordForm(t) \/ RequestDeletion(t)
  \/ ChooseAvatar(t) \/ CancelCrop(t) \/ ConfirmCrop(t)
  \/ BannerSend(t) \/ BannerReady(t)
  \/ PageResend(t) \/ ResetSubmit(t)

Settle(i) ==
  \/ NothingToRefresh(i) \/ Rejected(i) \/ SignedIn(i) \/ LoggedOut(i) \/ UserUpdated(i)
  \/ Accepted(i) \/ PasswordChanged(i) \/ VerifyAnswered(i) \/ DeletionConfirmed(i)
  \/ AvatarStep(i) \/ AvatarEnds(i)

(* What happens by itself: the effects of a mount, the network and the      *)
(* server, and the continuations.                                           *)
System ==
  \/ \E t \in Tabs : Restore(t) \/ VerifyStart(t) \/ ConfirmStart(t) \/ RefreshFailed(t)
  \/ \E i \in DOMAIN calls : Settle(i)
  \/ /\ \/ \E t \in Tabs : RefreshRead(t) \/ RefreshCommit(t) \/ RefreshLost(t) \/ Refreshed(t)
        \/ \E i \in DOMAIN calls : Serve(i) \/ Lose(i) \/ RefreshSession(i)
     /\ UNCHANGED ui

Next == System \/ OtherTab \/ \E t \in Tabs : User(t)

(* The browser and the server go on: every request is answered or fails.    *)
Spec == Init /\ [][Next]_vars /\ WF_vars(System)
-----------------------------------------------------------------------------
TypeOK == CredTypes /\ SessionTypes /\ ui \in [Tabs -> Screen]

(* A tab never presents a refresh token that it had rotated itself: however *)
(* its requests and their 401s overlap, refreshSession of client.ts cannot  *)
(* be the cause of its own logout.                                          *)
OwnRotationNeverLogsOut ==
  \A t \in Tabs : refresh[t].phase = "sent" => <<t, refresh[t].n>> \notin rotated

(* A spinner always has exactly one request behind it, whatever was closed, *)
(* reopened or refreshed meanwhile: a form of AuthScreen, AccountCard,      *)
(* VerifyEmailBanner or a page is disabled just as long as its own request  *)
(* is out.  (The form of AuthScreen comes back early when an older request  *)
(* of the tab expires the session while it logs in.)                        *)
Shown(cs, t, ops) == {i \in DOMAIN cs : cs[i].tab = t /\ cs[i].att = "yes" /\ cs[i].op \in ops}
CardOps(u) == {"profile", "changePassword", "requestDeletion"}
              \cup (IF u.panel = "account" THEN {"logout"} ELSE {})

SpinnerHasRequest ==
  \A t \in Tabs :
    LET u == ui[t]
        counts(ops, b) == Cardinality(Shown(calls, t, ops)) = IF b THEN 1 ELSE 0
    IN /\ counts(CardOps(u), u.submitting)
       /\ counts({"resend"}, u.sending)
       /\ counts({"bannerSend"}, u.banner = "sending")
       /\ counts({"pageResend"}, u.resending)
       /\ counts(AvatarOps, u.crop = "busy")
       /\ counts({"requestReset"}, u.resetBusy)
       /\ counts({"verify", "pageMe", "confirm"}, u.page = "calling")
       /\ tab[t].busy => Shown(calls, t, {"login", "register"}) # {}

(* AppProvider: "without this older request overwriting a newer user        *)
(* mirror".  On the page behind the verification link an address that was   *)
(* shown as verified stays so for the session.                              *)
VerifiedStaysShown ==
  [][\A t \in Tabs : ui[t].route = "verify" /\ tab[t].session.ver /\ tab'[t].session.n # 0
       => tab'[t].session.ver]_vars

(* Every tab gets past its bootstrap, and every request settles.            *)
EverythingSettles ==
  /\ \A t \in Tabs : <>(tab[t].boot = "done")
  /\ \A t \in Tabs : []<>(Flying(t) = {})

(* In every state the tab tells the truth about its requests, and no tab    *)
(* has undone its own session (client.ts, AppProvider, the account pages).  *)
TabsTrue == TypeOK /\ OwnRotationNeverLogsOut /\ SpinnerHasRequest

(* Sessions come to rest: what was shown as verified stays, every bootstrap *)
(* and every request ends.                                                  *)
SessionsSettle == VerifiedStaysShown /\ EverythingSettles
=============================================================================
