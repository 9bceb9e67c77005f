---------------------------- MODULE AuthSession -----------------------------
(***************************************************************************)
(* The session of a browser: localStorage, shared by the tabs, and in each *)
(* tab the ApiClient (frontend/src/api/client.ts) that sends requests,     *)
(* refreshes the pair of tokens once for all the requests that met a 401,  *)
(* and expires the session when that fails.                                *)
(*                                                                         *)
(* A request is an entry of "calls" from the moment it is sent until its   *)
(* promise has settled.  JavaScript runs one task at a time, so what a     *)
(* promise's continuations do when an answer arrives is one step.          *)
(***************************************************************************)
EXTENDS AuthServer, FiniteSets, Functions

CONSTANTS
  Tabs,
  MaxCalls   \* bound on the requests that the user asks for

ASSUME SessionAssumption == MaxCalls \in Nat

VARIABLES
  store,    \* localStorage["ichat.auth"]; n = 0 when there is no entry
  tab,      \* AuthState of each tab: session, boot (bootstrapped), busy (status)
  refresh,  \* refreshPromise of each tab's ApiClient
  calls,    \* the requests of all tabs, by a number that is free again at the end
  asked,    \* number of requests that the user asked for
  rotated   \* history: <<t, n>> when tab t had the server rotate token n

NoSession == [n |-> 0, ver |-> FALSE]

(* createAuthApi and uploadAvatar: the operations of the account.  Those in *)
(* PublicOps are sent with auth: false, so they carry no access token and   *)
(* their 401 is an error like any other.                                    *)
PublicOps == {"login", "register", "logout", "requestReset", "verify", "reset", "confirm"}
AvatarOps == {"avCreate", "avPut", "avConfirm", "avPoll"}
AuthedOps == {"bootMe", "pageMe", "profile", "resend", "bannerSend", "pageResend",
              "changePassword", "requestDeletion"} \cup (AvatarOps \ {"avPut"})
(* What comes of a fetch: a response that is ok, a 401, or anything else    *)
(* that rejects the promise (4xx, 5xx, no network).                         *)
Answers == {"ok", "refused", "unauth"}

Session == [n : 0..issued, ver : BOOLEAN]
Call == [tab : Tabs, op : PublicOps \cup AuthedOps \cup AvatarOps, n : 0..issued,
         retried : BOOLEAN, ver : BOOLEAN, att : {"yes", "card", "no"}, k : Nat,
         phase : {"sent", "waiting"} \cup Answers]

TabState == [session : Session, boot : {"new", "restoring", "done"}, busy : BOOLEAN]
Refresh == [phase : {"idle", "sent", "read"} \cup Answers, n : 0..issued, ver : BOOLEAN]

SessionTypes ==
  /\ store \in Session /\ tab \in [Tabs -> TabState] /\ refresh \in [Tabs -> Refresh]
  /\ calls \in [DOMAIN calls -> Call]
  /\ IsFiniteSet(DOMAIN calls) /\ DOMAIN calls \subseteq Nat
  /\ asked \in 0..MaxCalls
  /\ rotated \subseteq Tabs \X (1..issued)

Flying(t) == {i \in DOMAIN calls : calls[i].tab = t}
Waiting(t) == {i \in Flying(t) : calls[i].phase = "waiting"}

(* buildHeaders: the access token that the store holds when the request is  *)
(* sent; the body of logout holds the refresh token.  An avatar's upload    *)
(* remembers the user of the render that started it (ver).                  *)
NewCall(t, op) == [tab |-> t, op |-> op, retried |-> FALSE, phase |-> "sent",
                   n |-> IF op \in AuthedOps \cup {"logout"} THEN store.n ELSE 0,
                   ver |-> op = "avCreate" /\ tab[t].session.ver, att |-> "yes", k |-> 0]

Unused == CHOOSE i \in 1..(Cardinality(DOMAIN calls) + 1) : i \notin DOMAIN calls
Request(t, op) ==
  calls' = [i \in DOMAIN calls \cup {Unused} |-> IF i = Unused THEN NewCall(t, op) ELSE calls[i]]

(* The routes of api/v1/auth.py (and of the avatar): the endpoint that op   *)
(* reaches with the token n, and its answer r.  Every endpoint may refuse:  *)
(* the rate limits, the validation of the body, an error of the server.     *)
(* get_current_user stands before the ones that need the account, and an    *)
(* access token may have expired.                                           *)
Handles(op, n, r) ==
  \/ r = "refused" /\ UNCHANGED cred
  \/ r = "unauth" /\ op \in AuthedOps /\ UNCHANGED cred
  \/ op = "login" /\ LoginUser(r)
  \/ op = "register" /\ RegisterUser(r)
  \/ op = "logout" /\ LogoutToken(n, r)
  \/ op = "requestReset" /\ RequestPasswordReset(r)
  \/ op = "verify" /\ VerifyEmail(r)
  \/ op = "reset" /\ ResetPassword(r)
  \/ op = "confirm" /\ ConfirmAccountDeletion(r)
  \/ op = "avPut" /\ Plain(r)
  \/ /\ op \in AuthedOps /\ Authorized(n)
     /\ \/ op \in {"bootMe", "pageMe", "profile"} \cup AvatarOps /\ Plain(r)
        \/ op \in {"resend", "bannerSend", "pageResend"} /\ ResendVerification(r)
        \/ op = "changePassword" /\ ChangePassword(r)
        \/ op = "requestDeletion" /\ RequestAccountDeletion(r)

(* The operations that are answered with a pair of tokens, and those that   *)
(* are answered with the user, as the account is at that moment.            *)
PairOps == {"login", "register"}
UserOps == PairOps \cup {"bootMe", "pageMe", "profile"}

Serve(i) ==
  LET c == calls[i] IN
  /\ c.phase = "sent"
  /\ \E r \in Answers :
       /\ Handles(c.op, c.n, r)
       /\ calls' = [calls EXCEPT ![i] =
            [c EXCEPT !.phase = r,
                      !.n = IF r = "ok" /\ c.op \in PairOps THEN issued' ELSE 0,
                      !.ver = IF r = "ok" /\ c.op \in UserOps THEN account'.ver ELSE @]]
  /\ UNCHANGED <<store, tab, refresh, asked, rotated>>

(* The network fails before the server sees the request, or after the       *)
(* request has had its effect: fetch rejects.                               *)
Lost(c) == [c EXCEPT !.phase = "refused", !.n = 0, !.ver = @ /\ c.op \notin UserOps]
Lose(i) ==
  /\ calls[i].phase \in {"sent", "ok"}
  /\ calls' = [calls EXCEPT ![i] = Lost(calls[i])]
  /\ UNCHANGED <<cred, store, tab, refresh, asked, rotated>>

(* POST /auth/refresh, its SELECTs: a token that is unknown, revoked or     *)
(* expired is refused, as is that of an account that is closed.             *)
RefreshRead(t) ==
  LET f == refresh[t] IN
  /\ f.phase = "sent"
  /\ \E expired \in BOOLEAN :
       refresh' = [refresh EXCEPT ![t].phase =
                     IF RefreshAdmits(f.n) /\ ~expired THEN "read" ELSE "refused"]
  /\ UNCHANGED <<cred, store, tab, calls, asked, rotated>>

(* Its writes and its commit.                                               *)
RefreshCommit(t) ==
  LET f == refresh[t] IN
  /\ f.phase = "read" /\ RefreshWrite(f.n)
  /\ refresh' = [refresh EXCEPT ![t] = [phase |-> "ok", n |-> issued', ver |-> account.ver]]
  /\ rotated' = rotated \cup {<<t, f.n>>}
  /\ UNCHANGED <<store, tab, calls, asked>>

(* The network or the server fails before the commit, or the answer is lost *)
(* after it.                                                                *)
RefreshLost(t) ==
  /\ refresh[t].phase \in {"sent", "read", "ok"}
  /\ refresh' = [refresh EXCEPT ![t].phase = "refused"]
  /\ UNCHANGED <<cred, store, tab, calls, asked, rotated>>

(* tokenStore.updateUser followed by the action auth/userUpdated: each only *)
(* where there is a session.                                                *)
WithUser(s, ver) == IF s.n = 0 THEN s ELSE [s EXCEPT !.ver = ver]

(* authReducer on app/reset.                                                *)
ResetTab == [session |-> NoSession, boot |-> "done", busy |-> FALSE]

(* fetchRawInternal: a 401 that is no answer yet, because the request was   *)
(* sent with auth and not retried.                                          *)
Unauthorized(c) == c.phase = "unauth" /\ c.op \in AuthedOps /\ ~c.retried

NoRefresh == [phase |-> "idle", n |-> 0, ver |-> FALSE]

(* Mutant: every 401 starts a refresh of its own.                           *)
RefreshSessionAlways(i) ==
  LET t == calls[i].tab IN
  /\ Unauthorized(calls[i]) /\ store.n # 0
  /\ calls' = [calls EXCEPT ![i].phase = "waiting"]
  /\ refresh' = [refresh EXCEPT ![t] = [phase |-> "sent", n |-> store.n, ver |-> FALSE]]
  /\ UNCHANGED <<cred, store, tab, asked, rotated>>

(* refreshSession where the store holds a refresh token: the request waits  *)
(* for the refresh under way, or for one that it starts with that token.    *)
(* (Where there is none the session expires: NothingToRefresh of the pages  *)
(* that do so.)                                                             *)
RefreshSession(i) ==
  LET t == calls[i].tab IN
  /\ Unauthorized(calls[i]) /\ store.n # 0
  /\ calls' = [calls EXCEPT ![i].phase = "waiting"]
  /\ refresh' = IF refresh[t].phase # "idle" THEN refresh
                ELSE [refresh EXCEPT ![t] = [phase |-> "sent", n |-> store.n, ver |-> FALSE]]
  /\ UNCHANGED <<cred, store, tab, asked, rotated>>

(* refreshPromise fulfilled: it is cleared, every waiting request saves the *)
(* session, whatever the store holds by now, and is sent again, once.       *)
Refreshed(t) ==
  LET f == refresh[t] IN
  /\ f.phase = "ok"
  /\ store' = [n |-> f.n, ver |-> f.ver]
  /\ calls' = [i \in DOMAIN calls |->
                 IF i \in Waiting(t)
                   THEN [calls[i] EXCEPT !.phase = "sent", !.n = f.n, !.retried = TRUE]
                   ELSE calls[i]]
  /\ refresh' = [refresh EXCEPT ![t] = NoRefresh]
  /\ UNCHANGED <<cred, tab, asked, rotated>>
=============================================================================
