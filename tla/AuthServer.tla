----------------------------- MODULE AuthServer -----------------------------
(***************************************************************************)
(* The credentials of one account (app/services/auth): its access tokens,  *)
(* its refresh tokens and the one-time links that it is mailed.            *)
(*                                                                         *)
(* A pair of an access and a refresh token is the number of its issue.     *)
(* Each operator below is one endpoint; r is its answer: "ok", "refused"   *)
(* (4xx other than 401, the rate limits included) or "unauth" (401).       *)
(* Only POST /auth/refresh is two steps, because refresh_tokens reads the  *)
(* row of the token without a lock and writes it later.                    *)
(*                                                                         *)
(* Time does not pass here: whatever has a TTL may have expired whenever   *)
(* it is used, so a request with an access token may always be answered    *)
(* 401, and a token or a link may always be refused.                       *)
(***************************************************************************)
EXTENDS Naturals

VARIABLES
  issued,   \* number of pairs issued so far
  live,     \* refresh tokens that are not revoked
  account,  \* the users row: exists, ver (email_verified), active
  link      \* newest auth token per purpose: "none", "active" or "gone"

cred == <<issued, live, account, link>>

Purposes == {"verification", "reset", "deletion"}

CredTypes ==
  /\ issued \in Nat
  /\ live \subseteq 1..issued
  /\ account \in [exists : BOOLEAN, ver : BOOLEAN, active : BOOLEAN]
  /\ link \in [Purposes -> {"none", "active", "gone"}]

Usable == account.exists /\ account.active

(* issue_tokens: a new pair beside the ones in "kept".                      *)
IssueTokens(kept) ==
  /\ issued' = issued + 1
  /\ live' = kept \cup {issued + 1}

(* revoke_active_tokens, for the purposes in "links".                       *)
Revoke(links) == [p \in Purposes |->
                    IF p \in links /\ link[p] = "active" THEN "gone" ELSE link[p]]

(* register_user and register_with_verification: a name or an address that  *)
(* is taken is a 409; a new account is mailed its first link.               *)
RegisterUser(r) ==
  \/ /\ r = "refused" /\ UNCHANGED cred
  \/ /\ r = "ok" /\ ~account.exists
     /\ account' = [exists |-> TRUE, ver |-> FALSE, active |-> TRUE]
     /\ link' = [link EXCEPT !["verification"] = "active"]
     /\ IssueTokens(live)

(* login_user.                                                              *)
LoginUser(r) ==
  \/ r = "unauth" /\ UNCHANGED cred
  \/ r = "ok" /\ Usable /\ IssueTokens(live) /\ UNCHANGED <<account, link>>

(* logout: an unknown or a revoked token is no error.                       *)
LogoutToken(n, r) ==
  /\ r = "ok" /\ live' = live \ {n}
  /\ UNCHANGED <<issued, account, link>>

(* get_current_user: a request without a token is a 401.                    *)
Authorized(n) == n # 0 /\ Usable

(* GET and PATCH /auth/me, the avatar endpoints: nothing of the credentials *)
(* changes.                                                                 *)
Plain(r) == r \in {"ok", "refused"} /\ UNCHANGED cred

(* issue_auth_token: the older link of the same purpose is revoked.         *)
IssueLink(p) == link' = [link EXCEPT ![p] = "active"]

(* resend_verification_email: nothing is sent to a verified account.        *)
ResendVerification(r) ==
  \/ Plain(r) /\ (r = "ok" => account.ver)
  \/ r = "ok" /\ ~account.ver /\ IssueLink("verification")
     /\ UNCHANGED <<issued, live, account>>

(* request_password_reset: the same answer whether the account exists or    *)
(* not.                                                                     *)
RequestPasswordReset(r) ==
  \/ Plain(r) /\ (r = "ok" => ~Usable)
  \/ r = "ok" /\ Usable /\ IssueLink("reset")
     /\ UNCHANGED <<issued, live, account>>

(* request_account_deletion: a wrong password or a cooldown refuses it.     *)
RequestAccountDeletion(r) ==
  \/ r = "refused" /\ UNCHANGED cred
  \/ r = "ok" /\ IssueLink("deletion") /\ UNCHANGED <<issued, live, account>>

(* consume_auth_token: one conditional UPDATE.                              *)
Consume(p, others) ==
  /\ link[p] = "active"
  /\ link' = [Revoke(others) EXCEPT ![p] = "gone"]

(* verify_email.                                                            *)
VerifyEmail(r) ==
  \/ r = "refused" /\ UNCHANGED cred
  \/ /\ r = "ok" /\ Consume("verification", {})
     /\ account' = [account EXCEPT !.ver = TRUE]
     /\ UNCHANGED <<issued, live>>

(* reset_password and _revoke_credentials_after_password_change.  The link  *)
(* came to the account's own address, so it verifies it.                    *)
ResetPassword(r) ==
  \/ r = "refused" /\ UNCHANGED cred
  \/ /\ r = "ok" /\ Usable /\ Consume("reset", {"deletion"})
     /\ account' = [account EXCEPT !.ver = TRUE]
     /\ live' = {}
     /\ UNCHANGED issued

(* change_password.                                                         *)
ChangePassword(r) ==
  \/ r = "refused" /\ UNCHANGED cred
  \/ /\ r = "ok" /\ live' = {} /\ link' = Revoke({"reset", "deletion"})
     /\ UNCHANGED <<issued, account>>

(* confirm_account_deletion.                                                *)
ConfirmAccountDeletion(r) ==
  \/ r = "refused" /\ UNCHANGED cred
  \/ /\ r = "ok" /\ Consume("deletion", Purposes)
     /\ account' = [account EXCEPT !.active = FALSE]
     /\ live' = {}
     /\ UNCHANGED issued

(* refresh_tokens, up to its checks: SELECT of the token and of the user.   *)
RefreshAdmits(n) == n \in live /\ Usable

(* refresh_tokens, the writes: revoked_at of the presented token by primary *)
(* key, whatever has become of the row since, and a new pair.               *)
RefreshWrite(n) == IssueTokens(live \ {n}) /\ UNCHANGED <<account, link>>
=============================================================================
