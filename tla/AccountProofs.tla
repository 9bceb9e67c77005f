--------------------------- MODULE AccountProofs ----------------------------
(***************************************************************************)
(* Proofs about AccountPages, for every set of tabs and every bound.       *)
(*                                                                         *)
(* TabsTrue follows from AccountInv, which has two halves.                 *)
(*                                                                         *)
(* Screens: what the screen of each tab shows against the requests it has  *)
(* made.  A spinner matches the requests behind it only because a screen   *)
(* makes its own requests alone (RoutePart), AuthGate lets nothing start   *)
(* before the start-up has answered (BootPart), and a screen that is not   *)
(* mounted has no spinner on (QuietPart).                                  *)
(*                                                                         *)
(* Tokens: a tab never presents a token that it has rotated because a pair *)
(* that the server has granted is known to nobody until it is saved        *)
(* (Unspent), and no tab has rotated the pair in the store unless its own  *)
(* refresh was granted or lost and is about to end, which puts another     *)
(* pair or none into the store (TokenInv).  Only a request that waits keeps*)
(* a refresh going (WaitInv).                                              *)
(***************************************************************************)
EXTENDS AccountPages, FiniteSetTheorems, TLAPS

(* The requests that each route's screens make, beside the one of the       *)
(* start-up.                                                                *)
RouteOps(r) ==
  IF r = "gate" THEN {"bootMe", "login", "register", "requestReset", "logout", "profile", "resend",
                      "bannerSend", "changePassword", "requestDeletion"} \cup AvatarOps
  ELSE IF r = "verify" THEN {"bootMe", "verify", "pageMe", "pageResend"}
  ELSE IF r = "reset" THEN {"bootMe", "reset"} ELSE {"bootMe", "confirm"}

Mine(cs, t) == {i \in DOMAIN cs : cs[i].tab = t}
InShell(b, u) == u.route = "gate" /\ b.boot = "done" /\ b.session.n # 0
InForm(b, u) == u.route = "gate" /\ b.boot = "done" /\ b.session.n = 0

(* A screen makes only its own requests, and a page that a link opened is   *)
(* never unmounted.                                                         *)
RoutePart(t, u, cs) ==
  \A i \in Mine(cs, t) : cs[i].op \in RouteOps(u.route) /\ (u.route # "gate" => cs[i].att = "yes")

(* While AuthGate waits for the start-up, its request is the only one.      *)
BootPart(t, b, u, cs) ==
  u.route = "gate" =>
    /\ b.boot = "new" => Mine(cs, t) = {}
    /\ b.boot # "done" => \A i, j \in Mine(cs, t) : i = j /\ cs[i].op = "bootMe"
    /\ b.boot = "done" => \A i \in Mine(cs, t) : cs[i].op # "bootMe"

(* What a screen that is not mounted leaves behind.                         *)
QuietPart(b, u) ==
  /\ ~InShell(b, u) => u.panel = "closed" /\ u.banner # "sending"
  /\ ~InForm(b, u) => ~u.resetBusy /\ ~b.busy
  /\ u.panel # "account" => u.crop = "none" /\ ~u.submitting /\ ~u.sending
  /\ u.route = "gate" => u.page = "form" /\ ~u.resending
  /\ u.route = "reset" => u.page # "calling"

(* A spinner and its request, without counting.                             *)
Matches(S, b) == (b => \E i : S = {i}) /\ (~b => S = {})
SpinPart(t, b, u, cs) ==
  /\ Matches(Shown(cs, t, CardOps(u)), u.submitting)
  /\ Matches(Shown(cs, t, {"resend"}), u.sending)
  /\ Matches(Shown(cs, t, {"bannerSend"}), u.banner = "sending")
  /\ Matches(Shown(cs, t, {"pageResend"}), u.resending)
  /\ Matches(Shown(cs, t, AvatarOps), u.crop = "busy")
  /\ Matches(Shown(cs, t, {"requestReset"}), u.resetBusy)
  /\ Matches(Shown(cs, t, {"verify", "pageMe", "confirm"}), u.page = "calling")
  /\ b.busy => Shown(cs, t, {"login", "register"}) # {}
  /\ u.panel \in {"closed", "menu"} => Shown(cs, t, {"logout"}) = {}

ScreenOK(t, b, u, cs) ==
  RoutePart(t, u, cs) /\ BootPart(t, b, u, cs) /\ QuietPart(b, u) /\ SpinPart(t, b, u, cs)

(* A refresh under way has a request that waits for it.                     *)
WaitInv ==
  /\ \A i \in DOMAIN calls : calls[i].phase = "waiting" => calls[i].op \in AuthedOps
  /\ \A t \in Tabs : refresh[t].phase # "idle" => Waiting(t) # {}

(* A pair that has been granted and not saved yet is known to nobody else.  *)
Unspent(n) ==
  /\ n # 0 /\ n # store.n
  /\ \A s \in Tabs : <<s, n>> \notin rotated
  /\ \A s \in Tabs : refresh[s].phase \in {"sent", "read"} => refresh[s].n # n
Granted(i) == calls[i].phase = "ok" /\ calls[i].op \in PairOps
TokenInv ==
  /\ \A t \in Tabs :
       /\ refresh[t].phase \in {"idle", "sent", "read"} => <<t, store.n>> \notin rotated
       /\ refresh[t].phase \in {"sent", "read"} => refresh[t].n # 0 /\ <<t, refresh[t].n>> \notin rotated
       /\ refresh[t].phase = "ok" => Unspent(refresh[t].n)
  /\ \A s, t \in Tabs :
       refresh[s].phase = "ok" /\ refresh[t].phase = "ok" /\ refresh[s].n = refresh[t].n => s = t
  /\ \A i \in DOMAIN calls : Granted(i) =>
       /\ Unspent(calls[i].n)
       /\ \A t \in Tabs : refresh[t].phase = "ok" => refresh[t].n # calls[i].n
       /\ \A j \in DOMAIN calls : Granted(j) /\ calls[j].n = calls[i].n => i = j

Screens == \A t \in Tabs : ScreenOK(t, tab[t], ui[t], calls)
AccountInv == TypeOK /\ WaitInv /\ TokenInv /\ Screens
-----------------------------------------------------------------------------
(* What is shown of a screen's requests.                                    *)

(* ScreenOK tells nothing of the requests of another tab.                   *)
LEMMA SameScreen ==
  ASSUME NEW t, NEW b, NEW u, NEW cs, NEW ds, ScreenOK(t, b, u, cs),
         \A i : i \in Mine(cs, t) <=> i \in Mine(ds, t),
         \A i \in Mine(cs, t) : cs[i].op = ds[i].op /\ cs[i].att = ds[i].att
  PROVE  ScreenOK(t, b, u, ds)
<1>1. Mine(cs, t) = Mine(ds, t)
  OBVIOUS
<1>2. ASSUME NEW ops PROVE Shown(cs, t, ops) = Shown(ds, t, ops)
  BY DEF Shown, Mine
<1>3. RoutePart(t, u, ds) /\ BootPart(t, b, u, ds)
  BY <1>1 DEF ScreenOK, RoutePart, BootPart
<1>4. SpinPart(t, b, u, ds)
  BY <1>2 DEF ScreenOK, SpinPart
<1> QED BY <1>3, <1>4 DEF ScreenOK

(* Requests that settle are gone, and the others are what they were.        *)
LEMMA SettledShows ==
  ASSUME NEW I
  PROVE  /\ DOMAIN Settled(I) = DOMAIN calls \ I
         /\ \A i \in DOMAIN calls \ I : Settled(I)[i] = calls[i]
         /\ \A t : Mine(Settled(I), t) = Mine(calls, t) \ I
         /\ \A t, ops : Shown(Settled(I), t, ops) = Shown(calls, t, ops) \ I
<1>1. /\ DOMAIN Settled(I) = DOMAIN calls \ I
      /\ \A i \in DOMAIN calls \ I : Settled(I)[i] = calls[i]
  BY DEF Settled, Restrict
<1> QED BY <1>1 DEF Mine, Shown

(* A spinner's request that settles takes the spinner with it.              *)
LEMMA MatchesRemove ==
  ASSUME NEW S, NEW I, NEW b, NEW c, Matches(S, b),
         S \cap I # {} => ~c, S \cap I = {} => (c <=> b)
  PROVE  Matches(S \ I, c)
<1>1. CASE S \cap I = {}
  <2>1. S \ I = S BY <1>1
  <2>2. c <=> b BY <1>1
  <2> QED BY <2>1, <2>2 DEF Matches
<1>2. CASE S \cap I # {}
  <2>1. b /\ ~c BY <1>2 DEF Matches
  <2>2. PICK i : S = {i} BY <2>1 DEF Matches
  <2>3. S \ I = {} BY <1>2, <2>2
  <2> QED BY <2>1, <2>3 DEF Matches
<1> QED BY <1>1, <1>2

(* A number is free as long as the requests are finitely many.              *)
LEMMA UnusedIsFree ==
  ASSUME IsFiniteSet(DOMAIN calls)
  PROVE  Unused \in Nat /\ Unused \notin DOMAIN calls
<1> DEFINE c == Cardinality(DOMAIN calls)
<1>1. c \in Nat BY FS_CardinalityType
<1>2. IsFiniteSet(1..(c + 1)) /\ Cardinality(1..(c + 1)) = c + 1
  BY <1>1, FS_Interval
<1>3. ~(1..(c + 1) \subseteq DOMAIN calls)
  <2>1. SUFFICES ASSUME 1..(c + 1) \subseteq DOMAIN calls PROVE FALSE
    OBVIOUS
  <2>2. c + 1 <= c BY <2>1, <1>2, FS_Subset
  <2> QED BY <1>1, <2>2
<1>4. PICK i \in 1..(c + 1) : i \notin DOMAIN calls
  BY <1>3
<1>5. Unused \in 1..(c + 1) /\ Unused \notin DOMAIN calls
  BY <1>4 DEF Unused
<1> QED BY <1>1, <1>5

(* A new request is one more of its tab.                                    *)
LEMMA RequestShows ==
  ASSUME TypeOK, NEW t \in Tabs, NEW op, Request(t, op)
  PROVE  /\ Unused \in Nat \ DOMAIN calls
         /\ DOMAIN calls' = DOMAIN calls \cup {Unused}
         /\ calls'[Unused] = NewCall(t, op)
         /\ \A i \in DOMAIN calls : calls'[i] = calls[i]
         /\ Mine(calls', t) = Mine(calls, t) \cup {Unused}
         /\ \A s : s # t => Mine(calls', s) = Mine(calls, s)
         /\ \A ops : Shown(calls', t, ops) =
              IF op \in ops THEN Shown(calls, t, ops) \cup {Unused} ELSE Shown(calls, t, ops)
<1>1. Unused \in Nat \ DOMAIN calls
  BY UnusedIsFree DEF TypeOK, SessionTypes
<1>2. /\ DOMAIN calls' = DOMAIN calls \cup {Unused}
      /\ calls'[Unused] = NewCall(t, op)
      /\ \A i \in DOMAIN calls : calls'[i] = calls[i]
  BY <1>1 DEF Request
<1>3. NewCall(t, op).tab = t /\ NewCall(t, op).op = op /\ NewCall(t, op).att = "yes"
  BY DEF NewCall
<1>4. /\ Mine(calls', t) = Mine(calls, t) \cup {Unused}
      /\ \A s : s # t => Mine(calls', s) = Mine(calls, s)
  BY <1>1, <1>2, <1>3 DEF Mine
<1>5. ASSUME NEW ops
      PROVE  Shown(calls', t, ops) =
              IF op \in ops THEN Shown(calls, t, ops) \cup {Unused} ELSE Shown(calls, t, ops)
  BY <1>1, <1>2, <1>3 DEF Shown
<1> QED BY <1>1, <1>2, <1>4, <1>5
-----------------------------------------------------------------------------
(* Continuations                                                            *)

(* AuthGate mounts another screen.                                          *)
Swaps(t, tb, u) ==
  u.route = "gate" /\ <<tb.boot, tb.session.n = 0>> # <<tab[t].boot, ~LoggedIn(t)>>

(* A screen that was just mounted has no request.                           *)
LEMMA ContinueScreens ==
  ASSUME TypeOK, Screens, NEW t \in Tabs, NEW s, NEW tb, NEW u \in Screen, NEW cs,
         \A i \in DOMAIN cs : cs[i] \in Call,
         Continue(t, s, tb, u, cs), u.route = ui[t].route,
         \A r \in Tabs : r # t =>
            /\ Mine(cs, r) = Mine(calls, r)
            /\ \A i \in Mine(cs, r) : cs[i].op = calls[i].op /\ cs[i].att = calls[i].att,
         Swaps(t, tb, u) => /\ tb.boot = "done" /\ ~tb.busy
                            /\ \A i \in Mine(cs, t) : cs[i].op \in RouteOps("gate") \ {"bootMe"},
         ~Swaps(t, tb, u) => ScreenOK(t, tb, u, cs)
  PROVE  Screens'
<1>1. tab' = [tab EXCEPT ![t] = tb]
  BY DEF Continue
<1>2. tab'[t] = tb /\ \A r \in Tabs : r # t => tab'[r] = tab[r]
  BY <1>1 DEF TypeOK, SessionTypes
<1>3. CASE ~Swaps(t, tb, u)
  <2>1. ui' = [ui EXCEPT ![t] = u] /\ calls' = cs
    BY <1>3 DEF Continue, Swaps
  <2>2. ui'[t] = u /\ \A r \in Tabs : r # t => ui'[r] = ui[r]
    BY <2>1 DEF TypeOK
  <2>3. ASSUME NEW r \in Tabs, r # t PROVE ScreenOK(r, tab[r], ui[r], cs)
    BY <2>3, SameScreen DEF Screens
  <2> QED BY <1>2, <1>3, <2>1, <2>2, <2>3 DEF Screens
<1>4. CASE Swaps(t, tb, u)
  <2>1. /\ ui' = [ui EXCEPT ![t] = NewUi("gate", "form")]
        /\ calls' = [i \in DOMAIN cs |-> IF cs[i].tab = t THEN [cs[i] EXCEPT !.att = "no"] ELSE cs[i]]
    BY <1>4 DEF Continue, Swaps
  <2>2. ui'[t] = NewUi("gate", "form") /\ \A r \in Tabs : r # t => ui'[r] = ui[r]
    BY <2>1 DEF TypeOK
  <2>3. /\ DOMAIN calls' = DOMAIN cs
        /\ \A i \in DOMAIN cs : /\ calls'[i].tab = cs[i].tab /\ calls'[i].op = cs[i].op
                                /\ cs[i].tab = t => calls'[i].att = "no"
                                /\ cs[i].tab # t => calls'[i] = cs[i]
    BY <2>1 DEF Call
  <2>4. /\ \A r : Mine(calls', r) = Mine(cs, r)
        /\ \A ops : Shown(calls', t, ops) = {}
    BY <2>3 DEF Mine, Shown
  <2>5. ASSUME NEW r \in Tabs, r # t PROVE ScreenOK(r, tab[r], ui[r], calls')
    <3>1. Mine(calls', r) = Mine(calls, r)
      BY <2>4, <2>5
    <3>2. \A i \in Mine(calls, r) : calls'[i].op = calls[i].op /\ calls'[i].att = calls[i].att
      BY <2>3, <2>4, <2>5, <3>1 DEF Mine
    <3> QED BY <3>1, <3>2, SameScreen DEF Screens
  <2>6. ScreenOK(t, tb, NewUi("gate", "form"), calls')
    <3> DEFINE v == NewUi("gate", "form")
    <3>1. RoutePart(t, v, calls') /\ BootPart(t, tb, v, calls')
      BY <1>4, <2>3, <2>4 DEF RoutePart, BootPart, NewUi, Mine
    <3>2. QuietPart(tb, v)
      BY <1>4 DEF QuietPart, NewUi
    <3>3. SpinPart(t, tb, v, calls')
      BY <1>4, <2>4 DEF SpinPart, Matches, NewUi
    <3> QED BY <3>1, <3>2, <3>3 DEF ScreenOK
  <2> QED BY <1>2, <2>2, <2>5, <2>6 DEF Screens
<1> QED BY <1>3, <1>4

(* The requests in I settle.                                                *)
LEMMA SettleScreens ==
  ASSUME TypeOK, Screens, NEW t \in Tabs, NEW I, I \subseteq Mine(calls, t),
         NEW s, NEW tb, NEW u \in Screen, Continue(t, s, tb, u, Settled(I)),
         u.route = ui[t].route,
         u.route = "gate" =>
           \/ tb.boot = "done" /\ (tab[t].boot = "done" \/ Mine(calls, t) \subseteq I)
           \/ tb.boot = tab[t].boot /\ (tb.session.n = 0 <=> tab[t].session.n = 0),
         Swaps(t, tb, u) => ~tb.busy,
         ~Swaps(t, tb, u) => QuietPart(tb, u) /\ SpinPart(t, tb, u, Settled(I))
  PROVE  Screens'
<1> DEFINE cs == Settled(I)
<1>1. /\ DOMAIN cs = DOMAIN calls \ I
      /\ \A i \in DOMAIN calls \ I : cs[i] = calls[i]
      /\ \A r : Mine(cs, r) = Mine(calls, r) \ I
  BY SettledShows
<1>2. \A i \in DOMAIN cs : cs[i] \in Call
  BY <1>1 DEF TypeOK, SessionTypes
<1>3. \A r \in Tabs : r # t =>
        /\ Mine(cs, r) = Mine(calls, r)
        /\ \A i \in Mine(cs, r) : cs[i].op = calls[i].op /\ cs[i].att = calls[i].att
  BY <1>1 DEF Mine
<1>4. RoutePart(t, ui[t], calls) /\ BootPart(t, tab[t], ui[t], calls)
  BY DEF Screens, ScreenOK
<1>5. \A i \in Mine(cs, t) : i \in Mine(calls, t) /\ cs[i] = calls[i]
  BY <1>1 DEF Mine
<1>6. RoutePart(t, u, cs)
  BY <1>4, <1>5 DEF RoutePart
<1>7. ASSUME Swaps(t, tb, u)
      PROVE  tb.boot = "done" /\ \A i \in Mine(cs, t) : cs[i].op \in RouteOps("gate") \ {"bootMe"}
  <2>1. tb.boot = "done" /\ (tab[t].boot = "done" \/ Mine(calls, t) \subseteq I)
    BY <1>7 DEF Swaps, LoggedIn
  <2>2. \A i \in Mine(cs, t) : cs[i].op # "bootMe"
    BY <1>1, <1>4, <1>5, <1>7, <2>1 DEF Swaps, BootPart
  <2> QED BY <1>6, <1>7, <2>1, <2>2 DEF RoutePart, Swaps
<1>8. ASSUME ~Swaps(t, tb, u) PROVE BootPart(t, tb, u, cs)
  <2>1. u.route = "gate" => tb.boot = tab[t].boot
    BY <1>8 DEF Swaps
  <2> QED BY <1>1, <1>4, <1>5, <2>1 DEF BootPart
<1> QED BY <1>2, <1>3, <1>6, <1>7, <1>8, ContinueScreens DEF ScreenOK

(* The operations whose error a screen shows.                               *)
LEMMA AttachedShown ==
  ASSUME NEW t \in Tabs, NEW I, I \subseteq Mine(calls, t), NEW ops
  PROVE  Shown(calls, t, ops) \cap I # {} <=> Attached(I) \cap ops # {}
BY DEF Attached, Shown, Mine

(* What becomes of a spinner when requests of the operations S settle.      *)
Ends(S, ops, b, c) == (S \cap ops # {} => ~c) /\ (S \cap ops = {} => (c <=> b))

(* The same for the requests of a tab that settle together.                 *)
LEMMA EndsMatch ==
  ASSUME NEW t \in Tabs, NEW I, I \subseteq Mine(calls, t), NEW ops, NEW b, NEW c,
         Matches(Shown(calls, t, ops), b), Ends(Attached(I), ops, b, c)
  PROVE  Matches(Shown(Settled(I), t, ops), c)
<1>1. \A r, o : Shown(Settled(I), r, o) = Shown(calls, r, o) \ I
  BY SettledShows
<1>2. Matches(Shown(calls, t, ops) \ I, c)
  BY AttachedShown, MatchesRemove DEF Ends
<1> QED BY <1>1, <1>2

(* Every request is behind the spinner of its own operation.                *)
LEMMA SettleSpin ==
  ASSUME Screens, NEW t \in Tabs, NEW I, I \subseteq Mine(calls, t), NEW tb, NEW v,
         LET S == Attached(I)
             u == ui[t]
         IN /\ v.panel = u.panel
            /\ Ends(S, CardOps(u), u.submitting, v.submitting)
            /\ Ends(S, {"resend"}, u.sending, v.sending)
            /\ Ends(S, {"bannerSend"}, u.banner = "sending", v.banner = "sending")
            /\ Ends(S, {"pageResend"}, u.resending, v.resending)
            /\ Ends(S, AvatarOps, u.crop = "busy", v.crop = "busy")
            /\ Ends(S, {"requestReset"}, u.resetBusy, v.resetBusy)
            /\ Ends(S, {"verify", "pageMe", "confirm"}, u.page = "calling", v.page = "calling"),
         tb.busy => Shown(Settled(I), t, {"login", "register"}) # {}
  PROVE  SpinPart(t, tb, v, Settled(I))
<1> DEFINE u == ui[t]
           b1 == u.submitting
           b2 == u.sending
           b3 == u.banner = "sending"
           b4 == u.resending
           b5 == u.crop = "busy"
           b6 == u.resetBusy
           b7 == u.page = "calling"
           c1 == v.submitting
           c2 == v.sending
           c3 == v.banner = "sending"
           c4 == v.resending
           c5 == v.crop = "busy"
           c6 == v.resetBusy
           c7 == v.page = "calling"
           S == Attached(I)
           page == {"verify", "pageMe", "confirm"}
<1>1. SpinPart(t, tab[t], u, calls) BY DEF Screens, ScreenOK
<1>2. /\ Matches(Shown(calls, t, CardOps(u)), b1)
      /\ Matches(Shown(calls, t, {"resend"}), b2)
      /\ Matches(Shown(calls, t, {"bannerSend"}), b3)
      /\ Matches(Shown(calls, t, {"pageResend"}), b4)
      /\ Matches(Shown(calls, t, AvatarOps), b5)
      /\ Matches(Shown(calls, t, {"requestReset"}), b6)
      /\ Matches(Shown(calls, t, page), b7)
  BY <1>1 DEF SpinPart
<1>3. /\ Ends(S, CardOps(u), b1, c1)
      /\ Ends(S, {"resend"}, b2, c2)
      /\ Ends(S, {"bannerSend"}, b3, c3)
      /\ Ends(S, {"pageResend"}, b4, c4)
      /\ Ends(S, AvatarOps, b5, c5)
      /\ Ends(S, {"requestReset"}, b6, c6)
      /\ Ends(S, page, b7, c7)
  OBVIOUS
<1>4. /\ CardOps(v) = CardOps(u)
      /\ v.panel \in {"closed", "menu"} => Shown(Settled(I), t, {"logout"}) = {}
  <2>1. \A r, o : Shown(Settled(I), r, o) = Shown(calls, r, o) \ I
    BY SettledShows
  <2>2. v.panel \in {"closed", "menu"} => Shown(calls, t, {"logout"}) = {}
    BY <1>1 DEF SpinPart
  <2> QED BY <2>1, <2>2 DEF CardOps
<1> HIDE DEF b1, b2, b3, b4, b5, b6, b7, c1, c2, c3, c4, c5, c6, c7, S, page, u
<1>5. /\ Matches(Shown(Settled(I), t, CardOps(u)), c1)
      /\ Matches(Shown(Settled(I), t, {"resend"}), c2)
      /\ Matches(Shown(Settled(I), t, {"bannerSend"}), c3)
      /\ Matches(Shown(Settled(I), t, {"pageResend"}), c4)
      /\ Matches(Shown(Settled(I), t, AvatarOps), c5)
      /\ Matches(Shown(Settled(I), t, {"requestReset"}), c6)
      /\ Matches(Shown(Settled(I), t, page), c7)
  BY <1>2, <1>3, EndsMatch DEF S
<1>6. Matches(Shown(Settled(I), t, CardOps(v)), v.submitting)
  BY <1>4, <1>5 DEF c1
<1>7. /\ Matches(Shown(Settled(I), t, {"resend"}), v.sending)
      /\ Matches(Shown(Settled(I), t, {"pageResend"}), v.resending)
      /\ Matches(Shown(Settled(I), t, {"requestReset"}), v.resetBusy)
  BY <1>5 DEF c2, c4, c6
<1>8. Matches(Shown(Settled(I), t, {"bannerSend"}), v.banner = "sending")
  BY <1>5 DEF c3
<1>9. Matches(Shown(Settled(I), t, AvatarOps), v.crop = "busy")
  BY <1>5 DEF c5
<1>10. Matches(Shown(Settled(I), t, {"verify", "pageMe", "confirm"}), v.page = "calling")
  BY <1>5 DEF c7, page
<1> QED BY <1>4, <1>6, <1>7, <1>8, <1>9, <1>10 DEF SpinPart

(* The operations that fail are those whose spinners FailUi stops.          *)
LEMMA FailSpin ==
  ASSUME TypeOK, Screens, NEW t \in Tabs, NEW I, I \subseteq Mine(calls, t),
         Attached(I) \cap {"logout", "verify"} = {}, NEW tb,
         tb.busy => Shown(Settled(I), t, {"login", "register"}) # {}
  PROVE  SpinPart(t, tb, FailUi(Attached(I), ui[t]), Settled(I))
<1> DEFINE S == Attached(I)
           u == ui[t]
           v == FailUi(S, u)
<1>1. u \in Screen BY DEF TypeOK
<1>2. RoutePart(t, u, calls) /\ QuietPart(tab[t], u)
  BY DEF Screens, ScreenOK
<1>3. /\ v.panel = u.panel
      /\ v.submitting = (u.submitting /\ S \cap {"profile", "changePassword", "requestDeletion"} = {})
      /\ v.sending = (u.sending /\ "resend" \notin S)
      /\ v.resending = (u.resending /\ "pageResend" \notin S)
      /\ v.resetBusy = (u.resetBusy /\ "requestReset" \notin S)
      /\ v.banner = IF "bannerSend" \in S THEN "ready" ELSE u.banner
      /\ v.crop = IF S \cap AvatarOps # {} THEN "open" ELSE u.crop
      /\ v.page = IF "reset" \in S THEN "form" ELSE IF "confirm" \in S THEN "error"
                  ELSE IF "pageMe" \in S THEN IF u.vok THEN "success" ELSE "error" ELSE u.page
  BY <1>1 DEF FailUi, Screen
<1>4. "reset" \in S => u.page # "calling"
  <2>1. SUFFICES ASSUME "reset" \in S PROVE u.page # "calling"
    OBVIOUS
  <2>2. PICK i \in Mine(calls, t) : calls[i].op = "reset" BY <2>1 DEF Attached
  <2>3. u.route = "reset" BY <1>2, <2>2 DEF RoutePart, RouteOps, AvatarOps
  <2> QED BY <1>2, <2>3 DEF QuietPart
<1>5. S \cap {"logout", "verify"} = {} OBVIOUS
<1> HIDE DEF v, S
<1>6. Ends(S, CardOps(u), u.submitting, v.submitting)
  BY <1>3, <1>5 DEF Ends, CardOps
<1>7. /\ Ends(S, {"resend"}, u.sending, v.sending)
      /\ Ends(S, {"bannerSend"}, u.banner = "sending", v.banner = "sending")
      /\ Ends(S, {"pageResend"}, u.resending, v.resending)
      /\ Ends(S, AvatarOps, u.crop = "busy", v.crop = "busy")
      /\ Ends(S, {"requestReset"}, u.resetBusy, v.resetBusy)
  BY <1>3 DEF Ends
<1>8. Ends(S, {"verify", "pageMe", "confirm"}, u.page = "calling", v.page = "calling")
  BY <1>3, <1>4, <1>5 DEF Ends
<1> QED BY <1>3, <1>6, <1>7, <1>8, SettleSpin DEF S, v

(* A step of one tab that AuthGate has no part in.                          *)
LEMMA LocalScreens ==
  ASSUME TypeOK, Screens, NEW t \in Tabs, NEW tb, NEW u,
         tab' = [tab EXCEPT ![t] = tb], ui' = [ui EXCEPT ![t] = u],
         \A r \in Tabs : r # t =>
            /\ Mine(calls', r) = Mine(calls, r)
            /\ \A i \in Mine(calls, r) : calls'[i].op = calls[i].op /\ calls'[i].att = calls[i].att,
         ScreenOK(t, tb, u, calls')
  PROVE  Screens'
<1>1. tab'[t] = tb /\ \A r \in Tabs : r # t => tab'[r] = tab[r]
  BY DEF TypeOK, SessionTypes
<1>2. ui'[t] = u /\ \A r \in Tabs : r # t => ui'[r] = ui[r]
  BY DEF TypeOK
<1>3. ASSUME NEW r \in Tabs, r # t PROVE ScreenOK(r, tab[r], ui[r], calls')
  BY <1>3, SameScreen DEF Screens
<1> QED BY <1>1, <1>2, <1>3 DEF Screens

(* What a screen shows does not depend on how far its requests are.         *)
LEMMA PhaseScreens ==
  ASSUME Screens, UNCHANGED <<tab, ui>>, DOMAIN calls' = DOMAIN calls,
         \A i \in DOMAIN calls : /\ calls'[i].tab = calls[i].tab
                                 /\ calls'[i].op = calls[i].op /\ calls'[i].att = calls[i].att
  PROVE  Screens'
<1>1. ASSUME NEW t \in Tabs PROVE ScreenOK(t, tab[t], ui[t], calls')
  <2>1. Mine(calls', t) = Mine(calls, t) BY DEF Mine
  <2>2. \A i \in Mine(calls, t) : calls'[i].op = calls[i].op /\ calls'[i].att = calls[i].att
    BY DEF Mine
  <2> QED BY <2>1, <2>2, SameScreen DEF Screens
<1> QED BY <1>1 DEF Screens

(* A spinner starts with its request.                                       *)
Starts(op, ops, b, c) == (op \in ops => ~b /\ c) /\ (op \notin ops => (c <=> b))

(* A new request turns its spinner on, and only that one.                   *)
LEMMA StartsMatch ==
  ASSUME TypeOK, NEW t \in Tabs, NEW op, Request(t, op), NEW ops, NEW b, NEW c,
         Matches(Shown(calls, t, ops), b), Starts(op, ops, b, c)
  PROVE  Matches(Shown(calls', t, ops), c)
<1>1. \A o : Shown(calls', t, o) =
        IF op \in o THEN Shown(calls, t, o) \cup {Unused} ELSE Shown(calls, t, o)
  BY RequestShows
<1>2. CASE op \in ops
  <2>1. Shown(calls, t, ops) = {} BY <1>2 DEF Starts, Matches
  <2>2. Shown(calls', t, ops) = {Unused} BY <1>1, <1>2, <2>1
  <2> QED BY <1>2, <2>2 DEF Starts, Matches
<1>3. CASE op \notin ops
  <2>1. Shown(calls', t, ops) = Shown(calls, t, ops) BY <1>1, <1>3
  <2>2. b <=> c BY <1>3 DEF Starts
  <2> QED BY <2>1, <2>2 DEF Matches
<1> QED BY <1>2, <1>3

(* A screen that turns on exactly the spinner of its new request keeps      *)
(* SpinPart.                                                                *)
LEMMA RequestSpin ==
  ASSUME TypeOK, Screens, NEW t \in Tabs, NEW op, Request(t, op), NEW tb, NEW v,
         LET u == ui[t]
         IN /\ v.panel = u.panel
            /\ Starts(op, CardOps(u), u.submitting, v.submitting)
            /\ Starts(op, {"resend"}, u.sending, v.sending)
            /\ Starts(op, {"bannerSend"}, u.banner = "sending", v.banner = "sending")
            /\ Starts(op, {"pageResend"}, u.resending, v.resending)
            /\ Starts(op, AvatarOps, u.crop = "busy", v.crop = "busy")
            /\ Starts(op, {"requestReset"}, u.resetBusy, v.resetBusy)
            /\ Starts(op, {"verify", "pageMe", "confirm"}, u.page = "calling", v.page = "calling")
            /\ u.panel \in {"closed", "menu"} => op # "logout",
         tb.busy => op \in {"login", "register"} \/ tab[t].busy
  PROVE  SpinPart(t, tb, v, calls')
<1> DEFINE u == ui[t]
           b1 == u.submitting
           b2 == u.sending
           b3 == u.banner = "sending"
           b4 == u.resending
           b5 == u.crop = "busy"
           b6 == u.resetBusy
           b7 == u.page = "calling"
           c1 == v.submitting
           c2 == v.sending
           c3 == v.banner = "sending"
           c4 == v.resending
           c5 == v.crop = "busy"
           c6 == v.resetBusy
           c7 == v.page = "calling"
           page == {"verify", "pageMe", "confirm"}
<1>1. SpinPart(t, tab[t], u, calls) BY DEF Screens, ScreenOK
<1>2. /\ Matches(Shown(calls, t, CardOps(u)), b1)
      /\ Matches(Shown(calls, t, {"resend"}), b2)
      /\ Matches(Shown(calls, t, {"bannerSend"}), b3)
      /\ Matches(Shown(calls, t, {"pageResend"}), b4)
      /\ Matches(Shown(calls, t, AvatarOps), b5)
      /\ Matches(Shown(calls, t, {"requestReset"}), b6)
      /\ Matches(Shown(calls, t, page), b7)
  BY <1>1 DEF SpinPart
<1>3. /\ Starts(op, CardOps(u), b1, c1)
      /\ Starts(op, {"resend"}, b2, c2)
      /\ Starts(op, {"bannerSend"}, b3, c3)
      /\ Starts(op, {"pageResend"}, b4, c4)
      /\ Starts(op, AvatarOps, b5, c5)
      /\ Starts(op, {"requestReset"}, b6, c6)
      /\ Starts(op, page, b7, c7)
  OBVIOUS
<1>4. /\ CardOps(v) = CardOps(u)
      /\ v.panel \in {"closed", "menu"} => Shown(calls', t, {"logout"}) = {}
      /\ tb.busy => Shown(calls', t, {"login", "register"}) # {}
  <2>1. \A o : Shown(calls', t, o) =
          IF op \in o THEN Shown(calls, t, o) \cup {Unused} ELSE Shown(calls, t, o)
    BY RequestShows
  <2>2. /\ v.panel \in {"closed", "menu"} => Shown(calls, t, {"logout"}) = {} /\ op # "logout"
        /\ tab[t].busy => Shown(calls, t, {"login", "register"}) # {}
    BY <1>1 DEF SpinPart
  <2> QED BY <2>1, <2>2 DEF CardOps
<1> HIDE DEF b1, b2, b3, b4, b5, b6, b7, c1, c2, c3, c4, c5, c6, c7, page, u
<1>5. /\ Matches(Shown(calls', t, CardOps(u)), c1)
      /\ Matches(Shown(calls', t, {"resend"}), c2)
      /\ Matches(Shown(calls', t, {"bannerSend"}), c3)
      /\ Matches(Shown(calls', t, {"pageResend"}), c4)
      /\ Matches(Shown(calls', t, AvatarOps), c5)
      /\ Matches(Shown(calls', t, {"requestReset"}), c6)
      /\ Matches(Shown(calls', t, page), c7)
  BY <1>2, <1>3, StartsMatch
<1>6. Matches(Shown(calls', t, CardOps(v)), v.submitting)
  BY <1>4, <1>5 DEF c1
<1>7. /\ Matches(Shown(calls', t, {"resend"}), v.sending)
      /\ Matches(Shown(calls', t, {"pageResend"}), v.resending)
      /\ Matches(Shown(calls', t, {"requestReset"}), v.resetBusy)
  BY <1>5 DEF c2, c4, c6
<1>8. Matches(Shown(calls', t, {"bannerSend"}), v.banner = "sending")
  BY <1>5 DEF c3
<1>9. Matches(Shown(calls', t, AvatarOps), v.crop = "busy")
  BY <1>5 DEF c5
<1>10. Matches(Shown(calls', t, {"verify", "pageMe", "confirm"}), v.page = "calling")
  BY <1>5 DEF c7, page
<1> QED BY <1>4, <1>6, <1>7, <1>8, <1>9, <1>10 DEF SpinPart

(* A request of the tab's own screen is sent.                               *)
LEMMA RequestScreens ==
  ASSUME TypeOK, Screens, NEW t \in Tabs, NEW op, Request(t, op), NEW tb, NEW v,
         tab' = [tab EXCEPT ![t] = tb], ui' = [ui EXCEPT ![t] = v],
         v.route = ui[t].route, op \in RouteOps(v.route),
         v.route = "gate" => \/ tab[t].boot = "new" /\ tb.boot = "restoring" /\ op = "bootMe"
                             \/ tab[t].boot = "done" /\ tb.boot = "done" /\ op # "bootMe",
         QuietPart(tb, v), SpinPart(t, tb, v, calls')
  PROVE  Screens'
<1>1. /\ Mine(calls', t) = Mine(calls, t) \cup {Unused}
      /\ \A r \in Tabs : r # t => Mine(calls', r) = Mine(calls, r)
      /\ \A i \in DOMAIN calls : calls'[i] = calls[i]
      /\ calls'[Unused] = NewCall(t, op)
      /\ Unused \notin DOMAIN calls
  BY RequestShows
<1>2. \A r \in Tabs : \A i \in Mine(calls, r) : calls'[i] = calls[i]
  BY <1>1 DEF Mine
<1>3. calls'[Unused].op = op /\ calls'[Unused].att = "yes"
  BY <1>1 DEF NewCall
<1>4. RoutePart(t, ui[t], calls) /\ BootPart(t, tab[t], ui[t], calls)
  BY DEF Screens, ScreenOK
<1>5. RoutePart(t, v, calls')
  BY <1>1, <1>2, <1>3, <1>4 DEF RoutePart
<1>6. BootPart(t, tb, v, calls')
  BY <1>1, <1>2, <1>3, <1>4 DEF BootPart
<1>7. ScreenOK(t, tb, v, calls')
  BY <1>5, <1>6 DEF ScreenOK
<1> QED BY <1>1, <1>2, <1>7, LocalScreens

(* A request that a mounted screen sends, as Open sends it.                 *)
LEMMA AskScreens ==
  ASSUME TypeOK, Screens, NEW t \in Tabs, NEW op, NEW v, Open(t, op, v),
         v.route = ui[t].route, op \in RouteOps(v.route), op # "bootMe",
         v.route = "gate" => tab[t].boot = "done",
         QuietPart(tab[t], v), SpinPart(t, tab[t], v, calls')
  PROVE  Screens'
<1>1. tab' = [tab EXCEPT ![t] = tab[t]]
  BY DEF Open, TypeOK, SessionTypes
<1>2. Request(t, op) /\ ui' = [ui EXCEPT ![t] = v]
  BY DEF Open
<1> QED BY <1>1, <1>2, RequestScreens

(* The state of a screen changes and nothing else does.                     *)
LEMMA UiScreens ==
  ASSUME TypeOK, Screens, NEW t \in Tabs, NEW v, Ui(t, v), v.route = ui[t].route,
         QuietPart(tab[t], v), SpinPart(t, tab[t], v, calls)
  PROVE  Screens'
<1>1. tab' = [tab EXCEPT ![t] = tab[t]] /\ ui' = [ui EXCEPT ![t] = v] /\ calls' = calls
  BY DEF Ui, TypeOK, SessionTypes
<1>2. ScreenOK(t, tab[t], v, calls')
  BY <1>1 DEF Screens, ScreenOK, RoutePart, BootPart
<1> QED BY <1>1, <1>2, LocalScreens
-----------------------------------------------------------------------------
(* AuthScreen and UserMenu                                                  *)

(* switchMode changes no spinner.                                           *)
LEMMA SwitchModeScreens ==
  ASSUME TypeOK, Screens, NEW t \in Tabs, NEW m, SwitchMode(t, m)
  PROVE  Screens'
<1> DEFINE u == ui[t]
           v == [u EXCEPT !.mode = m, !.sent = FALSE]
<1>1. u \in Screen BY DEF TypeOK
<1>2. /\ v.route = u.route /\ v.panel = u.panel /\ v.page = u.page /\ v.resending = u.resending
      /\ v.submitting = u.submitting /\ v.sending = u.sending /\ v.crop = u.crop
      /\ v.banner = u.banner /\ v.resetBusy = u.resetBusy
  BY <1>1 DEF Screen
<1>3. ScreenOK(t, tab[t], u, calls) BY DEF Screens
<1>4. QuietPart(tab[t], v) /\ SpinPart(t, tab[t], v, calls)
  BY <1>2, <1>3 DEF ScreenOK, QuietPart, SpinPart, InShell, InForm, CardOps
<1>5. Ui(t, v) BY DEF SwitchMode
<1> QED BY <1>2, <1>4, <1>5, UiScreens

(* handleSubmit: the form is busy with its request.                         *)
LEMMA HandleSubmitScreens ==
  ASSUME TypeOK, Screens, NEW t \in Tabs, HandleSubmit(t)
  PROVE  Screens'
<1> DEFINE u == ui[t]
           op == u.mode
           tb == [tab[t] EXCEPT !.busy = TRUE]
<1>1. u \in Screen /\ tab[t] \in TabState BY DEF TypeOK, SessionTypes
<1>2. /\ tb.boot = tab[t].boot /\ tb.session = tab[t].session
      /\ AuthForm(t) /\ op \in {"login", "register"}
      /\ Request(t, op) /\ tab' = [tab EXCEPT ![t] = tb] /\ ui' = [ui EXCEPT ![t] = u]
  BY <1>1 DEF HandleSubmit, FormReady, TypeOK, SessionTypes, Screen, TabState
<1>3. ScreenOK(t, tab[t], u, calls) BY DEF Screens
<1>4. u.route = "gate" /\ tab[t].boot = "done" /\ tab[t].session.n = 0
  BY <1>2 DEF AuthForm, LoggedIn
<1> HIDE DEF op, tb
<1>5. QuietPart(tb, u)
  BY <1>2, <1>3, <1>4 DEF ScreenOK, QuietPart, InShell, InForm
<1>6. SpinPart(t, tb, u, calls')
  <2>1. /\ Starts(op, CardOps(u), u.submitting, u.submitting)
        /\ Starts(op, {"resend"}, u.sending, u.sending)
        /\ Starts(op, {"bannerSend"}, u.banner = "sending", u.banner = "sending")
        /\ Starts(op, {"pageResend"}, u.resending, u.resending)
        /\ Starts(op, AvatarOps, u.crop = "busy", u.crop = "busy")
        /\ Starts(op, {"requestReset"}, u.resetBusy, u.resetBusy)
        /\ Starts(op, {"verify", "pageMe", "confirm"}, u.page = "calling", u.page = "calling")
        /\ op # "logout"
    BY <1>2 DEF Starts, CardOps, AvatarOps
  <2> QED BY <1>2, <2>1, RequestSpin
<1>7. op \in RouteOps(u.route) /\ op # "bootMe"
  BY <1>2, <1>4 DEF RouteOps
<1> QED BY <1>2, <1>4, <1>5, <1>6, <1>7, RequestScreens

(* The form to reset a password.                                            *)
LEMMA HandleResetRequestScreens ==
  ASSUME TypeOK, Screens, NEW t \in Tabs, HandleResetRequest(t)
  PROVE  Screens'
<1> DEFINE u == ui[t]
           op == "requestReset"
           v == [u EXCEPT !.resetBusy = TRUE]
<1>1. u \in Screen BY DEF TypeOK
<1>2. /\ v.route = u.route /\ v.panel = u.panel /\ v.page = u.page /\ v.resending = u.resending
      /\ v.submitting = u.submitting /\ v.sending = u.sending /\ v.crop = u.crop
      /\ v.banner = u.banner /\ v.resetBusy = TRUE
  BY <1>1 DEF Screen
<1>3. ScreenOK(t, tab[t], u, calls) BY DEF Screens
<1>4. u.route = "gate" /\ tab[t].boot = "done" /\ tab[t].session.n = 0 /\ ~u.resetBusy
  BY DEF HandleResetRequest, ForgotReady, AuthForm, LoggedIn
<1>5. Open(t, op, v) /\ Request(t, op)
  BY DEF HandleResetRequest, Ask, Open
<1> HIDE DEF v
<1>6. QuietPart(tab[t], v)
  BY <1>2, <1>3, <1>4 DEF ScreenOK, QuietPart, InShell, InForm
<1>7. SpinPart(t, tab[t], v, calls')
  <2>1. /\ Starts(op, CardOps(u), u.submitting, v.submitting)
        /\ Starts(op, {"resend"}, u.sending, v.sending)
        /\ Starts(op, {"bannerSend"}, u.banner = "sending", v.banner = "sending")
        /\ Starts(op, {"pageResend"}, u.resending, v.resending)
        /\ Starts(op, AvatarOps, u.crop = "busy", v.crop = "busy")
        /\ Starts(op, {"requestReset"}, u.resetBusy, v.resetBusy)
        /\ Starts(op, {"verify", "pageMe", "confirm"}, u.page = "calling", v.page = "calling")
        /\ u.panel \in {"closed", "menu"} => op # "logout"
    BY <1>2, <1>3, <1>4 DEF ScreenOK, QuietPart, Starts, CardOps, AvatarOps, InShell, InForm
  <2> QED BY <1>2, <1>5, <2>1, RequestSpin
<1>8. op \in RouteOps(u.route) /\ op # "bootMe"
  BY <1>4 DEF RouteOps, AvatarOps
<1> QED BY <1>2, <1>4, <1>5, <1>6, <1>7, <1>8, AskScreens

(* The forms of the account card.                                           *)
LEMMA SaveNicknameScreens ==
  ASSUME TypeOK, Screens, NEW t \in Tabs, SaveNickname(t)
  PROVE  Screens'
<1> DEFINE u == ui[t]
           op == "profile"
           v == [u EXCEPT !.submitting = TRUE]
<1>1. u \in Screen BY DEF TypeOK
<1>2. /\ v.route = u.route /\ v.panel = u.panel /\ v.page = u.page /\ v.resending = u.resending
      /\ v.submitting = TRUE /\ v.sending = u.sending /\ v.crop = u.crop
      /\ v.banner = u.banner /\ v.resetBusy = u.resetBusy
  BY <1>1 DEF Screen
<1>3. ScreenOK(t, tab[t], u, calls) BY DEF Screens
<1>4. /\ u.route = "gate" /\ tab[t].boot = "done" /\ tab[t].session.n # 0
      /\ u.panel = "account" /\ u.crop = "none" /\ ~u.submitting
  BY DEF SaveNickname, NicknameForm, Card, Shell, LoggedIn
<1>5. Open(t, op, v) /\ Request(t, op)
  BY DEF SaveNickname, Ask, Open
<1> HIDE DEF v
<1>6. QuietPart(tab[t], v)
  BY <1>2, <1>3, <1>4 DEF ScreenOK, QuietPart, InShell, InForm
<1>7. SpinPart(t, tab[t], v, calls')
  <2>1. /\ Starts(op, CardOps(u), u.submitting, v.submitting)
        /\ Starts(op, {"resend"}, u.sending, v.sending)
        /\ Starts(op, {"bannerSend"}, u.banner = "sending", v.banner = "sending")
        /\ Starts(op, {"pageResend"}, u.resending, v.resending)
        /\ Starts(op, AvatarOps, u.crop = "busy", v.crop = "busy")
        /\ Starts(op, {"requestReset"}, u.resetBusy, v.resetBusy)
        /\ Starts(op, {"verify", "pageMe", "confirm"}, u.page = "calling", v.page = "calling")
        /\ u.panel \in {"closed", "menu"} => op # "logout"
    BY <1>2, <1>3, <1>4 DEF ScreenOK, QuietPart, Starts, CardOps, AvatarOps, InShell, InForm
  <2> QED BY <1>2, <1>5, <2>1, RequestSpin
<1>8. op \in RouteOps(u.route) /\ op # "bootMe"
  BY <1>4 DEF RouteOps, AvatarOps
<1> QED BY <1>2, <1>4, <1>5, <1>6, <1>7, <1>8, AskScreens

(* changePassword turns the card's spinner on.                              *)
LEMMA ChangePasswordFormScreens ==
  ASSUME TypeOK, Screens, NEW t \in Tabs, ChangePasswordForm(t)
  PROVE  Screens'
<1> DEFINE u == ui[t]
           op == "changePassword"
           v == [u EXCEPT !.submitting = TRUE]
<1>1. u \in Screen BY DEF TypeOK
<1>2. /\ v.route = u.route /\ v.panel = u.panel /\ v.page = u.page /\ v.resending = u.resending
      /\ v.submitting = TRUE /\ v.sending = u.sending /\ v.crop = u.crop
      /\ v.banner = u.banner /\ v.resetBusy = u.resetBusy
  BY <1>1 DEF Screen
<1>3. ScreenOK(t, tab[t], u, calls) BY DEF Screens
<1>4. /\ u.route = "gate" /\ tab[t].boot = "done" /\ tab[t].session.n # 0
      /\ u.panel = "account" /\ u.crop = "none" /\ ~u.submitting
  BY DEF ChangePasswordForm, PasswordForm, Card, Shell, LoggedIn
<1>5. Open(t, op, v) /\ Request(t, op)
  BY DEF ChangePasswordForm, Ask, Open
<1> HIDE DEF v
<1>6. QuietPart(tab[t], v)
  BY <1>2, <1>3, <1>4 DEF ScreenOK, QuietPart, InShell, InForm
<1>7. SpinPart(t, tab[t], v, calls')
  <2>1. /\ Starts(op, CardOps(u), u.submitting, v.submitting)
        /\ Starts(op, {"resend"}, u.sending, v.sending)
        /\ Starts(op, {"bannerSend"}, u.banner = "sending", v.banner = "sending")
        /\ Starts(op, {"pageResend"}, u.resending, v.resending)
        /\ Starts(op, AvatarOps, u.crop = "busy", v.crop = "busy")
        /\ Starts(op, {"requestReset"}, u.resetBusy, v.resetBusy)
        /\ Starts(op, {"verify", "pageMe", "confirm"}, u.page = "calling", v.page = "calling")
        /\ u.panel \in {"closed", "menu"} => op # "logout"
    BY <1>2, <1>3, <1>4 DEF ScreenOK, QuietPart, Starts, CardOps, AvatarOps, InShell, InForm
  <2> QED BY <1>2, <1>5, <2>1, RequestSpin
<1>8. op \in RouteOps(u.route) /\ op # "bootMe"
  BY <1>4 DEF RouteOps, AvatarOps
<1> QED BY <1>2, <1>4, <1>5, <1>6, <1>7, <1>8, AskScreens

(* requestDeletion turns the card's spinner on.                             *)
LEMMA RequestDeletionScreens ==
  ASSUME TypeOK, Screens, NEW t \in Tabs, RequestDeletion(t)
  PROVE  Screens'
<1> DEFINE u == ui[t]
           op == "requestDeletion"
           v == [u EXCEPT !.submitting = TRUE]
<1>1. u \in Screen BY DEF TypeOK
<1>2. /\ v.route = u.route /\ v.panel = u.panel /\ v.page = u.page /\ v.resending = u.resending
      /\ v.submitting = TRUE /\ v.sending = u.sending /\ v.crop = u.crop
      /\ v.banner = u.banner /\ v.resetBusy = u.resetBusy
  BY <1>1 DEF Screen
<1>3. ScreenOK(t, tab[t], u, calls) BY DEF Screens
<1>4. /\ u.route = "gate" /\ tab[t].boot = "done" /\ tab[t].session.n # 0
      /\ u.panel = "account" /\ u.crop = "none" /\ ~u.submitting
  BY DEF RequestDeletion, DeletionForm, Card, Shell, LoggedIn
<1>5. Open(t, op, v) /\ Request(t, op)
  BY DEF RequestDeletion, Ask, Open
<1> HIDE DEF v
<1>6. QuietPart(tab[t], v)
  BY <1>2, <1>3, <1>4 DEF ScreenOK, QuietPart, InShell, InForm
<1>7. SpinPart(t, tab[t], v, calls')
  <2>1. /\ Starts(op, CardOps(u), u.submitting, v.submitting)
        /\ Starts(op, {"resend"}, u.sending, v.sending)
        /\ Starts(op, {"bannerSend"}, u.banner = "sending", v.banner = "sending")
        /\ Starts(op, {"pageResend"}, u.resending, v.resending)
        /\ Starts(op, AvatarOps, u.crop = "busy", v.crop = "busy")
        /\ Starts(op, {"requestReset"}, u.resetBusy, v.resetBusy)
        /\ Starts(op, {"verify", "pageMe", "confirm"}, u.page = "calling", v.page = "calling")
        /\ u.panel \in {"closed", "menu"} => op # "logout"
    BY <1>2, <1>3, <1>4 DEF ScreenOK, QuietPart, Starts, CardOps, AvatarOps, InShell, InForm
  <2> QED BY <1>2, <1>5, <2>1, RequestSpin
<1>8. op \in RouteOps(u.route) /\ op # "bootMe"
  BY <1>4 DEF RouteOps, AvatarOps
<1> QED BY <1>2, <1>4, <1>5, <1>6, <1>7, <1>8, AskScreens

(* resend turns its own spinner on.                                         *)
LEMMA ResendScreens ==
  ASSUME TypeOK, Screens, NEW t \in Tabs, Resend(t)
  PROVE  Screens'
<1> DEFINE u == ui[t]
           op == "resend"
           v == [u EXCEPT !.sending = TRUE]
<1>1. u \in Screen BY DEF TypeOK
<1>2. /\ v.route = u.route /\ v.panel = u.panel /\ v.page = u.page /\ v.resending = u.resending
      /\ v.submitting = u.submitting /\ v.sending = TRUE /\ v.crop = u.crop
      /\ v.banner = u.banner /\ v.resetBusy = u.resetBusy
  BY <1>1 DEF Screen
<1>3. ScreenOK(t, tab[t], u, calls) BY DEF Screens
<1>4. /\ u.route = "gate" /\ tab[t].boot = "done" /\ tab[t].session.n # 0
      /\ u.panel = "account" /\ u.crop = "none" /\ ~u.sending
  BY DEF Resend, ResendOffered, Card, Shell, LoggedIn
<1>5. Open(t, op, v) /\ Request(t, op)
  BY DEF Resend, Ask, Open
<1> HIDE DEF v
<1>6. QuietPart(tab[t], v)
  BY <1>2, <1>3, <1>4 DEF ScreenOK, QuietPart, InShell, InForm
<1>7. SpinPart(t, tab[t], v, calls')
  <2>1. /\ Starts(op, CardOps(u), u.submitting, v.submitting)
        /\ Starts(op, {"resend"}, u.sending, v.sending)
        /\ Starts(op, {"bannerSend"}, u.banner = "sending", v.banner = "sending")
        /\ Starts(op, {"pageResend"}, u.resending, v.resending)
        /\ Starts(op, AvatarOps, u.crop = "busy", v.crop = "busy")
        /\ Starts(op, {"requestReset"}, u.resetBusy, v.resetBusy)
        /\ Starts(op, {"verify", "pageMe", "confirm"}, u.page = "calling", v.page = "calling")
        /\ u.panel \in {"closed", "menu"} => op # "logout"
    BY <1>2, <1>3, <1>4 DEF ScreenOK, QuietPart, Starts, CardOps, AvatarOps, InShell, InForm
  <2> QED BY <1>2, <1>5, <2>1, RequestSpin
<1>8. op \in RouteOps(u.route) /\ op # "bootMe"
  BY <1>4 DEF RouteOps, AvatarOps
<1> QED BY <1>2, <1>4, <1>5, <1>6, <1>7, <1>8, AskScreens

(* The cropper and the reminder.                                            *)
LEMMA ConfirmCropScreens ==
  ASSUME TypeOK, Screens, NEW t \in Tabs, ConfirmCrop(t)
  PROVE  Screens'
<1> DEFINE u == ui[t]
           op == "avCreate"
           v == [u EXCEPT !.crop = "busy"]
<1>1. u \in Screen BY DEF TypeOK
<1>2. /\ v.route = u.route /\ v.panel = u.panel /\ v.page = u.page /\ v.resending = u.resending
      /\ v.submitting = u.submitting /\ v.sending = u.sending /\ v.crop = "busy"
      /\ v.banner = u.banner /\ v.resetBusy = u.resetBusy
  BY <1>1 DEF Screen
<1>3. ScreenOK(t, tab[t], u, calls) BY DEF Screens
<1>4. u.route = "gate" /\ tab[t].boot = "done" /\ tab[t].session.n # 0 /\ u.crop = "open"
  BY DEF ConfirmCrop, Cropper, Shell, LoggedIn
<1>5. Open(t, op, v) /\ Request(t, op)
  BY DEF ConfirmCrop, Ask, Open
<1> HIDE DEF v
<1>6. QuietPart(tab[t], v)
  BY <1>2, <1>3, <1>4 DEF ScreenOK, QuietPart, InShell, InForm
<1>7. SpinPart(t, tab[t], v, calls')
  <2>1. /\ Starts(op, CardOps(u), u.submitting, v.submitting)
        /\ Starts(op, {"resend"}, u.sending, v.sending)
        /\ Starts(op, {"bannerSend"}, u.banner = "sending", v.banner = "sending")
        /\ Starts(op, {"pageResend"}, u.resending, v.resending)
        /\ Starts(op, AvatarOps, u.crop = "busy", v.crop = "busy")
        /\ Starts(op, {"requestReset"}, u.resetBusy, v.resetBusy)
        /\ Starts(op, {"verify", "pageMe", "confirm"}, u.page = "calling", v.page = "calling")
        /\ u.panel \in {"closed", "menu"} => op # "logout"
    BY <1>2, <1>3, <1>4 DEF ScreenOK, QuietPart, Starts, CardOps, AvatarOps, InShell, InForm
  <2> QED BY <1>2, <1>5, <2>1, RequestSpin
<1>8. op \in RouteOps(u.route) /\ op # "bootMe"
  BY <1>4 DEF RouteOps, AvatarOps
<1> QED BY <1>2, <1>4, <1>5, <1>6, <1>7, <1>8, AskScreens

(* onSend of the reminder turns its own spinner on.                         *)
LEMMA BannerSendScreens ==
  ASSUME TypeOK, Screens, NEW t \in Tabs, BannerSend(t)
  PROVE  Screens'
<1> DEFINE u == ui[t]
           op == "bannerSend"
           v == [u EXCEPT !.banner = "sending"]
<1>1. u \in Screen BY DEF TypeOK
<1>2. /\ v.route = u.route /\ v.panel = u.panel /\ v.page = u.page /\ v.resending = u.resending
      /\ v.submitting = u.submitting /\ v.sending = u.sending /\ v.crop = u.crop
      /\ v.banner = "sending" /\ v.resetBusy = u.resetBusy
  BY <1>1 DEF Screen
<1>3. ScreenOK(t, tab[t], u, calls) BY DEF Screens
<1>4. u.route = "gate" /\ tab[t].boot = "done" /\ tab[t].session.n # 0 /\ u.banner = "ready"
  BY DEF BannerSend, BannerOffered, Shell, LoggedIn
<1>5. Open(t, op, v) /\ Request(t, op)
  BY DEF BannerSend, Ask, Open
<1> HIDE DEF v
<1>6. QuietPart(tab[t], v)
  BY <1>2, <1>3, <1>4 DEF ScreenOK, QuietPart, InShell, InForm
<1>7. SpinPart(t, tab[t], v, calls')
  <2>1. /\ Starts(op, CardOps(u), u.submitting, v.submitting)
        /\ Starts(op, {"resend"}, u.sending, v.sending)
        /\ Starts(op, {"bannerSend"}, u.banner = "sending", v.banner = "sending")
        /\ Starts(op, {"pageResend"}, u.resending, v.resending)
        /\ Starts(op, AvatarOps, u.crop = "busy", v.crop = "busy")
        /\ Starts(op, {"requestReset"}, u.resetBusy, v.resetBusy)
        /\ Starts(op, {"verify", "pageMe", "confirm"}, u.page = "calling", v.page = "calling")
        /\ u.panel \in {"closed", "menu"} => op # "logout"
    BY <1>2, <1>3, <1>4 DEF ScreenOK, QuietPart, Starts, CardOps, AvatarOps, InShell, InForm
  <2> QED BY <1>2, <1>5, <2>1, RequestSpin
<1>8. op \in RouteOps(u.route) /\ op # "bootMe"
  BY <1>4 DEF RouteOps, AvatarOps
<1> QED BY <1>2, <1>4, <1>5, <1>6, <1>7, <1>8, AskScreens

(* The pages behind a mailed link.                                          *)
LEMMA PageResendScreens ==
  ASSUME TypeOK, Screens, NEW t \in Tabs, PageResend(t)
  PROVE  Screens'
<1> DEFINE u == ui[t]
           op == "pageResend"
           v == [u EXCEPT !.resending = TRUE]
<1>1. u \in Screen BY DEF TypeOK
<1>2. /\ v.route = u.route /\ v.panel = u.panel /\ v.page = u.page /\ v.resending = TRUE
      /\ v.submitting = u.submitting /\ v.sending = u.sending /\ v.crop = u.crop
      /\ v.banner = u.banner /\ v.resetBusy = u.resetBusy
  BY <1>1 DEF Screen
<1>3. ScreenOK(t, tab[t], u, calls) BY DEF Screens
<1>4. u.route = "verify" /\ u.page = "error" /\ ~u.resending
  BY DEF PageResend, PageResendOffered
<1>5. Open(t, op, v) /\ Request(t, op)
  BY DEF PageResend, Ask, Open
<1> HIDE DEF v
<1>6. QuietPart(tab[t], v)
  BY <1>2, <1>3, <1>4 DEF ScreenOK, QuietPart, InShell, InForm
<1>7. SpinPart(t, tab[t], v, calls')
  <2>1. /\ Starts(op, CardOps(u), u.submitting, v.submitting)
        /\ Starts(op, {"resend"}, u.sending, v.sending)
        /\ Starts(op, {"bannerSend"}, u.banner = "sending", v.banner = "sending")
        /\ Starts(op, {"pageResend"}, u.resending, v.resending)
        /\ Starts(op, AvatarOps, u.crop = "busy", v.crop = "busy")
        /\ Starts(op, {"requestReset"}, u.resetBusy, v.resetBusy)
        /\ Starts(op, {"verify", "pageMe", "confirm"}, u.page = "calling", v.page = "calling")
        /\ u.panel \in {"closed", "menu"} => op # "logout"
    BY <1>2, <1>3, <1>4 DEF ScreenOK, QuietPart, Starts, CardOps, AvatarOps, InShell, InForm
  <2> QED BY <1>2, <1>5, <2>1, RequestSpin
<1>8. op \in RouteOps(u.route) /\ op # "bootMe"
  BY <1>4 DEF RouteOps, AvatarOps
<1> QED BY <1>2, <1>4, <1>5, <1>6, <1>7, <1>8, AskScreens

(* handleSubmit of the reset page: the page is busy, not calling.           *)
LEMMA ResetSubmitScreens ==
  ASSUME TypeOK, Screens, NEW t \in Tabs, ResetSubmit(t)
  PROVE  Screens'
<1> DEFINE u == ui[t]
           op == "reset"
           v == [u EXCEPT !.page = "busy"]
<1>1. u \in Screen BY DEF TypeOK
<1>2. /\ v.route = u.route /\ v.panel = u.panel /\ v.page = "busy" /\ v.resending = u.resending
      /\ v.submitting = u.submitting /\ v.sending = u.sending /\ v.crop = u.crop
      /\ v.banner = u.banner /\ v.resetBusy = u.resetBusy
  BY <1>1 DEF Screen
<1>3. ScreenOK(t, tab[t], u, calls) BY DEF Screens
<1>4. u.route = "reset" /\ u.page = "form"
  BY DEF ResetSubmit, ResetForm
<1>5. Open(t, op, v) /\ Request(t, op)
  BY DEF ResetSubmit, Ask, Open
<1> HIDE DEF v
<1>6. QuietPart(tab[t], v)
  BY <1>2, <1>3, <1>4 DEF ScreenOK, QuietPart, InShell, InForm
<1>7. SpinPart(t, tab[t], v, calls')
  <2>1. /\ Starts(op, CardOps(u), u.submitting, v.submitting)
        /\ Starts(op, {"resend"}, u.sending, v.sending)
        /\ Starts(op, {"bannerSend"}, u.banner = "sending", v.banner = "sending")
        /\ Starts(op, {"pageResend"}, u.resending, v.resending)
        /\ Starts(op, AvatarOps, u.crop = "busy", v.crop = "busy")
        /\ Starts(op, {"requestReset"}, u.resetBusy, v.resetBusy)
        /\ Starts(op, {"verify", "pageMe", "confirm"}, u.page = "calling", v.page = "calling")
        /\ u.panel \in {"closed", "menu"} => op # "logout"
    BY <1>2, <1>3, <1>4 DEF ScreenOK, QuietPart, Starts, CardOps, AvatarOps, InShell, InForm
  <2> QED BY <1>2, <1>5, <2>1, RequestSpin
<1>8. op \in RouteOps(u.route) /\ op # "bootMe"
  BY <1>4 DEF RouteOps, AvatarOps
<1> QED BY <1>2, <1>4, <1>5, <1>6, <1>7, <1>8, AskScreens

(* The effect of the verification page sends its request.                   *)
LEMMA VerifyStartScreens ==
  ASSUME TypeOK, Screens, NEW t \in Tabs, VerifyStart(t)
  PROVE  Screens'
<1> DEFINE u == ui[t]
           op == "verify"
           v == [u EXCEPT !.page = "calling"]
<1>1. u \in Screen BY DEF TypeOK
<1>2. /\ v.route = u.route /\ v.panel = u.panel /\ v.page = "calling" /\ v.resending = u.resending
      /\ v.submitting = u.submitting /\ v.sending = u.sending /\ v.crop = u.crop
      /\ v.banner = u.banner /\ v.resetBusy = u.resetBusy
  BY <1>1 DEF Screen
<1>3. ScreenOK(t, tab[t], u, calls) BY DEF Screens
<1>4. u.route = "verify" /\ u.page = "loading"
  BY DEF VerifyStart, Open
<1>5. Open(t, op, v) /\ Request(t, op)
  BY DEF VerifyStart, Ask, Open
<1> HIDE DEF v
<1>6. QuietPart(tab[t], v)
  BY <1>2, <1>3, <1>4 DEF ScreenOK, QuietPart, InShell, InForm
<1>7. SpinPart(t, tab[t], v, calls')
  <2>1. /\ Starts(op, CardOps(u), u.submitting, v.submitting)
        /\ Starts(op, {"resend"}, u.sending, v.sending)
        /\ Starts(op, {"bannerSend"}, u.banner = "sending", v.banner = "sending")
        /\ Starts(op, {"pageResend"}, u.resending, v.resending)
        /\ Starts(op, AvatarOps, u.crop = "busy", v.crop = "busy")
        /\ Starts(op, {"requestReset"}, u.resetBusy, v.resetBusy)
        /\ Starts(op, {"verify", "pageMe", "confirm"}, u.page = "calling", v.page = "calling")
        /\ u.panel \in {"closed", "menu"} => op # "logout"
    BY <1>2, <1>3, <1>4 DEF ScreenOK, QuietPart, Starts, CardOps, AvatarOps, InShell, InForm
  <2> QED BY <1>2, <1>5, <2>1, RequestSpin
<1>8. op \in RouteOps(u.route) /\ op # "bootMe"
  BY <1>4 DEF RouteOps, AvatarOps
<1> QED BY <1>2, <1>4, <1>5, <1>6, <1>7, <1>8, AskScreens

(* The effect of the deletion page sends its request.                       *)
LEMMA ConfirmStartScreens ==
  ASSUME TypeOK, Screens, NEW t \in Tabs, ConfirmStart(t)
  PROVE  Screens'
<1> DEFINE u == ui[t]
           op == "confirm"
           v == [u EXCEPT !.page = "calling"]
<1>1. u \in Screen BY DEF TypeOK
<1>2. /\ v.route = u.route /\ v.panel = u.panel /\ v.page = "calling" /\ v.resending = u.resending
      /\ v.submitting = u.submitting /\ v.sending = u.sending /\ v.crop = u.crop
      /\ v.banner = u.banner /\ v.resetBusy = u.resetBusy
  BY <1>1 DEF Screen
<1>3. ScreenOK(t, tab[t], u, calls) BY DEF Screens
<1>4. u.route = "confirm" /\ u.page = "loading"
  BY DEF ConfirmStart, Open
<1>5. Open(t, op, v) /\ Request(t, op)
  BY DEF ConfirmStart, Ask, Open
<1> HIDE DEF v
<1>6. QuietPart(tab[t], v)
  BY <1>2, <1>3, <1>4 DEF ScreenOK, QuietPart, InShell, InForm
<1>7. SpinPart(t, tab[t], v, calls')
  <2>1. /\ Starts(op, CardOps(u), u.submitting, v.submitting)
        /\ Starts(op, {"resend"}, u.sending, v.sending)
        /\ Starts(op, {"bannerSend"}, u.banner = "sending", v.banner = "sending")
        /\ Starts(op, {"pageResend"}, u.resending, v.resending)
        /\ Starts(op, AvatarOps, u.crop = "busy", v.crop = "busy")
        /\ Starts(op, {"requestReset"}, u.resetBusy, v.resetBusy)
        /\ Starts(op, {"verify", "pageMe", "confirm"}, u.page = "calling", v.page = "calling")
        /\ u.panel \in {"closed", "menu"} => op # "logout"
    BY <1>2, <1>3, <1>4 DEF ScreenOK, QuietPart, Starts, CardOps, AvatarOps, InShell, InForm
  <2> QED BY <1>2, <1>5, <2>1, RequestSpin
<1>8. op \in RouteOps(u.route) /\ op # "bootMe"
  BY <1>4 DEF RouteOps, AvatarOps
<1> QED BY <1>2, <1>4, <1>5, <1>6, <1>7, <1>8, AskScreens

(* The menu, the card and the dialog to log out.                            *)
LEMMA ToggleMenuScreens ==
  ASSUME TypeOK, Screens, NEW t \in Tabs, ToggleMenu(t)
  PROVE  Screens'
<1> DEFINE u == ui[t]
           v == [u EXCEPT !.panel = IF @ = "menu" THEN "closed" ELSE "menu"]
<1>1. u \in Screen BY DEF TypeOK
<1>2. /\ v.route = u.route /\ v.panel = (IF u.panel = "menu" THEN "closed" ELSE "menu") /\ v.page = u.page /\ v.resending = u.resending
      /\ v.submitting = u.submitting /\ v.sending = u.sending /\ v.crop = u.crop
      /\ v.banner = u.banner /\ v.resetBusy = u.resetBusy
  BY <1>1 DEF Screen
<1>3. ScreenOK(t, tab[t], u, calls) BY DEF Screens
<1>4. u.panel \in {"closed", "menu"} /\ u.route = "gate" /\ tab[t].boot = "done" /\ tab[t].session.n # 0
  BY DEF ToggleMenu, Trigger, Shell, LoggedIn
<1>5. QuietPart(tab[t], v)
  BY <1>2, <1>3, <1>4 DEF ScreenOK, QuietPart, InShell, InForm
<1>6. SpinPart(t, tab[t], v, calls)
  <2>1. v.panel \in {"closed", "menu"} /\ CardOps(v) = CardOps(u)
    BY <1>2, <1>4 DEF CardOps
  <2> QED BY <1>2, <1>3, <1>4, <2>1 DEF ScreenOK, SpinPart
<1>7. Ui(t, v) BY DEF ToggleMenu
<1> QED BY <1>2, <1>5, <1>6, <1>7, UiScreens

(* A panel opens from the menu, where no request of the card is attached.   *)
LEMMA OpenPanelScreens ==
  ASSUME TypeOK, Screens, NEW t \in Tabs, NEW p, OpenPanel(t, p)
  PROVE  Screens'
<1> DEFINE u == ui[t]
           v == [u EXCEPT !.panel = p]
<1>1. u \in Screen BY DEF TypeOK
<1>2. /\ v.route = u.route /\ v.panel = p /\ v.page = u.page /\ v.resending = u.resending
      /\ v.submitting = u.submitting /\ v.sending = u.sending /\ v.crop = u.crop
      /\ v.banner = u.banner /\ v.resetBusy = u.resetBusy
  BY <1>1 DEF Screen
<1>3. ScreenOK(t, tab[t], u, calls) BY DEF Screens
<1>4. p \in {"account", "logout"} /\ u.panel = "menu" /\ u.route = "gate" /\ tab[t].boot = "done" /\ tab[t].session.n # 0
  BY DEF OpenPanel, MenuContent, Shell, LoggedIn
<1>5. QuietPart(tab[t], v)
  BY <1>2, <1>3, <1>4 DEF ScreenOK, QuietPart, InShell, InForm
<1>6. SpinPart(t, tab[t], v, calls)
  <2>1. ~u.submitting BY <1>3, <1>4 DEF ScreenOK, QuietPart
  <2>2. Shown(calls, t, CardOps(u)) = {} /\ Shown(calls, t, {"logout"}) = {}
    BY <1>3, <1>4, <2>1 DEF ScreenOK, SpinPart, Matches
  <2>3. Shown(calls, t, CardOps(v)) = {}
    BY <1>4, <2>2 DEF Shown, CardOps
  <2>4. Matches(Shown(calls, t, CardOps(v)), v.submitting)
    BY <1>2, <2>1, <2>3 DEF Matches
  <2> QED BY <1>2, <1>3, <1>4, <2>4 DEF ScreenOK, SpinPart
<1>7. Ui(t, v) BY DEF OpenPanel
<1> QED BY <1>2, <1>5, <1>6, <1>7, UiScreens

(* The views of the card and the cropper.                                   *)
LEMMA SetViewScreens ==
  ASSUME TypeOK, Screens, NEW t \in Tabs, NEW w, SetView(t, w)
  PROVE  Screens'
<1> DEFINE u == ui[t]
           v == [u EXCEPT !.view = w]
<1>1. u \in Screen BY DEF TypeOK
<1>2. /\ v.route = u.route /\ v.panel = u.panel /\ v.page = u.page /\ v.resending = u.resending
      /\ v.submitting = u.submitting /\ v.sending = u.sending /\ v.crop = u.crop
      /\ v.banner = u.banner /\ v.resetBusy = u.resetBusy
  BY <1>1 DEF Screen
<1>3. ScreenOK(t, tab[t], u, calls) BY DEF Screens
<1>4. TRUE
  BY DEF SetView, Ui
<1>5. QuietPart(tab[t], v)
  BY <1>2, <1>3, <1>4 DEF ScreenOK, QuietPart, InShell, InForm
<1>6. SpinPart(t, tab[t], v, calls)
  BY <1>2, <1>3, <1>4 DEF ScreenOK, QuietPart, SpinPart, CardOps, InShell, InForm
<1>7. Ui(t, v) BY DEF SetView
<1> QED BY <1>2, <1>5, <1>6, <1>7, UiScreens

(* The cropper opens where no upload is attached.                           *)
LEMMA ChooseAvatarScreens ==
  ASSUME TypeOK, Screens, NEW t \in Tabs, ChooseAvatar(t)
  PROVE  Screens'
<1> DEFINE u == ui[t]
           v == [u EXCEPT !.crop = "open"]
<1>1. u \in Screen BY DEF TypeOK
<1>2. /\ v.route = u.route /\ v.panel = u.panel /\ v.page = u.page /\ v.resending = u.resending
      /\ v.submitting = u.submitting /\ v.sending = u.sending /\ v.crop = "open"
      /\ v.banner = u.banner /\ v.resetBusy = u.resetBusy
  BY <1>1 DEF Screen
<1>3. ScreenOK(t, tab[t], u, calls) BY DEF Screens
<1>4. u.panel = "account" /\ u.crop = "none" /\ u.route = "gate" /\ tab[t].boot = "done" /\ tab[t].session.n # 0
  BY DEF ChooseAvatar, Card, Shell, LoggedIn
<1>5. QuietPart(tab[t], v)
  BY <1>2, <1>3, <1>4 DEF ScreenOK, QuietPart, InShell, InForm
<1>6. SpinPart(t, tab[t], v, calls)
  BY <1>2, <1>3, <1>4 DEF ScreenOK, QuietPart, SpinPart, CardOps, InShell, InForm
<1>7. Ui(t, v) BY DEF ChooseAvatar
<1> QED BY <1>2, <1>5, <1>6, <1>7, UiScreens

(* The countdown of the reminder ends.                                      *)
LEMMA BannerReadyScreens ==
  ASSUME TypeOK, Screens, NEW t \in Tabs, BannerReady(t)
  PROVE  Screens'
<1> DEFINE u == ui[t]
           v == [u EXCEPT !.banner = "ready"]
<1>1. u \in Screen BY DEF TypeOK
<1>2. /\ v.route = u.route /\ v.panel = u.panel /\ v.page = u.page /\ v.resending = u.resending
      /\ v.submitting = u.submitting /\ v.sending = u.sending /\ v.crop = u.crop
      /\ v.banner = "ready" /\ v.resetBusy = u.resetBusy
  BY <1>1 DEF Screen
<1>3. ScreenOK(t, tab[t], u, calls) BY DEF Screens
<1>4. u.banner = "cooling"
  BY DEF BannerReady, Ui
<1>5. QuietPart(tab[t], v)
  BY <1>2, <1>3, <1>4 DEF ScreenOK, QuietPart, InShell, InForm
<1>6. SpinPart(t, tab[t], v, calls)
  BY <1>2, <1>3, <1>4 DEF ScreenOK, QuietPart, SpinPart, CardOps, InShell, InForm
<1>7. Ui(t, v) BY DEF BannerReady
<1> QED BY <1>2, <1>5, <1>6, <1>7, UiScreens

(* The requests of a tab after some of its screen is gone.                  *)
LEMMA CancelCropScreens ==
  ASSUME TypeOK, Screens, NEW t \in Tabs, CancelCrop(t)
  PROVE  Screens'
<1> DEFINE u == ui[t]
           v == [u EXCEPT !.crop = "none"]
<1>1. u \in Screen BY DEF TypeOK
<1>2. /\ v.route = u.route /\ v.panel = u.panel /\ v.page = u.page /\ v.resending = u.resending
      /\ v.submitting = u.submitting /\ v.sending = u.sending /\ v.crop = "none"
      /\ v.banner = u.banner /\ v.resetBusy = u.resetBusy
  BY <1>1 DEF Screen
<1>3. ScreenOK(t, tab[t], u, calls) BY DEF Screens
<1>4. u.route = "gate" /\ tab[t].boot = "done" /\ tab[t].session.n # 0
  BY DEF CancelCrop, Cropper, Shell, LoggedIn
<1>5. tab' = [tab EXCEPT ![t] = tab[t]] /\ ui' = [ui EXCEPT ![t] = v]
  BY DEF CancelCrop, TypeOK, SessionTypes
<1>6. /\ DOMAIN calls' = DOMAIN calls
      /\ \A i \in DOMAIN calls :
           /\ calls'[i].tab = calls[i].tab /\ calls'[i].op = calls[i].op
           /\ calls'[i].att = IF calls[i].tab = t /\ calls[i].op \in AvatarOps /\ calls[i].att = "yes"
                                THEN "card" ELSE calls[i].att
  BY DEF CancelCrop, WithoutCropper, TypeOK, SessionTypes, Call
<1>7. \A r : Mine(calls', r) = Mine(calls, r)
  BY <1>6 DEF Mine
<1>8. \A ops : ops \cap AvatarOps = {} => Shown(calls', t, ops) = Shown(calls, t, ops)
  BY <1>6 DEF Shown
<1>9. Shown(calls', t, AvatarOps) = {}
  BY <1>6 DEF Shown
<1> HIDE DEF v
<1>10. RoutePart(t, v, calls') /\ BootPart(t, tab[t], v, calls')
  BY <1>2, <1>3, <1>4, <1>6, <1>7 DEF ScreenOK, RoutePart, BootPart, Mine
<1>11. QuietPart(tab[t], v)
  BY <1>2, <1>3 DEF ScreenOK, QuietPart, InShell, InForm
<1>12. SpinPart(t, tab[t], v, calls')
  <2>1. CardOps(v) = CardOps(u) BY <1>2 DEF CardOps
  <2>2. /\ CardOps(u) \cap AvatarOps = {} /\ {"resend"} \cap AvatarOps = {}
        /\ {"bannerSend"} \cap AvatarOps = {} /\ {"pageResend"} \cap AvatarOps = {}
        /\ {"requestReset"} \cap AvatarOps = {} /\ {"login", "register"} \cap AvatarOps = {}
        /\ {"verify", "pageMe", "confirm"} \cap AvatarOps = {} /\ {"logout"} \cap AvatarOps = {}
    BY DEF CardOps, AvatarOps
  <2>3. Matches(Shown(calls', t, AvatarOps), v.crop = "busy")
    BY <1>2, <1>9 DEF Matches
  <2> QED BY <1>2, <1>3, <1>8, <2>1, <2>2, <2>3 DEF ScreenOK, SpinPart
<1>13. \A r \in Tabs : r # t =>
         /\ Mine(calls', r) = Mine(calls, r)
         /\ \A i \in Mine(calls, r) : calls'[i].op = calls[i].op /\ calls'[i].att = calls[i].att
  BY <1>6, <1>7 DEF Mine
<1>14. ScreenOK(t, tab[t], v, calls')
  BY <1>10, <1>11, <1>12 DEF ScreenOK
<1> QED BY <1>5, <1>13, <1>14, LocalScreens

(* The card is unmounted: its requests are detached with their spinners.    *)
LEMMA ClosePanelScreens ==
  ASSUME TypeOK, Screens, NEW t \in Tabs, ClosePanel(t)
  PROVE  Screens'
<1> DEFINE u == ui[t]
           v == [NewUi("gate", "form") EXCEPT !.banner = u.banner]
<1>1. /\ v.route = "gate" /\ v.panel = "closed" /\ v.page = "form" /\ ~v.resending
      /\ ~v.submitting /\ ~v.sending /\ v.crop = "none" /\ v.banner = u.banner /\ ~v.resetBusy
  BY DEF NewUi
<1>2. ScreenOK(t, tab[t], u, calls) BY DEF Screens
<1>3. u.route = "gate" /\ tab[t].boot = "done" /\ tab[t].session.n # 0
  BY DEF ClosePanel, Shell, LoggedIn
<1>4. tab' = [tab EXCEPT ![t] = tab[t]] /\ ui' = [ui EXCEPT ![t] = v]
  BY DEF ClosePanel, TypeOK, SessionTypes
<1>5. /\ DOMAIN calls' = DOMAIN calls
      /\ \A i \in DOMAIN calls :
           /\ calls'[i].tab = calls[i].tab /\ calls'[i].op = calls[i].op
           /\ calls'[i].att = IF calls[i].tab = t /\ calls[i].op # "bannerSend"
                                THEN "no" ELSE calls[i].att
  BY DEF ClosePanel, TypeOK, SessionTypes, Call
<1>6. \A r : Mine(calls', r) = Mine(calls, r)
  BY <1>5 DEF Mine
<1>7. Shown(calls', t, {"bannerSend"}) = Shown(calls, t, {"bannerSend"})
  BY <1>5 DEF Shown
<1>8. \A ops : "bannerSend" \notin ops => Shown(calls', t, ops) = {}
  BY <1>5 DEF Shown
<1> HIDE DEF v
<1>9. RoutePart(t, v, calls') /\ BootPart(t, tab[t], v, calls')
  BY <1>1, <1>2, <1>3, <1>5, <1>6 DEF ScreenOK, RoutePart, BootPart, Mine
<1>10. QuietPart(tab[t], v)
  BY <1>1, <1>2, <1>3 DEF ScreenOK, QuietPart, InShell, InForm
<1>11. SpinPart(t, tab[t], v, calls')
  <2>1. "bannerSend" \notin CardOps(v) /\ "bannerSend" \notin AvatarOps
    BY DEF CardOps, AvatarOps
  <2>2. /\ Shown(calls', t, CardOps(v)) = {} /\ Shown(calls', t, {"resend"}) = {}
        /\ Shown(calls', t, {"pageResend"}) = {} /\ Shown(calls', t, AvatarOps) = {}
        /\ Shown(calls', t, {"requestReset"}) = {} /\ Shown(calls', t, {"logout"}) = {}
        /\ Shown(calls', t, {"verify", "pageMe", "confirm"}) = {}
    BY <1>8, <2>1
  <2>3. ~tab[t].busy
    BY <1>2, <1>3 DEF ScreenOK, QuietPart, InForm
  <2>4. Matches(Shown(calls', t, {"bannerSend"}), v.banner = "sending")
    BY <1>1, <1>2, <1>7 DEF ScreenOK, SpinPart
  <2> QED BY <1>1, <2>2, <2>3, <2>4 DEF SpinPart, Matches
<1>12. \A r \in Tabs : r # t =>
         /\ Mine(calls', r) = Mine(calls, r)
         /\ \A i \in Mine(calls, r) : calls'[i].op = calls[i].op /\ calls'[i].att = calls[i].att
  BY <1>5, <1>6 DEF Mine
<1>13. ScreenOK(t, tab[t], v, calls')
  BY <1>9, <1>10, <1>11 DEF ScreenOK
<1> QED BY <1>4, <1>12, <1>13, LocalScreens

(* logout without a token in the store is over at once.                     *)
LEMMA LogoutScreens ==
  ASSUME TypeOK, Screens, NEW t \in Tabs, Logout(t)
  PROVE  Screens'
<1> DEFINE u == ui[t]
<1>1. u \in Screen BY DEF TypeOK
<1>2. ScreenOK(t, tab[t], u, calls) BY DEF Screens
<1>3. u.panel = "logout" /\ u.route = "gate" /\ tab[t].boot = "done" /\ tab[t].session.n # 0
  BY DEF Logout, LogoutDialog, Shell, LoggedIn
<1>4. CASE store.n = 0
  <2>1. Continue(t, NoSession, ResetTab, u, calls)
    BY <1>4 DEF Logout
  <2>2. Swaps(t, ResetTab, u) /\ ResetTab.boot = "done" /\ ~ResetTab.busy
    BY <1>3 DEF Swaps, LoggedIn, ResetTab, NoSession
  <2>3. \A i \in Mine(calls, t) : calls[i].op \in RouteOps("gate") \ {"bootMe"}
    BY <1>2, <1>3 DEF ScreenOK, RoutePart, BootPart
  <2>4. \A i \in DOMAIN calls : calls[i] \in Call
    BY DEF TypeOK, SessionTypes
  <2> QED BY <1>1, <2>1, <2>2, <2>3, <2>4, ContinueScreens
<1>5. CASE store.n # 0
  <2> DEFINE op == "logout"
             v == u
  <2>1. Open(t, op, v) /\ Request(t, op)
    BY <1>5 DEF Logout, Ask, Open
  <2>2. QuietPart(tab[t], v) BY <1>2 DEF ScreenOK
  <2>3. SpinPart(t, tab[t], v, calls')
    <3>1. /\ Starts(op, CardOps(u), u.submitting, v.submitting)
          /\ Starts(op, {"resend"}, u.sending, v.sending)
          /\ Starts(op, {"bannerSend"}, u.banner = "sending", v.banner = "sending")
          /\ Starts(op, {"pageResend"}, u.resending, v.resending)
          /\ Starts(op, AvatarOps, u.crop = "busy", v.crop = "busy")
          /\ Starts(op, {"requestReset"}, u.resetBusy, v.resetBusy)
          /\ Starts(op, {"verify", "pageMe", "confirm"}, u.page = "calling", v.page = "calling")
      BY <1>3 DEF Starts, CardOps, AvatarOps
    <3> QED BY <1>3, <2>1, <3>1, RequestSpin
  <2>4. op \in RouteOps(v.route) /\ op # "bootMe"
    BY <1>3 DEF RouteOps
  <2> QED BY <1>3, <2>1, <2>2, <2>3, <2>4, AskScreens
<1> QED BY <1>4, <1>5
-----------------------------------------------------------------------------
(* Answers                                                                  *)

(* Only a screen that is not waited for by AuthGate sees anything but the   *)
(* answer of the start-up.                                                  *)
LEMMA BootDone ==
  ASSUME TypeOK, Screens, NEW t \in Tabs, NEW i \in Mine(calls, t), ui[t].route = "gate"
  PROVE  \/ tab[t].boot = "done" /\ calls[i].op # "bootMe"
         \/ tab[t].boot = "restoring" /\ calls[i].op = "bootMe" /\ Mine(calls, t) = {i}
<1>1. BootPart(t, tab[t], ui[t], calls) BY DEF Screens, ScreenOK
<1>2. CASE tab[t].boot = "done" BY <1>1, <1>2 DEF BootPart
<1>3. CASE tab[t].boot # "done"
  <2>1. tab[t].boot # "new" BY <1>1 DEF BootPart
  <2>2. \A j \in Mine(calls, t) : j = i BY <1>1, <1>3 DEF BootPart
  <2>3. Mine(calls, t) = {i} BY <2>2
  <2>4. tab[t].boot \in {"new", "restoring", "done"} BY DEF TypeOK, SessionTypes, TabState
  <2>5. calls[i].op = "bootMe" BY <1>1, <1>3 DEF BootPart
  <2> QED BY <1>3, <2>1, <2>3, <2>4, <2>5
<1> QED BY <1>2, <1>3

(* A screen with another value of a field is a screen.                      *)
LEMMA ScreenFields ==
  ASSUME NEW u \in Screen
  PROVE  /\ \A b \in BOOLEAN : [u EXCEPT !.submitting = b] \in Screen /\ [u EXCEPT !.sending = b] \in Screen
         /\ \A b \in BOOLEAN : [u EXCEPT !.resending = b] \in Screen /\ [u EXCEPT !.resetBusy = b] \in Screen
         /\ \A b \in BOOLEAN : [u EXCEPT !.vok = b] \in Screen /\ [u EXCEPT !.sent = b] \in Screen
         /\ \A e \in {"ready", "sending", "cooling"} : [u EXCEPT !.banner = e] \in Screen
         /\ \A e \in {"none", "open", "busy"} : [u EXCEPT !.crop = e] \in Screen
         /\ \A e \in {"overview", "password", "deletion"} : [u EXCEPT !.view = e] \in Screen
         /\ \A e \in {"login", "register", "forgot"} : [u EXCEPT !.mode = e] \in Screen
         /\ \A e \in {"closed", "menu", "account", "logout"} : [u EXCEPT !.panel = e] \in Screen
         /\ \A e \in {"loading", "calling", "form", "busy", "success", "error"} :
              [u EXCEPT !.page = e] \in Screen
<1>1. /\ \A b \in BOOLEAN : [u EXCEPT !.submitting = b] \in Screen /\ [u EXCEPT !.sending = b] \in Screen
      /\ \A b \in BOOLEAN : [u EXCEPT !.resending = b] \in Screen /\ [u EXCEPT !.resetBusy = b] \in Screen
      /\ \A b \in BOOLEAN : [u EXCEPT !.vok = b] \in Screen /\ [u EXCEPT !.sent = b] \in Screen
  BY DEF Screen
<1>2. \A e \in {"ready", "sending", "cooling"} : [u EXCEPT !.banner = e] \in Screen
  BY DEF Screen
<1>3. \A e \in {"none", "open", "busy"} : [u EXCEPT !.crop = e] \in Screen
  BY DEF Screen
<1>4. \A e \in {"overview", "password", "deletion"} : [u EXCEPT !.view = e] \in Screen
  BY DEF Screen
<1>5. \A e \in {"login", "register", "forgot"} : [u EXCEPT !.mode = e] \in Screen
  BY DEF Screen
<1>6. \A e \in {"closed", "menu", "account", "logout"} : [u EXCEPT !.panel = e] \in Screen
  BY DEF Screen
<1>7. \A e \in {"loading", "calling", "form", "busy", "success", "error"} : [u EXCEPT !.page = e] \in Screen
  BY DEF Screen
<1> QED BY <1>1, <1>2, <1>3, <1>4, <1>5, <1>6, <1>7

(* A screen after rejections is a screen of the same route.                 *)
LEMMA FailTypes ==
  ASSUME NEW u \in Screen, NEW S
  PROVE  FailUi(S, u) \in Screen /\ FailUi(S, u).route = u.route
<1> DEFINE a == u.submitting /\ S \cap {"profile", "changePassword", "requestDeletion"} = {}
           b == u.sending /\ "resend" \notin S
           c == u.resending /\ "pageResend" \notin S
           d == u.resetBusy /\ "requestReset" \notin S
           e == IF "bannerSend" \in S THEN "ready" ELSE u.banner
           f == IF S \cap AvatarOps # {} THEN "open" ELSE u.crop
           g == IF "reset" \in S THEN "form" ELSE IF "confirm" \in S THEN "error"
                ELSE IF "pageMe" \in S THEN IF u.vok THEN "success" ELSE "error" ELSE u.page
           w1 == [u EXCEPT !.submitting = a]
           w2 == [w1 EXCEPT !.sending = b]
           w3 == [w2 EXCEPT !.resending = c]
           w4 == [w3 EXCEPT !.resetBusy = d]
           w5 == [w4 EXCEPT !.banner = e]
           w6 == [w5 EXCEPT !.crop = f]
           w7 == [w6 EXCEPT !.page = g]
<1>1. FailUi(S, u) = w7
  BY DEF FailUi
<1>2. a \in BOOLEAN /\ b \in BOOLEAN /\ c \in BOOLEAN /\ d \in BOOLEAN
  OBVIOUS
<1>3. /\ e \in {"ready", "sending", "cooling"} /\ f \in {"none", "open", "busy"}
      /\ g \in {"loading", "calling", "form", "busy", "success", "error"}
  BY DEF Screen
<1>4. w7.route = u.route
  BY DEF Screen
<1> HIDE DEF a, b, c, d, e, f, g, w1, w2, w3, w4, w5, w6, w7
<1>5. w1 \in Screen BY <1>2, ScreenFields DEF w1
<1>6. w2 \in Screen BY <1>2, <1>5, ScreenFields DEF w2
<1>7. w3 \in Screen BY <1>2, <1>6, ScreenFields DEF w3
<1>8. w4 \in Screen BY <1>2, <1>7, ScreenFields DEF w4
<1>9. w5 \in Screen BY <1>3, <1>8, ScreenFields DEF w5
<1>10. w6 \in Screen BY <1>3, <1>9, ScreenFields DEF w6
<1>11. w7 \in Screen BY <1>3, <1>10, ScreenFields DEF w7
<1> QED BY <1>1, <1>4, <1>11

(* Rejections leave what the unmounted screens left behind.                 *)
LEMMA FailQuiet ==
  ASSUME TypeOK, Screens, NEW t \in Tabs, NEW I, I \subseteq Mine(calls, t), NEW tb,
         InShell(tb, ui[t]) <=> InShell(tab[t], ui[t]), ~InForm(tab[t], ui[t]) => ~tb.busy,
         InForm(tb, ui[t]) <=> InForm(tab[t], ui[t])
  PROVE  QuietPart(tb, FailUi(Attached(I), ui[t]))
<1> DEFINE S == Attached(I)
           u == ui[t]
           v == FailUi(S, u)
<1>1. u \in Screen BY DEF TypeOK
<1>2. RoutePart(t, u, calls) /\ QuietPart(tab[t], u) /\ SpinPart(t, tab[t], u, calls)
  BY DEF Screens, ScreenOK
<1>3. /\ v.panel = u.panel /\ v.route = u.route
      /\ v.submitting = (u.submitting /\ S \cap {"profile", "changePassword", "requestDeletion"} = {})
      /\ v.sending = (u.sending /\ "resend" \notin S)
      /\ v.resending = (u.resending /\ "pageResend" \notin S)
      /\ v.resetBusy = (u.resetBusy /\ "requestReset" \notin S)
      /\ v.banner = IF "bannerSend" \in S THEN "ready" ELSE u.banner
      /\ v.crop = IF S \cap AvatarOps # {} THEN "open" ELSE u.crop
      /\ v.page = IF "reset" \in S THEN "form" ELSE IF "confirm" \in S THEN "error"
                  ELSE IF "pageMe" \in S THEN IF u.vok THEN "success" ELSE "error" ELSE u.page
  BY <1>1 DEF FailUi, Screen
<1>4. S \cap AvatarOps # {} => u.panel = "account"
  <2>1. S \cap AvatarOps # {} => Shown(calls, t, AvatarOps) # {}
    BY AttachedShown
  <2> QED BY <1>2, <2>1 DEF SpinPart, Matches, QuietPart
<1>5. \A op \in S : op \in RouteOps(u.route)
  BY <1>2 DEF Attached, RoutePart
<1>6. u.route = "gate" => S \cap {"confirm", "pageMe"} = {}
  BY <1>5 DEF RouteOps, AvatarOps
<1>7. u.route = "reset" => S \cap {"confirm", "pageMe"} = {}
  BY <1>5 DEF RouteOps
<1> HIDE DEF v, S
<1>8. InShell(tb, v) = InShell(tb, u) /\ InForm(tb, v) = InForm(tb, u)
  BY <1>3 DEF InShell, InForm
<1>9. /\ ~InShell(tb, v) => v.panel = "closed" /\ v.banner # "sending"
      /\ ~InForm(tb, v) => ~v.resetBusy /\ ~tb.busy
  BY <1>2, <1>3, <1>8 DEF QuietPart
<1>10. v.panel # "account" => v.crop = "none" /\ ~v.submitting /\ ~v.sending
  BY <1>2, <1>3, <1>4 DEF QuietPart
<1>11. v.route = "gate" => v.page = "form" /\ ~v.resending
  BY <1>2, <1>3, <1>6 DEF QuietPart
<1>12. v.route = "reset" => v.page # "calling"
  BY <1>2, <1>3, <1>7 DEF QuietPart
<1> QED BY <1>9, <1>10, <1>11, <1>12 DEF QuietPart, v, S

(* The session is gone for the requests in I.                               *)
LEMMA ExpireScreens ==
  ASSUME TypeOK, Screens, NEW t \in Tabs, NEW I, I \subseteq Mine(calls, t), I # {},
         \A i \in I : calls[i].op \in AuthedOps, ExpireAuth(t, I, Settled(I))
  PROVE  Screens'
<1> DEFINE u == ui[t]
           v == FailUi(Attached(I), u)
           tb == ResetTab
<1>1. u \in Screen BY DEF TypeOK
<1>2. v \in Screen /\ v.route = u.route
  BY <1>1, FailTypes
<1>3. Continue(t, NoSession, tb, v, Settled(I)) BY DEF ExpireAuth
<1>4. tb.boot = "done" /\ ~tb.busy /\ tb.session.n = 0
  BY DEF ResetTab, NoSession
<1>5. Attached(I) \cap {"logout", "verify"} = {}
  BY DEF Attached, AuthedOps, AvatarOps
<1>6. u.route = "gate" => tab[t].boot = "done" \/ Mine(calls, t) \subseteq I
  BY BootDone
<1> HIDE DEF v, tb
<1>7. ASSUME ~Swaps(t, tb, v) PROVE QuietPart(tb, v) /\ SpinPart(t, tb, v, Settled(I))
  <2>1. /\ InShell(tb, u) <=> InShell(tab[t], u)
        /\ InForm(tb, u) <=> InForm(tab[t], u)
    BY <1>2, <1>4, <1>7 DEF Swaps, InShell, InForm, LoggedIn
  <2> QED BY <1>4, <1>5, <2>1, FailQuiet, FailSpin DEF v
<1> QED BY <1>2, <1>3, <1>4, <1>6, <1>7, SettleScreens

(* The session expires for want of a refresh token.                         *)
LEMMA NothingToRefreshScreens ==
  ASSUME TypeOK, Screens, NEW i \in DOMAIN calls, NothingToRefresh(i)
  PROVE  Screens'
<1>1. calls[i].tab \in Tabs BY DEF TypeOK, SessionTypes, Call
<1>2. {i} \subseteq Mine(calls, calls[i].tab) BY DEF Mine
<1>3. calls[i].op \in AuthedOps /\ ExpireAuth(calls[i].tab, {i}, Settled({i}))
  BY DEF NothingToRefresh, Unauthorized, Over
<1> QED BY <1>1, <1>2, <1>3, ExpireScreens

(* The session expires with all the requests that waited for the refresh.   *)
LEMMA RefreshFailedScreens ==
  ASSUME TypeOK, WaitInv, Screens, NEW t \in Tabs, RefreshFailed(t)
  PROVE  Screens'
<1>1. Waiting(t) \subseteq Mine(calls, t) BY DEF Waiting, Flying, Mine
<1>2. Waiting(t) # {} BY DEF RefreshFailed, WaitInv
<1>3. \A i \in Waiting(t) : calls[i].op \in AuthedOps
  BY DEF Waiting, Flying, WaitInv
<1> QED BY <1>1, <1>2, <1>3, ExpireScreens DEF RefreshFailed

(* A rejection turns off the spinner of its own request.                    *)
LEMMA RejectedScreens ==
  ASSUME TypeOK, Screens, NEW i \in DOMAIN calls, Rejected(i)
  PROVE  Screens'
<1> DEFINE c == calls[i]
           t == c.tab
           u == ui[t]
           v == FailUi(Attached({i}), u)
           tb == [tab[t] EXCEPT !.busy = @ /\ c.op \notin {"login", "register"},
                                !.boot = IF c.op = "bootMe" THEN "done" ELSE @]
<1>1. t \in Tabs /\ i \in Mine(calls, t) BY DEF TypeOK, SessionTypes, Call, Mine
<1>2. u \in Screen /\ tab[t] \in TabState BY <1>1 DEF TypeOK, SessionTypes
<1>3. v \in Screen /\ v.route = u.route
  BY <1>2, FailTypes
<1>4. Continue(t, store, tb, v, Settled({i})) BY DEF Rejected, Over
<1>5. /\ tb.session = tab[t].session
      /\ tb.boot = IF c.op = "bootMe" THEN "done" ELSE tab[t].boot
      /\ tb.busy = (tab[t].busy /\ c.op \notin {"login", "register"})
  BY <1>2 DEF TabState
<1>6. Attached({i}) \cap {"logout", "verify"} = {}
  BY DEF Attached, Rejected
<1>7. QuietPart(tab[t], u) /\ SpinPart(t, tab[t], u, calls) BY <1>1 DEF Screens, ScreenOK
<1>8. tb.busy => Shown(Settled({i}), t, {"login", "register"}) # {}
  <2>1. \A r, o : Shown(Settled({i}), r, o) = Shown(calls, r, o) \ {i}
    BY SettledShows
  <2>2. tb.busy => Shown(calls, t, {"login", "register"}) # {}
    BY <1>5, <1>7 DEF SpinPart
  <2>3. tb.busy => i \notin Shown(calls, t, {"login", "register"})
    BY <1>5 DEF Shown
  <2> QED BY <2>1, <2>2, <2>3
<1>9. u.route = "gate" =>
        \/ tab[t].boot = "done" /\ tb.boot = "done"
        \/ tab[t].boot = "restoring" /\ tb.boot = "done" /\ Mine(calls, t) = {i}
  BY <1>1, <1>5, BootDone
<1> HIDE DEF v, tb
<1>10. ASSUME Swaps(t, tb, v) PROVE ~tb.busy
  BY <1>3, <1>5, <1>7, <1>9, <1>10 DEF Swaps, QuietPart, InForm, LoggedIn
<1>11. ASSUME ~Swaps(t, tb, v) PROVE QuietPart(tb, v) /\ SpinPart(t, tb, v, Settled({i}))
  <2>1. /\ InShell(tb, u) <=> InShell(tab[t], u)
        /\ InForm(tb, u) <=> InForm(tab[t], u)
    BY <1>3, <1>5, <1>11 DEF Swaps, InShell, InForm, LoggedIn
  <2>2. ~InForm(tab[t], u) => ~tb.busy
    BY <1>5, <1>7 DEF QuietPart
  <2> QED BY <1>1, <1>6, <1>8, <2>1, <2>2, FailQuiet, FailSpin DEF v
<1>12. {i} \subseteq Mine(calls, t) BY <1>1
<1>13. u.route = "gate" => tb.boot = "done" /\ (tab[t].boot = "done" \/ Mine(calls, t) \subseteq {i})
  BY <1>9
<1> HIDE DEF t, u
<1> QED BY <1>1, <1>3, <1>4, <1>10, <1>11, <1>12, <1>13, SettleScreens DEF u

(* One request settles.                                                     *)
LEMMA AttachedOne ==
  ASSUME NEW i \in DOMAIN calls
  PROVE  Attached({i}) = IF calls[i].att = "yes" THEN {calls[i].op} ELSE {}
BY DEF Attached

(* A continuation that ends one request keeps Screens if the screen it      *)
(* leaves does, or if AuthGate mounts another one.                          *)
LEMMA SettleOne ==
  ASSUME TypeOK, Screens, NEW i \in DOMAIN calls, NEW t, t = calls[i].tab,
         NEW s, NEW tb, NEW v \in Screen, Continue(t, s, tb, v, Over(i)), v.route = ui[t].route,
         ui[t].route = "gate" => tb.boot = "done" \/ (calls[i].op # "bootMe" /\ tb.boot = tab[t].boot),
         Swaps(t, tb, v) => ~tb.busy,
         ~Swaps(t, tb, v) => QuietPart(tb, v) /\ SpinPart(t, tb, v, Settled({i}))
  PROVE  Screens'
<1>1. t \in Tabs /\ i \in Mine(calls, t) BY DEF TypeOK, SessionTypes, Call, Mine
<1>2. {i} \subseteq Mine(calls, t) BY <1>1
<1>3. v.route = "gate" =>
        tb.boot = "done" /\ (tab[t].boot = "done" \/ Mine(calls, t) \subseteq {i})
  BY <1>1, BootDone
<1>4. Continue(t, s, tb, v, Settled({i})) BY DEF Over
<1> QED BY <1>1, <1>2, <1>3, <1>4, SettleScreens

(* The button of AuthScreen is busy as long as one of its requests is out.  *)
LEMMA BusyStays ==
  ASSUME Screens, NEW t \in Tabs, NEW i \in DOMAIN calls, calls[i].op \notin {"login", "register"},
         tab[t].busy
  PROVE  Shown(Settled({i}), t, {"login", "register"}) # {}
<1>1. \A r, o : Shown(Settled({i}), r, o) = Shown(calls, r, o) \ {i}
  BY SettledShows
<1>2. Shown(calls, t, {"login", "register"}) # {}
  BY DEF Screens, ScreenOK, SpinPart
<1>3. i \notin Shown(calls, t, {"login", "register"})
  BY DEF Shown
<1> QED BY <1>1, <1>2, <1>3

(* login and register: AuthGate mounts the shell.                           *)
LEMMA SignedInScreens ==
  ASSUME TypeOK, Screens, NEW i \in DOMAIN calls, SignedIn(i)
  PROVE  Screens'
<1> DEFINE c == calls[i]
           t == c.tab
           u == ui[t]
           s == [n |-> c.n, ver |-> c.ver]
           tb == [tab[t] EXCEPT !.session = s, !.busy = FALSE]
           S == Attached({i})
<1>1. t \in Tabs /\ {i} \subseteq Mine(calls, t) /\ i \in Mine(calls, t)
  BY DEF TypeOK, SessionTypes, Call, Mine
<1>2. u \in Screen /\ tab[t] \in TabState BY <1>1 DEF TypeOK, SessionTypes
<1>3. c.op \in {"login", "register"} /\ Continue(t, s, tb, u, Over(i))
  BY DEF SignedIn
<1>4. ScreenOK(t, tab[t], u, calls) BY <1>1 DEF Screens
<1>5. u.route = "gate" BY <1>1, <1>3, <1>4 DEF ScreenOK, RoutePart, RouteOps
<1>6. tab[t].boot = "done" BY <1>1, <1>3, <1>5, BootDone
<1>7. tb.boot = "done" /\ ~tb.busy BY <1>2, <1>6 DEF TabState
<1>8. S \subseteq {"login", "register"} BY <1>3, AttachedOne
<1> HIDE DEF tb, S
<1>9. ASSUME ~Swaps(t, tb, u) PROVE QuietPart(tb, u) /\ SpinPart(t, tb, u, Settled({i}))
  <2>1. QuietPart(tb, u)
    BY <1>4, <1>5, <1>6, <1>7, <1>9 DEF ScreenOK, QuietPart, InShell, InForm, Swaps, LoggedIn
  <2>2. /\ Ends(S, CardOps(u), u.submitting, u.submitting)
        /\ Ends(S, {"resend"}, u.sending, u.sending)
        /\ Ends(S, {"bannerSend"}, u.banner = "sending", u.banner = "sending")
        /\ Ends(S, {"pageResend"}, u.resending, u.resending)
        /\ Ends(S, AvatarOps, u.crop = "busy", u.crop = "busy")
        /\ Ends(S, {"requestReset"}, u.resetBusy, u.resetBusy)
        /\ Ends(S, {"verify", "pageMe", "confirm"}, u.page = "calling", u.page = "calling")
    BY <1>8 DEF Ends, CardOps, AvatarOps
  <2>3. SpinPart(t, tb, u, Settled({i}))
    BY <1>1, <1>7, <2>2, SettleSpin DEF S
  <2> QED BY <2>1, <2>3
<1> HIDE DEF t, u, s, c
<1> QED BY <1>2, <1>3, <1>7, <1>9, SettleOne DEF t, c, u

(* logout: AuthGate mounts the form, if the shell was there.                *)
LEMMA LoggedOutScreens ==
  ASSUME TypeOK, Screens, NEW i \in DOMAIN calls, LoggedOut(i)
  PROVE  Screens'
<1> DEFINE c == calls[i]
           t == c.tab
           u == ui[t]
           tb == ResetTab
           S == Attached({i})
<1>1. t \in Tabs /\ {i} \subseteq Mine(calls, t) /\ i \in Mine(calls, t)
  BY DEF TypeOK, SessionTypes, Call, Mine
<1>2. u \in Screen BY <1>1 DEF TypeOK
<1>3. c.op = "logout" /\ Continue(t, NoSession, tb, u, Over(i))
  BY DEF LoggedOut
<1>4. ScreenOK(t, tab[t], u, calls) BY <1>1 DEF Screens
<1>5. u.route = "gate" BY <1>1, <1>3, <1>4 DEF ScreenOK, RoutePart, RouteOps
<1>6. tab[t].boot = "done" BY <1>1, <1>3, <1>5, BootDone
<1>7. tb.boot = "done" /\ ~tb.busy /\ tb.session.n = 0 BY DEF ResetTab, NoSession
<1>8. S \subseteq {"logout"} BY <1>3, AttachedOne
<1> HIDE DEF tb, S
<1>9. ASSUME ~Swaps(t, tb, u) PROVE QuietPart(tb, u) /\ SpinPart(t, tb, u, Settled({i}))
  <2>1. QuietPart(tb, u) /\ u.panel = "closed"
    BY <1>4, <1>5, <1>6, <1>7, <1>9 DEF ScreenOK, QuietPart, InShell, InForm, Swaps, LoggedIn
  <2>2. /\ Ends(S, CardOps(u), u.submitting, u.submitting)
        /\ Ends(S, {"resend"}, u.sending, u.sending)
        /\ Ends(S, {"bannerSend"}, u.banner = "sending", u.banner = "sending")
        /\ Ends(S, {"pageResend"}, u.resending, u.resending)
        /\ Ends(S, AvatarOps, u.crop = "busy", u.crop = "busy")
        /\ Ends(S, {"requestReset"}, u.resetBusy, u.resetBusy)
        /\ Ends(S, {"verify", "pageMe", "confirm"}, u.page = "calling", u.page = "calling")
    BY <1>8, <2>1 DEF Ends, CardOps, AvatarOps
  <2>3. SpinPart(t, tb, u, Settled({i}))
    BY <1>1, <1>7, <2>2, SettleSpin DEF S
  <2> QED BY <2>1, <2>3
<1> HIDE DEF t, u, c
<1> QED BY <1>2, <1>3, <1>7, <1>9, SettleOne DEF t, c, u

(* The screen after an answer with the user.                                *)
UpdatedUi(c, u) ==
  [u EXCEPT !.submitting = @ /\ ~(c.op = "profile" /\ c.att = "yes"),
            !.page = IF c.op # "pageMe" THEN @
                     ELSE IF u.vok \/ c.ver THEN "success" ELSE "error"]

(* The screen after an answered /me or profile is a screen.                 *)
LEMMA UpdatedType ==
  ASSUME NEW u \in Screen, NEW c
  PROVE  UpdatedUi(c, u) \in Screen
<1> DEFINE on == c.op = "profile" /\ c.att = "yes"
           a == u.submitting /\ ~on
           g == IF c.op # "pageMe" THEN u.page
                ELSE IF u.vok \/ c.ver THEN "success" ELSE "error"
           w == [u EXCEPT !.submitting = a]
           v == [w EXCEPT !.page = g]
<1>1. UpdatedUi(c, u) = v
  BY DEF UpdatedUi
<1>2. a \in BOOLEAN /\ g \in {"loading", "calling", "form", "busy", "success", "error"}
  BY DEF Screen
<1> HIDE DEF a, g, w, v
<1>3. w \in Screen BY <1>2, ScreenFields DEF w
<1>4. v \in Screen BY <1>2, <1>3, ScreenFields DEF v
<1> QED BY <1>1, <1>4

(* me and updateProfile turn off the spinner of their own request.          *)
LEMMA UserUpdatedScreens ==
  ASSUME TypeOK, Screens, NEW i \in DOMAIN calls, UserUpdated(i)
  PROVE  Screens'
<1> DEFINE c == calls[i]
           t == c.tab
           u == ui[t]
           on == c.op = "profile" /\ c.att = "yes"
           a == u.submitting /\ ~on
           g == IF c.op # "pageMe" THEN u.page
                ELSE IF u.vok \/ c.ver THEN "success" ELSE "error"
           s == WithUser(tab[t].session, c.ver)
           d == IF c.op = "bootMe" THEN "done" ELSE tab[t].boot
           tb == [tab[t] EXCEPT !.session = s, !.boot = d]
           v == UpdatedUi(c, u)
           S == Attached({i})
<1>1. t \in Tabs /\ {i} \subseteq Mine(calls, t) /\ i \in Mine(calls, t)
  BY DEF TypeOK, SessionTypes, Call, Mine
<1>2. u \in Screen /\ tab[t] \in TabState BY <1>1 DEF TypeOK, SessionTypes
<1>3. c.op \in {"bootMe", "pageMe", "profile"} /\ Continue(t, WithUser(store, c.ver), tb, v, Over(i))
  BY DEF UserUpdated, UpdatedUi
<1>4. RoutePart(t, u, calls) /\ QuietPart(tab[t], u) /\ SpinPart(t, tab[t], u, calls)
  BY <1>1 DEF Screens, ScreenOK
<1>5. c.op = "pageMe" => u.route = "verify" /\ c.att = "yes"
  BY <1>1, <1>4 DEF RoutePart, RouteOps, AvatarOps
<1>6. /\ tb.boot = (IF c.op = "bootMe" THEN "done" ELSE tab[t].boot) /\ tb.busy = tab[t].busy
      /\ tb.session = s /\ s.n = tab[t].session.n
  BY <1>2 DEF TabState, WithUser, Session
<1>7. v \in Screen
  BY <1>2, UpdatedType
<1>8. /\ v.route = u.route /\ v.panel = u.panel /\ v.submitting = a /\ v.page = g
      /\ v.sending = u.sending /\ v.resending = u.resending /\ v.resetBusy = u.resetBusy
      /\ v.banner = u.banner /\ v.crop = u.crop
  BY <1>2 DEF Screen, UpdatedUi
<1>9. S = IF c.att = "yes" THEN {c.op} ELSE {}
  BY AttachedOne
<1>10. g # u.page => c.op = "pageMe" /\ g # "calling"
  OBVIOUS
<1>11. c.op = "pageMe" => g # "calling"
  OBVIOUS
<1>12. u.route = "gate" => tb.boot = "done" \/ (c.op # "bootMe" /\ tb.boot = tab[t].boot)
  BY <1>6
<1>13. ~InForm(tab[t], u) => ~tb.busy
  BY <1>4, <1>6 DEF QuietPart
<1> HIDE DEF tb, v, g, s, d, S
<1>14. ASSUME Swaps(t, tb, v) PROVE ~tb.busy
  BY <1>6, <1>8, <1>13, <1>14 DEF Swaps, LoggedIn, InForm
<1>15. ASSUME ~Swaps(t, tb, v) PROVE QuietPart(tb, v) /\ SpinPart(t, tb, v, Settled({i}))
  <2>1. /\ InShell(tb, v) <=> InShell(tab[t], u)
        /\ InForm(tb, v) <=> InForm(tab[t], u)
    BY <1>6, <1>8, <1>15 DEF Swaps, InShell, InForm, LoggedIn
  <2>2. QuietPart(tb, v)
    BY <1>4, <1>5, <1>8, <1>10, <1>13, <2>1 DEF QuietPart
  <2>3. /\ Ends(S, CardOps(u), u.submitting, v.submitting)
        /\ Ends(S, {"resend"}, u.sending, v.sending)
        /\ Ends(S, {"bannerSend"}, u.banner = "sending", v.banner = "sending")
        /\ Ends(S, {"pageResend"}, u.resending, v.resending)
        /\ Ends(S, AvatarOps, u.crop = "busy", v.crop = "busy")
        /\ Ends(S, {"requestReset"}, u.resetBusy, v.resetBusy)
    BY <1>3, <1>8, <1>9 DEF Ends, CardOps, AvatarOps
  <2>4. Ends(S, {"verify", "pageMe", "confirm"}, u.page = "calling", v.page = "calling")
    BY <1>3, <1>5, <1>8, <1>9, <1>10, <1>11 DEF Ends
  <2>5. tb.busy => Shown(Settled({i}), t, {"login", "register"}) # {}
    BY <1>1, <1>3, <1>6, BusyStays
  <2>6. SpinPart(t, tb, v, Settled({i}))
    BY <1>1, <1>8, <2>3, <2>4, <2>5, SettleSpin DEF S
  <2> QED BY <2>2, <2>6
<1> HIDE DEF t, u, c
<1> QED BY <1>3, <1>7, <1>8, <1>12, <1>14, <1>15, SettleOne DEF t, c, u

(* What a step changes of the screen of one tab, while AuthGate keeps it.   *)
LEMMA ContinueHere ==
  ASSUME NEW t, NEW s, NEW tb, NEW u, NEW cs, Continue(t, s, tb, u, cs), ~Swaps(t, tb, u)
  PROVE  /\ tab' = [tab EXCEPT ![t] = tb] /\ ui' = [ui EXCEPT ![t] = u] /\ calls' = cs
BY DEF Continue, Swaps

(* The screen after an accepted operation.                                  *)
AcceptedUi(c, u) ==
  LET on == c.att = "yes" IN
  [u EXCEPT !.sending = @ /\ ~(on /\ c.op = "resend"),
            !.resending = @ /\ ~(on /\ c.op = "pageResend"),
            !.banner = IF on /\ c.op = "bannerSend" THEN "cooling" ELSE @,
            !.submitting = @ /\ ~(on /\ c.op = "requestDeletion"),
            !.view = IF on /\ c.op = "requestDeletion" THEN "overview" ELSE @,
            !.resetBusy = @ /\ ~(on /\ c.op = "requestReset"),
            !.sent = @ \/ (on /\ c.op = "requestReset"),
            !.page = IF c.op = "reset" THEN "success" ELSE @]

(* The screen after an accepted operation is a screen.                      *)
LEMMA AcceptedType ==
  ASSUME NEW u \in Screen, NEW c
  PROVE  AcceptedUi(c, u) \in Screen
<1> DEFINE on == c.att = "yes"
           a1 == u.sending /\ ~(on /\ c.op = "resend")
           a2 == u.resending /\ ~(on /\ c.op = "pageResend")
           a3 == IF on /\ c.op = "bannerSend" THEN "cooling" ELSE u.banner
           a4 == u.submitting /\ ~(on /\ c.op = "requestDeletion")
           a5 == IF on /\ c.op = "requestDeletion" THEN "overview" ELSE u.view
           a6 == u.resetBusy /\ ~(on /\ c.op = "requestReset")
           a7 == u.sent \/ (on /\ c.op = "requestReset")
           a8 == IF c.op = "reset" THEN "success" ELSE u.page
           w1 == [u EXCEPT !.sending = a1]
           w2 == [w1 EXCEPT !.resending = a2]
           w3 == [w2 EXCEPT !.banner = a3]
           w4 == [w3 EXCEPT !.submitting = a4]
           w5 == [w4 EXCEPT !.view = a5]
           w6 == [w5 EXCEPT !.resetBusy = a6]
           w7 == [w6 EXCEPT !.sent = a7]
           w8 == [w7 EXCEPT !.page = a8]
<1>1. AcceptedUi(c, u) = w8
  BY DEF AcceptedUi
<1>2. /\ a1 \in BOOLEAN /\ a2 \in BOOLEAN /\ a4 \in BOOLEAN /\ a6 \in BOOLEAN /\ a7 \in BOOLEAN
  OBVIOUS
<1>3. /\ a3 \in {"ready", "sending", "cooling"} /\ a5 \in {"overview", "password", "deletion"}
      /\ a8 \in {"loading", "calling", "form", "busy", "success", "error"}
  BY DEF Screen
<1> HIDE DEF on, a1, a2, a3, a4, a5, a6, a7, a8, w1, w2, w3, w4, w5, w6, w7, w8
<1>4. w1 \in Screen BY <1>2, ScreenFields DEF w1
<1>5. w2 \in Screen BY <1>2, <1>4, ScreenFields DEF w2
<1>6. w3 \in Screen BY <1>3, <1>5, ScreenFields DEF w3
<1>7. w4 \in Screen BY <1>2, <1>6, ScreenFields DEF w4
<1>8. w5 \in Screen BY <1>3, <1>7, ScreenFields DEF w5
<1>9. w6 \in Screen BY <1>2, <1>8, ScreenFields DEF w6
<1>10. w7 \in Screen BY <1>2, <1>9, ScreenFields DEF w7
<1>11. w8 \in Screen BY <1>3, <1>10, ScreenFields DEF w8
<1> QED BY <1>1, <1>11

(* An accepted operation turns off its own spinner.                         *)
LEMMA AcceptedScreens ==
  ASSUME TypeOK, Screens, NEW i \in DOMAIN calls, Accepted(i)
  PROVE  Screens'
<1> DEFINE c == calls[i]
           t == c.tab
           u == ui[t]
           on == c.att = "yes"
           a1 == u.sending /\ ~(on /\ c.op = "resend")
           a2 == u.resending /\ ~(on /\ c.op = "pageResend")
           a3 == IF on /\ c.op = "bannerSend" THEN "cooling" ELSE u.banner
           a4 == u.submitting /\ ~(on /\ c.op = "requestDeletion")
           a6 == u.resetBusy /\ ~(on /\ c.op = "requestReset")
           a8 == IF c.op = "reset" THEN "success" ELSE u.page
           v == AcceptedUi(c, u)
           tb == tab[t]
           S == Attached({i})
<1>1. t \in Tabs /\ {i} \subseteq Mine(calls, t) /\ i \in Mine(calls, t)
  BY DEF TypeOK, SessionTypes, Call, Mine
<1>2. u \in Screen BY <1>1 DEF TypeOK
<1>3. /\ c.op \in {"resend", "bannerSend", "pageResend", "requestDeletion", "requestReset", "reset"}
      /\ Continue(t, store, tb, v, Over(i))
  BY DEF Accepted, AcceptedUi
<1>4. RoutePart(t, u, calls) /\ QuietPart(tb, u) /\ SpinPart(t, tb, u, calls)
  BY <1>1 DEF Screens, ScreenOK
<1>5. c.op = "reset" => u.route = "reset" /\ u.page # "calling"
  BY <1>1, <1>4 DEF RoutePart, RouteOps, AvatarOps, QuietPart
<1>6. /\ v.route = u.route /\ v.panel = u.panel /\ v.sending = a1 /\ v.resending = a2
      /\ v.banner = a3 /\ v.submitting = a4 /\ v.resetBusy = a6 /\ v.page = a8 /\ v.crop = u.crop
  BY <1>2 DEF Screen, AcceptedUi
<1>7. S = IF on THEN {c.op} ELSE {}
  BY AttachedOne
<1>10. /\ a1 = (u.sending /\ ~(on /\ c.op = "resend"))
       /\ a2 = (u.resending /\ ~(on /\ c.op = "pageResend"))
       /\ a3 = (IF on /\ c.op = "bannerSend" THEN "cooling" ELSE u.banner)
       /\ a4 = (u.submitting /\ ~(on /\ c.op = "requestDeletion"))
       /\ a6 = (u.resetBusy /\ ~(on /\ c.op = "requestReset"))
       /\ a8 = (IF c.op = "reset" THEN "success" ELSE u.page)
  OBVIOUS
<1> HIDE DEF a1, a2, a3, a4, a6, a8, v, S
<1>11. v \in Screen
  BY <1>2, AcceptedType DEF v
<1>12. ~Swaps(t, tb, v)
  BY DEF Swaps, LoggedIn
<1>13. QuietPart(tb, v)
  BY <1>4, <1>5, <1>6, <1>10 DEF QuietPart, InShell, InForm
<1>14. SpinPart(t, tb, v, Settled({i}))
  <2>1. Ends(S, CardOps(u), u.submitting, v.submitting)
    BY <1>3, <1>6, <1>7, <1>10 DEF Ends, CardOps
  <2>2. /\ Ends(S, {"resend"}, u.sending, v.sending)
        /\ Ends(S, {"bannerSend"}, u.banner = "sending", v.banner = "sending")
        /\ Ends(S, {"pageResend"}, u.resending, v.resending)
    BY <1>3, <1>6, <1>7, <1>10 DEF Ends
  <2>3. /\ Ends(S, AvatarOps, u.crop = "busy", v.crop = "busy")
        /\ Ends(S, {"requestReset"}, u.resetBusy, v.resetBusy)
    BY <1>3, <1>6, <1>7, <1>10 DEF Ends, AvatarOps
  <2>4. Ends(S, {"verify", "pageMe", "confirm"}, u.page = "calling", v.page = "calling")
    BY <1>3, <1>5, <1>6, <1>7, <1>10 DEF Ends
  <2>5. tb.busy => Shown(Settled({i}), t, {"login", "register"}) # {}
    BY <1>1, <1>3, BusyStays
  <2> QED BY <1>1, <1>6, <2>1, <2>2, <2>3, <2>4, <2>5, SettleSpin DEF S
<1>15. c.op # "bootMe" /\ tb.boot = tab[t].boot BY <1>3
<1> HIDE DEF t, u, c, tb
<1> QED BY <1>3, <1>6, <1>11, <1>12, <1>13, <1>14, <1>15, SettleOne DEF t, c, u, tb

(* A request is followed by the next one of the same operation.             *)
LEMMA ReplacedShows ==
  ASSUME NEW i \in DOMAIN calls, NEW d, calls' = [calls EXCEPT ![i] = d],
         d.tab = calls[i].tab, d.att = calls[i].att
  PROVE  /\ DOMAIN calls' = DOMAIN calls /\ calls'[i] = d
         /\ \A j \in DOMAIN calls : j # i => calls'[j] = calls[j]
         /\ \A t : Mine(calls', t) = Mine(calls, t)
         /\ \A t, ops : (calls[i].op \in ops <=> d.op \in ops) => Shown(calls', t, ops) = Shown(calls, t, ops)
<1>1. /\ DOMAIN calls' = DOMAIN calls /\ calls'[i] = d
      /\ \A j \in DOMAIN calls : j # i => calls'[j] = calls[j]
  OBVIOUS
<1>2. ASSUME NEW j \in DOMAIN calls PROVE calls'[j].tab = calls[j].tab /\ calls'[j].att = calls[j].att
  BY <1>1
<1>3. \A t : Mine(calls', t) = Mine(calls, t)
  BY <1>1, <1>2 DEF Mine
<1>4. ASSUME NEW t, NEW ops, calls[i].op \in ops <=> d.op \in ops
      PROVE  Shown(calls', t, ops) = Shown(calls, t, ops)
  <2>1. \A j \in DOMAIN calls : calls'[j].op \in ops <=> calls[j].op \in ops
    BY <1>1, <1>4
  <2> QED BY <1>1, <1>2, <2>1 DEF Shown
<1> QED BY <1>1, <1>3, <1>4

(* A request that goes on as another one of the same screen.                *)
LEMMA ReplaceScreens ==
  ASSUME TypeOK, Screens, NEW i \in DOMAIN calls, NEW t, t = calls[i].tab, NEW d,
         calls' = [calls EXCEPT ![i] = d], d.tab = t, d.att = calls[i].att,
         NEW v, tab' = [tab EXCEPT ![t] = tab[t]], ui' = [ui EXCEPT ![t] = v],
         v.route = ui[t].route, d.op \in RouteOps(v.route), d.op # "bootMe", calls[i].op # "bootMe",
         QuietPart(tab[t], v), SpinPart(t, tab[t], v, calls')
  PROVE  Screens'
<1>1. t \in Tabs /\ i \in Mine(calls, t) BY DEF TypeOK, SessionTypes, Call, Mine
<1>2. /\ DOMAIN calls' = DOMAIN calls /\ calls'[i] = d
      /\ \A j \in DOMAIN calls : j # i => calls'[j] = calls[j]
      /\ \A r : Mine(calls', r) = Mine(calls, r)
  BY ReplacedShows
<1>3. RoutePart(t, ui[t], calls) /\ BootPart(t, tab[t], ui[t], calls)
  BY <1>1 DEF Screens, ScreenOK
<1>4. \A j \in Mine(calls, t) : j \in DOMAIN calls BY DEF Mine
<1>5. RoutePart(t, v, calls')
  BY <1>1, <1>2, <1>3, <1>4 DEF RoutePart
<1>6. BootPart(t, tab[t], v, calls')
  BY <1>1, <1>2, <1>3, <1>4 DEF BootPart
<1>7. \A r \in Tabs : r # t =>
        /\ Mine(calls', r) = Mine(calls, r)
        /\ \A j \in Mine(calls, r) : calls'[j].op = calls[j].op /\ calls'[j].att = calls[j].att
  BY <1>1, <1>2 DEF Mine
<1>8. ScreenOK(t, tab[t], v, calls')
  BY <1>5, <1>6 DEF ScreenOK
<1> QED BY <1>1, <1>7, <1>8, LocalScreens

(* The accepted change of a password goes on as a logout behind the same    *)
(* spinner.                                                                 *)
LEMMA PasswordChangedScreens ==
  ASSUME TypeOK, Screens, NEW i \in DOMAIN calls, PasswordChanged(i)
  PROVE  Screens'
<1> DEFINE c == calls[i]
           t == c.tab
           u == ui[t]
           S == Attached({i})
<1>1. t \in Tabs /\ {i} \subseteq Mine(calls, t) /\ i \in Mine(calls, t)
  BY DEF TypeOK, SessionTypes, Call, Mine
<1>2. u \in Screen BY <1>1 DEF TypeOK
<1>3. c.op = "changePassword" BY DEF PasswordChanged
<1>4. ScreenOK(t, tab[t], u, calls) BY <1>1 DEF Screens
<1>5. u.route = "gate" BY <1>1, <1>3, <1>4 DEF ScreenOK, RoutePart, RouteOps
<1>6. tab[t].boot = "done" BY <1>1, <1>3, <1>5, BootDone
<1>7. c.att = "yes" => u.submitting
  <2>1. c.att = "yes" => i \in Shown(calls, t, CardOps(u)) BY <1>3 DEF Shown, CardOps
  <2> QED BY <1>4, <2>1 DEF ScreenOK, SpinPart, Matches
<1>8. u.submitting => u.panel = "account" BY <1>4 DEF ScreenOK, QuietPart
<1>9. CASE store.n = 0
  <2> DEFINE tb == ResetTab
  <2>1. Continue(t, NoSession, tb, u, Over(i)) BY <1>9 DEF PasswordChanged
  <2>2. tb.boot = "done" /\ ~tb.busy /\ tb.session.n = 0 BY DEF ResetTab, NoSession
  <2> HIDE DEF tb
  <2>3. ASSUME ~Swaps(t, tb, u) PROVE QuietPart(tb, u) /\ SpinPart(t, tb, u, Settled({i}))
    <3>1. QuietPart(tb, u) /\ u.panel = "closed"
      BY <1>4, <1>5, <1>6, <2>2, <2>3 DEF ScreenOK, QuietPart, InShell, InForm, Swaps, LoggedIn
    <3>2. S = {} BY <1>7, <1>8, <3>1, AttachedOne
    <3> HIDE DEF S
    <3>3. /\ Ends(S, CardOps(u), u.submitting, u.submitting)
          /\ Ends(S, {"resend"}, u.sending, u.sending)
          /\ Ends(S, {"bannerSend"}, u.banner = "sending", u.banner = "sending")
          /\ Ends(S, {"pageResend"}, u.resending, u.resending)
          /\ Ends(S, AvatarOps, u.crop = "busy", u.crop = "busy")
          /\ Ends(S, {"requestReset"}, u.resetBusy, u.resetBusy)
          /\ Ends(S, {"verify", "pageMe", "confirm"}, u.page = "calling", u.page = "calling")
      BY <3>2 DEF Ends
    <3>4. SpinPart(t, tb, u, Settled({i}))
      BY <1>1, <2>2, <3>3, SettleSpin DEF S
    <3> QED BY <3>1, <3>4
  <2> HIDE DEF t, u, c
  <2> QED BY <1>2, <2>1, <2>2, <2>3, SettleOne DEF t, c, u
<1>10. CASE store.n # 0
  <2> DEFINE d == [NewCall(t, "logout") EXCEPT !.att = c.att]
  <2>1. calls' = [calls EXCEPT ![i] = d] /\ UNCHANGED <<tab, ui>>
    BY <1>10 DEF PasswordChanged
  <2>2. d.tab = t /\ d.att = c.att /\ d.op = "logout" BY DEF NewCall
  <2> HIDE DEF d
  <2>3. \A r, ops : (c.op \in ops <=> d.op \in ops) => Shown(calls', r, ops) = Shown(calls, r, ops)
    BY <2>1, <2>2, ReplacedShows
  <2>4. /\ DOMAIN calls' = DOMAIN calls /\ calls'[i] = d
        /\ \A j \in DOMAIN calls : j # i => calls'[j] = calls[j]
    BY <2>1
  <2>5. SpinPart(t, tab[t], u, calls')
    <3>1. Shown(calls', t, CardOps(u)) = Shown(calls, t, CardOps(u))
      <4>1. CASE u.panel = "account"
        <5>1. c.op \in CardOps(u) /\ d.op \in CardOps(u) BY <1>3, <2>2, <4>1 DEF CardOps
        <5> QED BY <2>3, <5>1
      <4>2. CASE u.panel # "account"
        <5>1. c.att # "yes" BY <1>7, <1>8, <4>2
        <5> QED BY <2>2, <2>4, <5>1 DEF Shown
      <4> QED BY <4>1, <4>2
    <3>2. /\ Shown(calls', t, {"resend"}) = Shown(calls, t, {"resend"})
          /\ Shown(calls', t, {"bannerSend"}) = Shown(calls, t, {"bannerSend"})
          /\ Shown(calls', t, {"pageResend"}) = Shown(calls, t, {"pageResend"})
          /\ Shown(calls', t, AvatarOps) = Shown(calls, t, AvatarOps)
          /\ Shown(calls', t, {"requestReset"}) = Shown(calls, t, {"requestReset"})
          /\ Shown(calls', t, {"verify", "pageMe", "confirm"}) = Shown(calls, t, {"verify", "pageMe", "confirm"})
          /\ Shown(calls', t, {"login", "register"}) = Shown(calls, t, {"login", "register"})
      BY <1>3, <2>2, <2>3 DEF AvatarOps
    <3>3. u.panel \in {"closed", "menu"} => Shown(calls', t, {"logout"}) = {}
      <4>1. SUFFICES ASSUME u.panel \in {"closed", "menu"} PROVE Shown(calls', t, {"logout"}) = {}
        OBVIOUS
      <4>2. Shown(calls, t, {"logout"}) = {} BY <1>4, <4>1 DEF ScreenOK, SpinPart
      <4>3. c.att # "yes" BY <1>7, <1>8, <4>1
      <4> QED BY <2>2, <2>4, <4>2, <4>3 DEF Shown
    <3> QED BY <1>4, <3>1, <3>2, <3>3 DEF ScreenOK, SpinPart
  <2>6. tab' = [tab EXCEPT ![t] = tab[t]] /\ ui' = [ui EXCEPT ![t] = u]
    BY <1>1, <2>1 DEF TypeOK, SessionTypes
  <2>7. d.op \in RouteOps(u.route) BY <1>5, <2>2 DEF RouteOps
  <2>8. QuietPart(tab[t], u) BY <1>4 DEF ScreenOK
  <2>9. c.op # "bootMe" /\ d.op # "bootMe" BY <1>3, <2>2
  <2> HIDE DEF t, u, c
  <2> QED BY <2>1, <2>2, <2>5, <2>6, <2>7, <2>8, <2>9, ReplaceScreens DEF t, c, u
<1> QED BY <1>9, <1>10

(* The verification goes on as /me behind the same page, or ends.           *)
LEMMA VerifyAnsweredScreens ==
  ASSUME TypeOK, Screens, NEW i \in DOMAIN calls, VerifyAnswered(i)
  PROVE  Screens'
<1> DEFINE c == calls[i]
           t == c.tab
           u == ui[t]
           won == c.phase = "ok"
           S == Attached({i})
<1>1. t \in Tabs /\ {i} \subseteq Mine(calls, t) /\ i \in Mine(calls, t)
  BY DEF TypeOK, SessionTypes, Call, Mine
<1>2. u \in Screen BY <1>1 DEF TypeOK
<1>3. c.op = "verify" /\ UNCHANGED <<store, tab>> BY DEF VerifyAnswered
<1>4. ScreenOK(t, tab[t], u, calls) BY <1>1 DEF Screens
<1>5. u.route = "verify" /\ c.att = "yes"
  BY <1>1, <1>3, <1>4 DEF ScreenOK, RoutePart, RouteOps, AvatarOps
<1>6. tab' = [tab EXCEPT ![t] = tab[t]]
  BY <1>1, <1>3 DEF TypeOK, SessionTypes
<1>7. CASE LoggedIn(t)
  <2> DEFINE d == NewCall(t, "pageMe")
             v == [u EXCEPT !.vok = won]
  <2>1. calls' = [calls EXCEPT ![i] = d] /\ ui' = [ui EXCEPT ![t] = v]
    BY <1>7 DEF VerifyAnswered
  <2>2. d.tab = t /\ d.att = c.att /\ d.op = "pageMe" BY <1>5 DEF NewCall
  <2>3. /\ v.route = u.route /\ v.panel = u.panel /\ v.page = u.page /\ v.resending = u.resending
        /\ v.submitting = u.submitting /\ v.sending = u.sending /\ v.crop = u.crop
        /\ v.banner = u.banner /\ v.resetBusy = u.resetBusy
    BY <1>2 DEF Screen
  <2> HIDE DEF d, v
  <2>4. \A r, ops : (c.op \in ops <=> d.op \in ops) => Shown(calls', r, ops) = Shown(calls, r, ops)
    BY <2>1, <2>2, ReplacedShows
  <2>5. CardOps(v) = CardOps(u) BY <2>3 DEF CardOps
  <2>6. /\ c.op \notin CardOps(u) /\ d.op \notin CardOps(u)
        /\ c.op \notin AvatarOps /\ d.op \notin AvatarOps
    BY <1>3, <2>2 DEF CardOps, AvatarOps
  <2>7. /\ Shown(calls', t, CardOps(u)) = Shown(calls, t, CardOps(u))
        /\ Shown(calls', t, {"resend"}) = Shown(calls, t, {"resend"})
        /\ Shown(calls', t, {"bannerSend"}) = Shown(calls, t, {"bannerSend"})
        /\ Shown(calls', t, {"pageResend"}) = Shown(calls, t, {"pageResend"})
        /\ Shown(calls', t, AvatarOps) = Shown(calls, t, AvatarOps)
        /\ Shown(calls', t, {"requestReset"}) = Shown(calls, t, {"requestReset"})
        /\ Shown(calls', t, {"verify", "pageMe", "confirm"}) = Shown(calls, t, {"verify", "pageMe", "confirm"})
        /\ Shown(calls', t, {"login", "register"}) = Shown(calls, t, {"login", "register"})
        /\ Shown(calls', t, {"logout"}) = Shown(calls, t, {"logout"})
    BY <1>3, <2>2, <2>4, <2>6
  <2>8. SpinPart(t, tab[t], v, calls')
    BY <1>4, <2>3, <2>5, <2>7 DEF ScreenOK, SpinPart
  <2>9. QuietPart(tab[t], v)
    BY <1>4, <2>3 DEF ScreenOK, QuietPart, InShell, InForm
  <2>10. d.op \in RouteOps(v.route) BY <1>5, <2>2, <2>3 DEF RouteOps
  <2>11. c.op # "bootMe" /\ d.op # "bootMe" BY <1>3, <2>2
  <2> HIDE DEF t, u, c
  <2> QED BY <1>6, <2>1, <2>2, <2>3, <2>8, <2>9, <2>10, <2>11, ReplaceScreens DEF t, c, u
<1>8. CASE ~LoggedIn(t)
  <2> DEFINE g == IF won THEN "success" ELSE "error"
             v == [u EXCEPT !.page = g]
  <2>1. calls' = Settled({i}) /\ ui' = [ui EXCEPT ![t] = v]
    BY <1>8 DEF VerifyAnswered, Over
  <2>2. /\ v.route = u.route /\ v.panel = u.panel /\ v.page = g /\ v.resending = u.resending
        /\ v.submitting = u.submitting /\ v.sending = u.sending /\ v.crop = u.crop
        /\ v.banner = u.banner /\ v.resetBusy = u.resetBusy
    BY <1>2 DEF Screen
  <2>3. g # "calling" OBVIOUS
  <2>4. S = {"verify"} BY <1>3, <1>5, AttachedOne
  <2> HIDE DEF v, g, S
  <2>5. /\ DOMAIN calls' = DOMAIN calls \ {i}
        /\ \A j \in DOMAIN calls \ {i} : calls'[j] = calls[j]
        /\ \A r : Mine(calls', r) = Mine(calls, r) \ {i}
    BY <2>1, SettledShows
  <2>6. \A r \in Tabs : r # t =>
          /\ Mine(calls', r) = Mine(calls, r)
          /\ \A j \in Mine(calls, r) : calls'[j].op = calls[j].op /\ calls'[j].att = calls[j].att
    BY <2>5 DEF Mine
  <2>7. RoutePart(t, v, calls') /\ BootPart(t, tab[t], v, calls')
    BY <1>4, <1>5, <2>2, <2>5 DEF ScreenOK, RoutePart, BootPart, Mine
  <2>8. QuietPart(tab[t], v)
    BY <1>4, <1>5, <2>2 DEF ScreenOK, QuietPart, InShell, InForm
  <2>9. /\ Ends(S, CardOps(u), u.submitting, v.submitting)
        /\ Ends(S, {"resend"}, u.sending, v.sending)
        /\ Ends(S, {"bannerSend"}, u.banner = "sending", v.banner = "sending")
        /\ Ends(S, {"pageResend"}, u.resending, v.resending)
        /\ Ends(S, AvatarOps, u.crop = "busy", v.crop = "busy")
        /\ Ends(S, {"requestReset"}, u.resetBusy, v.resetBusy)
        /\ Ends(S, {"verify", "pageMe", "confirm"}, u.page = "calling", v.page = "calling")
    BY <2>2, <2>3, <2>4 DEF Ends, CardOps, AvatarOps
  <2>10. tab[t].busy => Shown(Settled({i}), t, {"login", "register"}) # {}
    BY <1>1, <1>3, BusyStays
  <2>11. SpinPart(t, tab[t], v, calls')
    BY <1>1, <2>1, <2>2, <2>9, <2>10, SettleSpin DEF S
  <2>12. ScreenOK(t, tab[t], v, calls')
    BY <2>7, <2>8, <2>11 DEF ScreenOK
  <2> QED BY <1>1, <1>6, <2>1, <2>6, <2>12, LocalScreens
<1> QED BY <1>7, <1>8

(* The confirmed deletion ends the page's call and the session.             *)
LEMMA DeletionConfirmedScreens ==
  ASSUME TypeOK, Screens, NEW i \in DOMAIN calls, DeletionConfirmed(i)
  PROVE  Screens'
<1> DEFINE c == calls[i]
           t == c.tab
           u == ui[t]
           v == [u EXCEPT !.page = "success"]
           tb == ResetTab
           S == Attached({i})
<1>1. t \in Tabs /\ {i} \subseteq Mine(calls, t) /\ i \in Mine(calls, t)
  BY DEF TypeOK, SessionTypes, Call, Mine
<1>2. u \in Screen BY <1>1 DEF TypeOK
<1>3. c.op = "confirm" /\ Continue(t, NoSession, tb, v, Over(i)) BY DEF DeletionConfirmed
<1>4. ScreenOK(t, tab[t], u, calls) BY <1>1 DEF Screens
<1>5. u.route \notin {"gate", "verify", "reset"} /\ c.att = "yes"
  BY <1>1, <1>3, <1>4 DEF ScreenOK, RoutePart, RouteOps, AvatarOps
<1>6. /\ v.route = u.route /\ v.panel = u.panel /\ v.page = "success" /\ v.resending = u.resending
      /\ v.submitting = u.submitting /\ v.sending = u.sending /\ v.crop = u.crop
      /\ v.banner = u.banner /\ v.resetBusy = u.resetBusy
  BY <1>2 DEF Screen
<1>7. v \in Screen BY <1>2, ScreenFields
<1>8. S = {"confirm"} BY <1>3, <1>5, AttachedOne
<1>9. ~tb.busy BY DEF ResetTab
<1> HIDE DEF v, S, tb
<1>10. QuietPart(tb, v)
  BY <1>4, <1>5, <1>6, <1>9 DEF ScreenOK, QuietPart, InShell, InForm
<1>11. /\ Ends(S, CardOps(u), u.submitting, v.submitting)
       /\ Ends(S, {"resend"}, u.sending, v.sending)
       /\ Ends(S, {"bannerSend"}, u.banner = "sending", v.banner = "sending")
       /\ Ends(S, {"pageResend"}, u.resending, v.resending)
       /\ Ends(S, AvatarOps, u.crop = "busy", v.crop = "busy")
       /\ Ends(S, {"requestReset"}, u.resetBusy, v.resetBusy)
       /\ Ends(S, {"verify", "pageMe", "confirm"}, u.page = "calling", v.page = "calling")
  BY <1>6, <1>8 DEF Ends, CardOps, AvatarOps
<1>12. SpinPart(t, tb, v, Settled({i}))
  BY <1>1, <1>6, <1>9, <1>11, SettleSpin DEF S
<1> HIDE DEF t, u, c
<1> QED BY <1>3, <1>5, <1>6, <1>7, <1>9, <1>10, <1>12, SettleOne DEF t, c, u

(* An upload goes from one request to the next.                             *)
LEMMA AvatarStepScreens ==
  ASSUME TypeOK, Screens, NEW i \in DOMAIN calls, AvatarStep(i)
  PROVE  Screens'
<1> DEFINE c == calls[i]
           t == c.tab
           u == ui[t]
           d == [NewCall(t, AvatarNext(c.op)) EXCEPT
                   !.ver = c.ver, !.att = c.att, !.k = IF c.op \in {"avConfirm", "avPoll"} THEN c.k + 1 ELSE 0]
<1>1. t \in Tabs /\ i \in Mine(calls, t) BY DEF TypeOK, SessionTypes, Call, Mine
<1>2. c.op \in AvatarOps /\ calls' = [calls EXCEPT ![i] = d] /\ UNCHANGED <<tab, ui>>
  BY DEF AvatarStep
<1>3. d.tab = t /\ d.att = c.att /\ d.op = AvatarNext(c.op) BY DEF NewCall
<1>4. AvatarNext(c.op) \in AvatarOps BY <1>2 DEF AvatarNext, AvatarOps
<1> HIDE DEF d
<1>5. ScreenOK(t, tab[t], u, calls) BY <1>1 DEF Screens
<1>6. u.route = "gate" BY <1>1, <1>2, <1>5 DEF ScreenOK, RoutePart, RouteOps, AvatarOps
<1>7. d.op \in RouteOps(u.route) /\ d.op # "bootMe" /\ c.op # "bootMe"
  BY <1>2, <1>3, <1>4, <1>6 DEF RouteOps, AvatarOps
<1>8. \A ops : (c.op \in ops <=> d.op \in ops) => Shown(calls', t, ops) = Shown(calls, t, ops)
  BY <1>2, <1>3, ReplacedShows
<1>9. /\ CardOps(u) \cap AvatarOps = {} /\ {"resend"} \cap AvatarOps = {}
      /\ {"bannerSend"} \cap AvatarOps = {} /\ {"pageResend"} \cap AvatarOps = {}
      /\ {"requestReset"} \cap AvatarOps = {} /\ {"login", "register"} \cap AvatarOps = {}
      /\ {"verify", "pageMe", "confirm"} \cap AvatarOps = {} /\ {"logout"} \cap AvatarOps = {}
  BY DEF CardOps, AvatarOps
<1>10. \A ops : ops \cap AvatarOps = {} => Shown(calls', t, ops) = Shown(calls, t, ops)
  BY <1>2, <1>3, <1>4, <1>8
<1>11. Shown(calls', t, AvatarOps) = Shown(calls, t, AvatarOps)
  BY <1>2, <1>3, <1>4, <1>8
<1>12. SpinPart(t, tab[t], u, calls')
  BY <1>5, <1>9, <1>10, <1>11 DEF ScreenOK, SpinPart
<1>13. tab' = [tab EXCEPT ![t] = tab[t]] /\ ui' = [ui EXCEPT ![t] = u]
  BY <1>1, <1>2 DEF TypeOK, SessionTypes
<1>14. QuietPart(tab[t], u) BY <1>5 DEF ScreenOK
<1> HIDE DEF t, u, c
<1> QED BY <1>2, <1>3, <1>7, <1>12, <1>13, <1>14, ReplaceScreens DEF t, c, u

(* The end of an upload takes its cropper away.                             *)
LEMMA AvatarDoneScreens ==
  ASSUME TypeOK, Screens, NEW i \in DOMAIN calls, NEW t, t = calls[i].tab, calls[i].op \in AvatarOps,
         calls[i].att # "no", NEW tb, NEW s,
         tab[t] \in TabState, tb.boot = tab[t].boot, tb.busy = tab[t].busy,
         tb.session.n = tab[t].session.n,
         Continue(t, s, tb, [ui[t] EXCEPT !.crop = "none"], WithoutCropper(Over(i), t))
  PROVE  Screens'
<1> DEFINE u == ui[t]
           v == [u EXCEPT !.crop = "none"]
           cs == Settled({i})
           ds == WithoutCropper(cs, t)
<1>1. t \in Tabs /\ i \in Mine(calls, t) BY DEF TypeOK, SessionTypes, Call, Mine
<1>2. u \in Screen BY <1>1 DEF TypeOK
<1>3. ScreenOK(t, tab[t], u, calls) BY <1>1 DEF Screens
<1>4. /\ v.route = u.route /\ v.panel = u.panel /\ v.page = u.page /\ v.resending = u.resending
      /\ v.submitting = u.submitting /\ v.sending = u.sending /\ v.crop = "none"
      /\ v.banner = u.banner /\ v.resetBusy = u.resetBusy
  BY <1>2 DEF Screen
<1>5. u.route = "gate" BY <1>1, <1>3 DEF ScreenOK, RoutePart, RouteOps, AvatarOps
<1>24. DOMAIN cs = DOMAIN calls \ {i} /\ \A j \in DOMAIN calls \ {i} : cs[j] = calls[j]
  BY SettledShows
<1>25. \A r : Mine(cs, r) = Mine(calls, r) \ {i}
  BY SettledShows
<1>6. /\ DOMAIN cs = DOMAIN calls \ {i} /\ \A j \in DOMAIN cs : cs[j] = calls[j]
      /\ \A r : Mine(cs, r) = Mine(calls, r) \ {i}
  BY <1>24, <1>25
<1>23. \A r, o : Shown(cs, r, o) = Shown(calls, r, o) \ {i}
  BY SettledShows
<1>7. \A j \in DOMAIN cs : cs[j] \in Call BY <1>6 DEF TypeOK, SessionTypes
<1>8. Continue(t, s, tb, v, ds) BY DEF Over
<1> HIDE DEF v, cs
<1>9. /\ DOMAIN ds = DOMAIN cs
      /\ \A j \in DOMAIN cs :
           /\ ds[j].tab = cs[j].tab /\ ds[j].op = cs[j].op
           /\ (cs[j].tab # t \/ cs[j].op \notin AvatarOps) => ds[j] = cs[j]
           /\ cs[j].tab = t /\ cs[j].op \in AvatarOps => ds[j].att # "yes"
  BY <1>7 DEF WithoutCropper, Call
<1> HIDE DEF ds
<1>10. ~Swaps(t, tb, v) BY DEF Swaps, LoggedIn
<1>11. tab' = [tab EXCEPT ![t] = tb] /\ ui' = [ui EXCEPT ![t] = v] /\ calls' = ds
  BY <1>8, <1>10, ContinueHere
<1>12. \A r : Mine(ds, r) = Mine(calls, r) \ {i}
  BY <1>6, <1>9 DEF Mine
<1>13. \A r \in Tabs : r # t =>
         /\ Mine(ds, r) = Mine(calls, r)
         /\ \A j \in Mine(calls, r) : ds[j].op = calls[j].op /\ ds[j].att = calls[j].att
  BY <1>6, <1>9, <1>12 DEF Mine
<1>14. \A j \in Mine(ds, t) : j \in Mine(calls, t) /\ j \in DOMAIN cs /\ ds[j].op = calls[j].op
  BY <1>6, <1>9, <1>12 DEF Mine
<1>15. RoutePart(t, v, ds)
  BY <1>3, <1>4, <1>5, <1>14 DEF ScreenOK, RoutePart
<1>16. BootPart(t, tb, v, ds)
  BY <1>3, <1>4, <1>12, <1>14 DEF ScreenOK, BootPart
<1>17. QuietPart(tb, v)
  BY <1>3, <1>4 DEF ScreenOK, QuietPart, InShell, InForm
<1>18. Shown(ds, t, AvatarOps) = {}
  BY <1>9 DEF Shown
<1>19. ASSUME NEW ops, ops \cap AvatarOps = {} PROVE Shown(ds, t, ops) = Shown(calls, t, ops)
  <2>1. Shown(ds, t, ops) = Shown(cs, t, ops) BY <1>9, <1>19 DEF Shown
  <2>2. i \notin Shown(calls, t, ops) BY <1>19 DEF Shown
  <2> QED BY <1>23, <2>1, <2>2
<1>20. /\ CardOps(u) \cap AvatarOps = {} /\ {"resend"} \cap AvatarOps = {}
       /\ {"bannerSend"} \cap AvatarOps = {} /\ {"pageResend"} \cap AvatarOps = {}
       /\ {"requestReset"} \cap AvatarOps = {} /\ {"login", "register"} \cap AvatarOps = {}
       /\ {"verify", "pageMe", "confirm"} \cap AvatarOps = {} /\ {"logout"} \cap AvatarOps = {}
  BY DEF CardOps, AvatarOps
<1>21. SpinPart(t, tb, v, ds)
  <2>1. CardOps(v) = CardOps(u) BY <1>4 DEF CardOps
  <2>2. /\ Shown(ds, t, CardOps(u)) = Shown(calls, t, CardOps(u))
        /\ Shown(ds, t, {"resend"}) = Shown(calls, t, {"resend"})
        /\ Shown(ds, t, {"bannerSend"}) = Shown(calls, t, {"bannerSend"})
        /\ Shown(ds, t, {"pageResend"}) = Shown(calls, t, {"pageResend"})
        /\ Shown(ds, t, {"requestReset"}) = Shown(calls, t, {"requestReset"})
        /\ Shown(ds, t, {"login", "register"}) = Shown(calls, t, {"login", "register"})
        /\ Shown(ds, t, {"verify", "pageMe", "confirm"}) = Shown(calls, t, {"verify", "pageMe", "confirm"})
        /\ Shown(ds, t, {"logout"}) = Shown(calls, t, {"logout"})
    BY <1>19, <1>20
  <2>3. Matches(Shown(ds, t, AvatarOps), v.crop = "busy")
    BY <1>4, <1>18 DEF Matches
  <2> QED BY <1>3, <1>4, <2>1, <2>2, <2>3 DEF ScreenOK, SpinPart
<1>22. ScreenOK(t, tb, v, ds)
  BY <1>15, <1>16, <1>17, <1>21 DEF ScreenOK
<1> QED BY <1>1, <1>11, <1>13, <1>22, LocalScreens

(* The polling of an avatar ends: the cropper closes or is open again.      *)
LEMMA AvatarEndsScreens ==
  ASSUME TypeOK, Screens, NEW i \in DOMAIN calls, AvatarEnds(i)
  PROVE  Screens'
<1> DEFINE c == calls[i]
           t == c.tab
           u == ui[t]
           S == Attached({i})
<1>1. t \in Tabs /\ {i} \subseteq Mine(calls, t) /\ i \in Mine(calls, t)
  BY DEF TypeOK, SessionTypes, Call, Mine
<1>2. u \in Screen /\ tab[t] \in TabState BY <1>1 DEF TypeOK, SessionTypes
<1>3. c.op \in {"avConfirm", "avPoll"} BY DEF AvatarEnds
<1>4. ScreenOK(t, tab[t], u, calls) BY <1>1 DEF Screens
<1>5. c.op # "bootMe" /\ c.op \notin {"login", "register"} /\ S \cap {"logout", "verify"} = {}
  BY <1>3, AttachedOne
<1>6. ~InForm(tab[t], u) => ~tab[t].busy
  BY <1>4 DEF ScreenOK, QuietPart
<1>7. CASE Continue(t, store, tab[t], FailUi(S, u), Over(i))
  <2> DEFINE v == FailUi(S, u)
             tb == tab[t]
  <2>1. v \in Screen /\ v.route = u.route BY <1>2, FailTypes
  <2>2. ~Swaps(t, tb, v) BY DEF Swaps, LoggedIn
  <2>3. tb.busy => Shown(Settled({i}), t, {"login", "register"}) # {}
    BY <1>1, <1>5, BusyStays
  <2>4. QuietPart(tb, v) /\ SpinPart(t, tb, v, Settled({i}))
    BY <1>1, <1>5, <1>6, <2>3, FailQuiet, FailSpin
  <2>5. Continue(t, store, tb, v, Over(i)) BY <1>7
  <2> HIDE DEF v, t, u, c
  <2> QED BY <1>5, <2>1, <2>2, <2>4, <2>5, SettleOne DEF t, c, u
<1>8. ASSUME Continue(t, WithUser(store, c.ver), [tab[t] EXCEPT !.session = WithUser(@, c.ver)],
                      [u EXCEPT !.crop = IF c.att = "no" THEN @ ELSE "none"],
                      IF c.att = "no" THEN Over(i) ELSE WithoutCropper(Over(i), t))
      PROVE  Screens'
  <2> DEFINE tb == [tab[t] EXCEPT !.session = WithUser(@, c.ver)]
             s == WithUser(store, c.ver)
  <2>1. tb.boot = tab[t].boot /\ tb.busy = tab[t].busy /\ tb.session.n = tab[t].session.n
    BY <1>2 DEF TabState, WithUser, Session
  <2>2. CASE c.att = "no"
    <3>1. [u EXCEPT !.crop = u.crop] = u BY <1>2 DEF Screen
    <3>2. Continue(t, s, tb, u, Over(i)) BY <1>8, <2>2, <3>1
    <3>3. S = {} BY <2>2, AttachedOne
    <3> HIDE DEF tb, s, S
    <3>4. ~Swaps(t, tb, u) BY <2>1 DEF Swaps, LoggedIn
    <3>5. QuietPart(tb, u) BY <1>4, <2>1 DEF ScreenOK, QuietPart, InShell, InForm
    <3>6. /\ Ends(S, CardOps(u), u.submitting, u.submitting)
          /\ Ends(S, {"resend"}, u.sending, u.sending)
          /\ Ends(S, {"bannerSend"}, u.banner = "sending", u.banner = "sending")
          /\ Ends(S, {"pageResend"}, u.resending, u.resending)
          /\ Ends(S, AvatarOps, u.crop = "busy", u.crop = "busy")
          /\ Ends(S, {"requestReset"}, u.resetBusy, u.resetBusy)
          /\ Ends(S, {"verify", "pageMe", "confirm"}, u.page = "calling", u.page = "calling")
      BY <3>3 DEF Ends
    <3>7. tb.busy => Shown(Settled({i}), t, {"login", "register"}) # {}
      BY <1>1, <1>5, <2>1, BusyStays
    <3>8. SpinPart(t, tb, u, Settled({i}))
      BY <1>1, <3>6, <3>7, SettleSpin DEF S
    <3> HIDE DEF t, u, c
    <3> QED BY <1>2, <1>5, <2>1, <3>2, <3>4, <3>5, <3>8, SettleOne DEF t, c, u
  <2>3. CASE c.att # "no"
    <3>1. Continue(t, s, tb, [u EXCEPT !.crop = "none"], WithoutCropper(Over(i), t))
      BY <1>8, <2>3
    <3>2. c.op \in AvatarOps BY <1>3 DEF AvatarOps
    <3> HIDE DEF tb, s, t, u, c
    <3> QED BY <1>2, <2>1, <2>3, <3>1, <3>2, AvatarDoneScreens DEF t, u, c
  <2> QED BY <2>2, <2>3
<1> QED BY <1>7, <1>8 DEF AvatarEnds

(* A tab that finds no session in the store is ready at once; else it asks  *)
(* for the user.                                                            *)
LEMMA RestoreScreens ==
  ASSUME TypeOK, Screens, NEW t \in Tabs, Restore(t)
  PROVE  Screens'
<1> DEFINE u == ui[t]
<1>1. u \in Screen /\ tab[t] \in TabState BY DEF TypeOK, SessionTypes
<1>2. ScreenOK(t, tab[t], u, calls) BY DEF Screens
<1>3. tab[t].boot = "new" BY DEF Restore
<1>4. ~InShell(tab[t], u) /\ ~InForm(tab[t], u) /\ ~tab[t].busy
  BY <1>2, <1>3 DEF InShell, InForm, ScreenOK, QuietPart
<1>5. CASE store.n = 0
  <2> DEFINE tb == [tab[t] EXCEPT !.boot = "done"]
  <2>1. Continue(t, store, tb, u, calls) BY <1>5 DEF Restore
  <2>2. tb.boot = "done" /\ ~tb.busy BY <1>1, <1>4 DEF TabState
  <2> HIDE DEF tb
  <2>3. Swaps(t, tb, u) => \A i \in Mine(calls, t) : calls[i].op \in RouteOps("gate") \ {"bootMe"}
    BY <1>2, <1>3 DEF Swaps, ScreenOK, BootPart
  <2>4. ASSUME ~Swaps(t, tb, u) PROVE ScreenOK(t, tb, u, calls)
    <3>1. u.route # "gate" BY <1>3, <2>2, <2>4 DEF Swaps
    <3>2. RoutePart(t, u, calls) /\ BootPart(t, tb, u, calls)
      BY <1>2, <3>1 DEF ScreenOK, BootPart
    <3>3. QuietPart(tb, u)
      BY <1>2, <1>4, <2>2, <3>1 DEF ScreenOK, QuietPart, InShell, InForm
    <3>4. SpinPart(t, tb, u, calls)
      BY <1>2, <2>2 DEF ScreenOK, SpinPart
    <3> QED BY <3>2, <3>3, <3>4 DEF ScreenOK
  <2>5. \A i \in DOMAIN calls : calls[i] \in Call
    BY DEF TypeOK, SessionTypes
  <2> QED BY <1>1, <2>1, <2>2, <2>3, <2>4, <2>5, ContinueScreens
<1>6. CASE store.n # 0
  <2> DEFINE tb == [tab[t] EXCEPT !.session = store, !.boot = "restoring"]
             op == "bootMe"
  <2>1. Request(t, op) /\ tab' = [tab EXCEPT ![t] = tb] /\ ui' = [ui EXCEPT ![t] = u]
    <3>1. tab' = [tab EXCEPT ![t].session = store, ![t].boot = "restoring"] /\ ui' = ui /\ Request(t, op)
      BY <1>6 DEF Restore
    <3> QED BY <3>1 DEF TypeOK, SessionTypes
  <2>2. tb.boot = "restoring" /\ tb.busy = tab[t].busy BY <1>1 DEF TabState
  <2> HIDE DEF tb
  <2>3. QuietPart(tb, u)
    BY <1>2, <1>4, <2>2 DEF ScreenOK, QuietPart, InShell, InForm
  <2>4. SpinPart(t, tb, u, calls')
    <3>1. /\ Starts(op, CardOps(u), u.submitting, u.submitting)
          /\ Starts(op, {"resend"}, u.sending, u.sending)
          /\ Starts(op, {"bannerSend"}, u.banner = "sending", u.banner = "sending")
          /\ Starts(op, {"pageResend"}, u.resending, u.resending)
          /\ Starts(op, AvatarOps, u.crop = "busy", u.crop = "busy")
          /\ Starts(op, {"requestReset"}, u.resetBusy, u.resetBusy)
          /\ Starts(op, {"verify", "pageMe", "confirm"}, u.page = "calling", u.page = "calling")
      BY DEF Starts, CardOps, AvatarOps
    <3> QED BY <2>1, <2>2, <3>1, RequestSpin
  <2>5. op \in RouteOps(u.route) BY DEF RouteOps
  <2> QED BY <1>3, <2>1, <2>2, <2>3, <2>4, <2>5, RequestScreens
<1> QED BY <1>5, <1>6

(* On its way through the client and the server a request stays what it is. *)
LEMMA NetworkScreens ==
  ASSUME TypeOK, Screens, UNCHANGED ui,
         \/ \E t \in Tabs : RefreshRead(t) \/ RefreshCommit(t) \/ RefreshLost(t) \/ Refreshed(t)
         \/ \E i \in DOMAIN calls : Serve(i) \/ Lose(i) \/ RefreshSession(i)
  PROVE  Screens'
<1>1. \A i \in DOMAIN calls : calls[i] \in Call BY DEF TypeOK, SessionTypes
<1>2. ASSUME NEW t \in Tabs, RefreshRead(t) \/ RefreshCommit(t) \/ RefreshLost(t) PROVE Screens'
  <2>1. UNCHANGED <<tab, ui, calls>> BY <1>2 DEF RefreshRead, RefreshCommit, RefreshLost
  <2> QED BY <2>1, PhaseScreens
<1>3. ASSUME NEW t \in Tabs, Refreshed(t) PROVE Screens'
  <2>1. /\ UNCHANGED <<tab, ui>> /\ DOMAIN calls' = DOMAIN calls
        /\ \A i \in DOMAIN calls : /\ calls'[i].tab = calls[i].tab
                                   /\ calls'[i].op = calls[i].op /\ calls'[i].att = calls[i].att
    BY <1>1, <1>3 DEF Refreshed, Call
  <2> QED BY <2>1, PhaseScreens
<1>4. ASSUME NEW i \in DOMAIN calls, Serve(i) PROVE Screens'
  <2>1. PICK r \in Answers : calls' = [calls EXCEPT ![i] =
            [calls[i] EXCEPT !.phase = r,
                      !.n = IF r = "ok" /\ calls[i].op \in PairOps THEN issued' ELSE 0,
                      !.ver = IF r = "ok" /\ calls[i].op \in UserOps THEN account'.ver ELSE @]]
    BY <1>4 DEF Serve
  <2>2. /\ UNCHANGED <<tab, ui>> /\ DOMAIN calls' = DOMAIN calls
        /\ \A j \in DOMAIN calls : /\ calls'[j].tab = calls[j].tab
                                   /\ calls'[j].op = calls[j].op /\ calls'[j].att = calls[j].att
    BY <1>1, <1>4, <2>1 DEF Serve, Call
  <2> QED BY <2>2, PhaseScreens
<1>5. ASSUME NEW i \in DOMAIN calls, Lose(i) PROVE Screens'
  <2>1. /\ UNCHANGED <<tab, ui>> /\ DOMAIN calls' = DOMAIN calls
        /\ \A j \in DOMAIN calls : /\ calls'[j].tab = calls[j].tab
                                   /\ calls'[j].op = calls[j].op /\ calls'[j].att = calls[j].att
    BY <1>1, <1>5 DEF Lose, Lost, Call
  <2> QED BY <2>1, PhaseScreens
<1>6. ASSUME NEW i \in DOMAIN calls, RefreshSession(i) PROVE Screens'
  <2>1. /\ UNCHANGED <<tab, ui>> /\ DOMAIN calls' = DOMAIN calls
        /\ \A j \in DOMAIN calls : /\ calls'[j].tab = calls[j].tab
                                   /\ calls'[j].op = calls[j].op /\ calls'[j].att = calls[j].att
    BY <1>1, <1>6 DEF RefreshSession, Call
  <2> QED BY <2>1, PhaseScreens
<1> QED BY <1>2, <1>3, <1>4, <1>5, <1>6

(* Screens is inductive.                                                    *)
LEMMA UserScreens ==
  ASSUME TypeOK, Screens, NEW t \in Tabs, User(t)
  PROVE  Screens'
<1>1. ASSUME NEW m, SwitchMode(t, m) PROVE Screens' BY <1>1, SwitchModeScreens
<1>2. ASSUME NEW p \in {"account", "logout"}, OpenPanel(t, p) PROVE Screens' BY <1>2, OpenPanelScreens
<1>3. ASSUME NEW v \in {"overview", "password", "deletion"}, SetView(t, v) PROVE Screens' BY <1>3, SetViewScreens
<1>4. CASE HandleSubmit(t) \/ HandleResetRequest(t) \/ ToggleMenu(t) \/ ClosePanel(t) \/ Logout(t)
  BY <1>4, HandleSubmitScreens, HandleResetRequestScreens, ToggleMenuScreens, ClosePanelScreens,
     LogoutScreens
<1>5. CASE SaveNickname(t) \/ Resend(t) \/ ChangePasswordForm(t) \/ RequestDeletion(t)
  BY <1>5, SaveNicknameScreens, ResendScreens, ChangePasswordFormScreens, RequestDeletionScreens
<1>6. CASE ChooseAvatar(t) \/ CancelCrop(t) \/ ConfirmCrop(t)
  BY <1>6, ChooseAvatarScreens, CancelCropScreens, ConfirmCropScreens
<1>7. CASE BannerSend(t) \/ BannerReady(t) \/ PageResend(t) \/ ResetSubmit(t)
  BY <1>7, BannerSendScreens, BannerReadyScreens, PageResendScreens, ResetSubmitScreens
<1> QED BY <1>1, <1>2, <1>3, <1>4, <1>5, <1>6, <1>7 DEF User

(* Every continuation of a request preserves Screens.                       *)
LEMMA SettleStepScreens ==
  ASSUME TypeOK, Screens, NEW i \in DOMAIN calls, Settle(i)
  PROVE  Screens'
<1>1. CASE NothingToRefresh(i) \/ Rejected(i) \/ SignedIn(i) \/ LoggedOut(i)
  BY <1>1, NothingToRefreshScreens, RejectedScreens, SignedInScreens, LoggedOutScreens
<1>2. CASE UserUpdated(i) \/ Accepted(i) \/ PasswordChanged(i) \/ VerifyAnswered(i)
  BY <1>2, UserUpdatedScreens, AcceptedScreens, PasswordChangedScreens, VerifyAnsweredScreens
<1>3. CASE DeletionConfirmed(i) \/ AvatarStep(i) \/ AvatarEnds(i)
  BY <1>3, DeletionConfirmedScreens, AvatarStepScreens, AvatarEndsScreens
<1> QED BY <1>1, <1>2, <1>3 DEF Settle

(* Every step preserves Screens.                                            *)
LEMMA StepScreens ==
  ASSUME TypeOK, WaitInv, Screens, [Next]_vars
  PROVE  Screens'
<1>1. CASE System
  <2>1. ASSUME NEW t \in Tabs, Restore(t) \/ VerifyStart(t) \/ ConfirmStart(t) \/ RefreshFailed(t)
        PROVE  Screens'
    BY <2>1, RestoreScreens, VerifyStartScreens, ConfirmStartScreens, RefreshFailedScreens
  <2>2. ASSUME NEW i \in DOMAIN calls, Settle(i) PROVE Screens'
    BY <2>2, SettleStepScreens
  <2> QED BY <1>1, <2>1, <2>2, NetworkScreens DEF System
<1>2. CASE OtherTab
  <2>1. UNCHANGED <<tab, ui, calls>> BY <1>2 DEF OtherTab
  <2> QED BY <2>1, PhaseScreens
<1>3. ASSUME NEW t \in Tabs, User(t) PROVE Screens'
  BY <1>3, UserScreens
<1>4. CASE UNCHANGED vars
  <2>1. UNCHANGED <<tab, ui, calls>> BY <1>4 DEF vars
  <2> QED BY <2>1, PhaseScreens
<1> QED BY <1>1, <1>2, <1>3, <1>4 DEF Next
-----------------------------------------------------------------------------
(* Types, and the two invariants of the refresh                             *)

Tokens == TypeOK /\ WaitInv /\ TokenInv
CallsOK(ds) == ds \in [DOMAIN ds -> Call] /\ IsFiniteSet(DOMAIN ds) /\ DOMAIN ds \subseteq Nat

(* ds has the waiting requests of cs and no grant that cs does not have.    *)
Follows(cs, ds) ==
  /\ \A i \in DOMAIN cs : cs[i].phase = "waiting" =>
       i \in DOMAIN ds /\ ds[i].phase = "waiting" /\ ds[i].tab = cs[i].tab
  /\ \A i \in DOMAIN ds : ds[i].phase = "waiting" =>
       i \in DOMAIN cs /\ cs[i].phase = "waiting" /\ ds[i].op = cs[i].op
  /\ \A i \in DOMAIN ds : ds[i].phase = "ok" /\ ds[i].op \in PairOps =>
       i \in DOMAIN cs /\ cs[i].phase = "ok" /\ cs[i].op \in PairOps /\ ds[i].n = cs[i].n

(* A step that keeps the waiting requests keeps the refresh its audience.   *)
LEMMA FollowsWait ==
  ASSUME WaitInv, Follows(calls, calls'), refresh' = refresh
  PROVE  WaitInv'
<1>1. \A i \in DOMAIN calls' : calls'[i].phase = "waiting" => calls'[i].op \in AuthedOps
  BY DEF WaitInv, Follows
<1>2. ASSUME NEW t \in Tabs, refresh[t].phase # "idle" PROVE Waiting(t)' # {}
  <2>1. PICK i : i \in Waiting(t) BY <1>2 DEF WaitInv
  <2>2. i \in DOMAIN calls' /\ calls'[i].tab = t /\ calls'[i].phase = "waiting"
    BY <2>1 DEF Follows, Waiting, Flying
  <2> QED BY <2>2 DEF Waiting, Flying
<1> QED BY <1>1, <1>2 DEF WaitInv

(* What a tab's refresh may do beside being answered.                       *)
Turns(t) ==
  \/ refresh'[t] = refresh[t]
  \/ refresh'[t].phase = "idle" /\ store'.n = 0
  \/ refresh'[t].phase = "sent" /\ refresh[t].phase = "idle" /\ refresh'[t].n = store.n /\ store.n # 0
  \/ refresh'[t].phase = "read" /\ refresh[t].phase = "sent" /\ refresh'[t].n = refresh[t].n
  \/ refresh'[t].phase = "refused"

(* A step that saves no pair, grants none and rotates none keeps TokenInv,  *)
(* whatever it does to the refreshes.                                       *)
LEMMA TurnsToken ==
  ASSUME TypeOK, TokenInv, rotated' = rotated, store'.n \in {0, store.n}, \A t \in Tabs : Turns(t),
         \A i \in DOMAIN calls' : Granted(i)' =>
           i \in DOMAIN calls /\ Granted(i) /\ calls'[i].n = calls[i].n
  PROVE  TokenInv'
<1>1. \A t : <<t, 0>> \notin rotated
  BY DEF TypeOK, SessionTypes
<1>2. ASSUME NEW n, Unspent(n) PROVE Unspent(n)'
  <2>1. n # 0 /\ n # store'.n /\ \A s \in Tabs : <<s, n>> \notin rotated'
    BY <1>2 DEF Unspent
  <2>2. ASSUME NEW s \in Tabs, refresh'[s].phase \in {"sent", "read"} PROVE refresh'[s].n # n
    BY <1>2, <2>2 DEF Unspent, Turns
  <2> QED BY <2>1, <2>2 DEF Unspent
<1>3. ASSUME NEW t \in Tabs
      PROVE  /\ refresh'[t].phase \in {"idle", "sent", "read"} => <<t, store'.n>> \notin rotated'
             /\ refresh'[t].phase \in {"sent", "read"} =>
                  refresh'[t].n # 0 /\ <<t, refresh'[t].n>> \notin rotated'
             /\ refresh'[t].phase = "ok" => refresh'[t] = refresh[t]
  BY <1>1 DEF TokenInv, Turns
<1>4. ASSUME NEW t \in Tabs, refresh'[t].phase = "ok" PROVE Unspent(refresh[t].n)'
  <2>1. ASSUME NEW m, m = refresh'[t].n PROVE Unspent(m)'
    BY <1>2, <1>3, <1>4, <2>1 DEF TokenInv
  <2> QED BY <2>1
<1>5. ASSUME NEW i \in DOMAIN calls', Granted(i)'
      PROVE  /\ Unspent(calls[i].n)'
             /\ \A t \in Tabs : refresh'[t].phase = "ok" => refresh'[t].n # calls'[i].n
             /\ \A j \in DOMAIN calls' : Granted(j)' /\ calls'[j].n = calls'[i].n => i = j
  <2>1. i \in DOMAIN calls /\ Granted(i) /\ calls'[i].n = calls[i].n BY <1>5
  <2>2. ASSUME NEW m, m = calls'[i].n PROVE Unspent(m)'
    BY <1>2, <2>1, <2>2 DEF TokenInv
  <2>3. Unspent(calls[i].n)' BY <2>2
  <2>4. \A t \in Tabs : refresh'[t].phase = "ok" => refresh'[t].n # calls'[i].n
    BY <1>3, <2>1 DEF TokenInv
  <2>5. \A j \in DOMAIN calls' : Granted(j)' /\ calls'[j].n = calls'[i].n => i = j
    BY <2>1 DEF TokenInv
  <2> QED BY <2>3, <2>4, <2>5
<1>6. ASSUME NEW s \in Tabs, NEW t \in Tabs, refresh'[s].phase = "ok", refresh'[t].phase = "ok",
             refresh'[s].n = refresh'[t].n
      PROVE  s = t
  <2>1. refresh'[s] = refresh[s] /\ refresh'[t] = refresh[t] BY <1>3, <1>6
  <2> QED BY <1>6, <2>1 DEF TokenInv
<1> QED BY <1>3, <1>4, <1>5, <1>6 DEF TokenInv

(* The store takes a pair that nobody else holds.                           *)
LEMMA SavedToken ==
  ASSUME TokenInv, NEW n, Unspent(n), rotated' = rotated, store'.n = n,
         \A t \in Tabs : \/ refresh'[t] = refresh[t] /\ (refresh[t].phase = "ok" => refresh[t].n # n)
                         \/ refresh'[t].phase = "idle",
         \A i \in DOMAIN calls' : Granted(i)' =>
           i \in DOMAIN calls /\ Granted(i) /\ calls'[i].n = calls[i].n /\ calls[i].n # n
  PROVE  TokenInv'
<1>1. \A s \in Tabs : <<s, n>> \notin rotated BY DEF Unspent
<1>2. ASSUME NEW m, m # n, Unspent(m) PROVE Unspent(m)'
  <2>1. m # 0 /\ m # store'.n /\ \A s \in Tabs : <<s, m>> \notin rotated'
    BY <1>2 DEF Unspent
  <2>2. ASSUME NEW s \in Tabs, refresh'[s].phase \in {"sent", "read"} PROVE refresh'[s].n # m
    BY <1>2, <2>2 DEF Unspent
  <2> QED BY <2>1, <2>2 DEF Unspent
<1>3. ASSUME NEW t \in Tabs
      PROVE  /\ <<t, store'.n>> \notin rotated'
             /\ refresh'[t].phase \in {"sent", "read"} =>
                  refresh'[t].n # 0 /\ <<t, refresh'[t].n>> \notin rotated'
             /\ refresh'[t].phase = "ok" => refresh'[t] = refresh[t] /\ refresh[t].n # n
  BY <1>1 DEF TokenInv
<1>4. ASSUME NEW t \in Tabs, refresh'[t].phase = "ok" PROVE Unspent(refresh[t].n)'
  <2>1. ASSUME NEW m, m = refresh'[t].n PROVE Unspent(m)'
    BY <1>2, <1>3, <1>4, <2>1 DEF TokenInv
  <2> QED BY <2>1
<1>5. ASSUME NEW i \in DOMAIN calls', Granted(i)'
      PROVE  /\ Unspent(calls[i].n)'
             /\ \A t \in Tabs : refresh'[t].phase = "ok" => refresh'[t].n # calls'[i].n
             /\ \A j \in DOMAIN calls' : Granted(j)' /\ calls'[j].n = calls'[i].n => i = j
  <2>1. i \in DOMAIN calls /\ Granted(i) /\ calls'[i].n = calls[i].n /\ calls[i].n # n BY <1>5
  <2>2. ASSUME NEW m, m = calls'[i].n PROVE Unspent(m)'
    BY <1>2, <2>1, <2>2 DEF TokenInv
  <2>3. Unspent(calls[i].n)' BY <2>2
  <2>4. \A t \in Tabs : refresh'[t].phase = "ok" => refresh'[t].n # calls'[i].n
    BY <1>3, <2>1 DEF TokenInv
  <2>5. \A j \in DOMAIN calls' : Granted(j)' /\ calls'[j].n = calls'[i].n => i = j
    BY <2>1 DEF TokenInv
  <2> QED BY <2>3, <2>4, <2>5
<1>6. ASSUME NEW s \in Tabs, NEW t \in Tabs, refresh'[s].phase = "ok", refresh'[t].phase = "ok",
             refresh'[s].n = refresh'[t].n
      PROVE  s = t
  <2>1. refresh'[s] = refresh[s] /\ refresh'[t] = refresh[t] BY <1>3, <1>6
  <2> QED BY <1>6, <2>1 DEF TokenInv
<1> QED BY <1>3, <1>4, <1>5, <1>6 DEF TokenInv

(* In particular a step that leaves the refreshes alone.                    *)
LEMMA FollowsToken ==
  ASSUME TypeOK, TokenInv, Follows(calls, calls'), refresh' = refresh, rotated' = rotated,
         store'.n \in {0, store.n}
  PROVE  TokenInv'
<1>1. \A i \in DOMAIN calls' : Granted(i)' => i \in DOMAIN calls /\ Granted(i) /\ calls'[i].n = calls[i].n
  BY DEF Follows, Granted
<1>2. \A t \in Tabs : Turns(t) BY DEF Turns
<1> QED BY <1>1, <1>2, TurnsToken

(* The types after a step that issues no pair.                              *)
LEMMA TypesKept ==
  ASSUME TypeOK, UNCHANGED <<cred, rotated>>, store' \in Session, tab' \in [Tabs -> TabState],
         refresh' \in [Tabs -> Refresh], CallsOK(calls'), asked' \in 0..MaxCalls,
         ui' \in [Tabs -> Screen]
  PROVE  TypeOK'
<1>1. CredTypes' BY DEF TypeOK, CredTypes, cred, Purposes
<1>2. /\ Session' = Session /\ TabState' = TabState /\ Refresh' = Refresh /\ Call' = Call
      /\ issued' = issued
  BY DEF cred, Session, TabState, Refresh, Call
<1>3. SessionTypes'
  BY <1>2 DEF TypeOK, SessionTypes, CallsOK
<1> QED BY <1>1, <1>3 DEF TypeOK

(* The three together, for a step that issues no pair and leaves the        *)
(* refreshes alone.                                                         *)
LEMMA TokensKept ==
  ASSUME Tokens, UNCHANGED <<cred, refresh, rotated>>, store' \in Session, store'.n \in {0, store.n},
         tab' \in [Tabs -> TabState], CallsOK(calls'), Follows(calls, calls'),
         asked' \in 0..MaxCalls, ui' \in [Tabs -> Screen]
  PROVE  Tokens'
<1>1. refresh' \in [Tabs -> Refresh] BY DEF Tokens, TypeOK, SessionTypes
<1>2. TypeOK' BY <1>1, TypesKept DEF Tokens
<1>3. WaitInv' BY FollowsWait DEF Tokens
<1>4. TokenInv' BY FollowsToken DEF Tokens
<1> QED BY <1>2, <1>3, <1>4 DEF Tokens

(* Requests that settle leave finitely many requests of the right type.     *)
LEMMA SettledCalls ==
  ASSUME TypeOK, NEW I, \A i \in I : calls[i].phase # "waiting"
  PROVE  CallsOK(Settled(I)) /\ Follows(calls, Settled(I))
<1>1. DOMAIN Settled(I) = DOMAIN calls \ I /\ \A i \in DOMAIN calls \ I : Settled(I)[i] = calls[i]
  BY SettledShows
<1>2. IsFiniteSet(DOMAIN Settled(I))
  BY <1>1, FS_Subset DEF TypeOK, SessionTypes
<1>3. \A i \in DOMAIN Settled(I) : Settled(I)[i] \in Call
  BY <1>1 DEF TypeOK, SessionTypes
<1>4. Settled(I) \in [DOMAIN Settled(I) -> Call]
  BY <1>3 DEF Settled, Restrict
<1>5. DOMAIN Settled(I) \subseteq Nat BY <1>1 DEF TypeOK, SessionTypes
<1>6. Follows(calls, Settled(I))
  BY <1>1 DEF Follows
<1> QED BY <1>2, <1>4, <1>5, <1>6 DEF CallsOK

(* A new request is one, and it is sent.                                    *)
LEMMA NewCallType ==
  ASSUME TypeOK, NEW t \in Tabs, NEW op \in PublicOps \cup AuthedOps \cup AvatarOps
  PROVE  NewCall(t, op) \in Call /\ NewCall(t, op).phase = "sent"
<1>1. tab[t].session.ver \in BOOLEAN /\ store.n \in 0..issued /\ 0 \in 0..issued
  BY DEF TypeOK, SessionTypes, CredTypes, TabState, Session
<1> DEFINE b == op = "avCreate" /\ tab[t].session.ver
           m == IF op \in AuthedOps \cup {"logout"} THEN store.n ELSE 0
<1>2. b \in BOOLEAN /\ m \in 0..issued BY <1>1
<1>3. NewCall(t, op) = [tab |-> t, op |-> op, retried |-> FALSE, phase |-> "sent",
                        n |-> m, ver |-> b, att |-> "yes", k |-> 0]
  BY DEF NewCall
<1> HIDE DEF b, m
<1> QED BY <1>2, <1>3 DEF Call

(* A new request beside the others.                                         *)
LEMMA RequestCalls ==
  ASSUME TypeOK, NEW t \in Tabs, NEW op \in PublicOps \cup AuthedOps \cup AvatarOps, Request(t, op)
  PROVE  CallsOK(calls') /\ Follows(calls, calls')
<1>1. /\ Unused \in Nat \ DOMAIN calls /\ DOMAIN calls' = DOMAIN calls \cup {Unused}
      /\ calls'[Unused] = NewCall(t, op) /\ \A i \in DOMAIN calls : calls'[i] = calls[i]
  BY RequestShows
<1>2. NewCall(t, op) \in Call /\ NewCall(t, op).phase = "sent" BY NewCallType
<1>3. \A i \in DOMAIN calls' : calls'[i] \in Call
  BY <1>1, <1>2 DEF TypeOK, SessionTypes
<1>4. calls' \in [DOMAIN calls' -> Call]
  BY <1>1, <1>3 DEF Request
<1>5. IsFiniteSet(DOMAIN calls') BY <1>1, FS_AddElement DEF TypeOK, SessionTypes
<1>6. DOMAIN calls' \subseteq Nat BY <1>1 DEF TypeOK, SessionTypes
<1>7. Follows(calls, calls') BY <1>1, <1>2 DEF Follows
<1> QED BY <1>4, <1>5, <1>6, <1>7 DEF CallsOK

(* A request that goes on as another.                                       *)
LEMMA ReplaceCalls ==
  ASSUME TypeOK, NEW i \in DOMAIN calls, calls[i].phase # "waiting", NEW d \in Call, d.phase = "sent",
         calls' = [calls EXCEPT ![i] = d]
  PROVE  CallsOK(calls') /\ Follows(calls, calls')
<1>1. /\ DOMAIN calls' = DOMAIN calls /\ calls'[i] = d
      /\ \A j \in DOMAIN calls : j # i => calls'[j] = calls[j]
  OBVIOUS
<1>2. calls' \in [DOMAIN calls' -> Call] BY <1>1 DEF TypeOK, SessionTypes
<1>3. Follows(calls, calls') BY <1>1 DEF Follows
<1> QED BY <1>1, <1>2, <1>3 DEF CallsOK, TypeOK, SessionTypes

(* Detaching a request from its screen changes nothing of its way.          *)
LEMMA DetachedCalls ==
  ASSUME NEW cs, NEW ds, CallsOK(cs), Follows(calls, cs), ds \in [DOMAIN cs -> Call],
         \A i \in DOMAIN cs : /\ ds[i].tab = cs[i].tab /\ ds[i].op = cs[i].op
                              /\ ds[i].phase = cs[i].phase /\ ds[i].n = cs[i].n
  PROVE  CallsOK(ds) /\ Follows(calls, ds)
<1>1. DOMAIN ds = DOMAIN cs OBVIOUS
<1> QED BY <1>1 DEF CallsOK, Follows

(* What a continuation leaves of the requests that go on.                   *)
Carries(cs, ds) ==
  /\ ds \in [DOMAIN cs -> Call]
  /\ \A i \in DOMAIN cs : /\ ds[i].tab = cs[i].tab /\ ds[i].op = cs[i].op
                         /\ ds[i].phase = cs[i].phase /\ ds[i].n = cs[i].n

(* A continuation keeps the types, and of the requests everything but their *)
(* screens.                                                                 *)
LEMMA ContinueCalls ==
  ASSUME TypeOK, NEW t \in Tabs, NEW s, NEW tb \in TabState, NEW u \in Screen, NEW cs,
         CallsOK(cs), Continue(t, s, tb, u, cs)
  PROVE  /\ store' = s /\ tab' \in [Tabs -> TabState] /\ ui' \in [Tabs -> Screen]
         /\ Carries(cs, calls')
<1>1. NewUi("gate", "form") \in Screen BY DEF NewUi, Screen
<1>2. store' = s /\ tab' = [tab EXCEPT ![t] = tb] BY DEF Continue
<1>3. tab' \in [Tabs -> TabState] BY <1>2 DEF TypeOK, SessionTypes
<1>4. CASE ~Swaps(t, tb, u)
  <2>1. ui' = [ui EXCEPT ![t] = u] /\ calls' = cs BY <1>4, ContinueHere
  <2> QED BY <1>2, <1>3, <2>1 DEF TypeOK, CallsOK, Carries
<1>5. CASE Swaps(t, tb, u)
  <2>1. /\ ui' = [ui EXCEPT ![t] = NewUi("gate", "form")]
        /\ calls' = [i \in DOMAIN cs |-> IF cs[i].tab = t THEN [cs[i] EXCEPT !.att = "no"] ELSE cs[i]]
    BY <1>5 DEF Continue, Swaps
  <2>2. \A i \in DOMAIN cs : cs[i] \in Call BY DEF CallsOK
  <2>3. \A i \in DOMAIN cs : [cs[i] EXCEPT !.att = "no"] \in Call
    BY <2>2 DEF Call
  <2>4. calls' \in [DOMAIN cs -> Call] BY <2>1, <2>2, <2>3
  <2>5. \A i \in DOMAIN cs : /\ calls'[i].tab = cs[i].tab /\ calls'[i].op = cs[i].op
                             /\ calls'[i].phase = cs[i].phase /\ calls'[i].n = cs[i].n
    BY <2>1, <2>2 DEF Call
  <2>6. ui' \in [Tabs -> Screen] BY <1>1, <2>1 DEF TypeOK
  <2>7. Carries(cs, calls') BY <2>4, <2>5 DEF Carries
  <2> QED BY <1>2, <1>3, <2>6, <2>7
<1> QED BY <1>4, <1>5

(* So it keeps whatever follows from its requests.                          *)
LEMMA ContinueTypes ==
  ASSUME TypeOK, NEW t \in Tabs, NEW s, NEW tb \in TabState, NEW u \in Screen, NEW cs,
         CallsOK(cs), Follows(calls, cs), Continue(t, s, tb, u, cs)
  PROVE  /\ store' = s /\ tab' \in [Tabs -> TabState] /\ ui' \in [Tabs -> Screen]
         /\ CallsOK(calls') /\ Follows(calls, calls')
<1>1. /\ store' = s /\ tab' \in [Tabs -> TabState] /\ ui' \in [Tabs -> Screen]
      /\ Carries(cs, calls')
  BY ContinueCalls
<1>2. CallsOK(calls') /\ Follows(calls, calls') BY <1>1, DetachedCalls DEF Carries
<1> QED BY <1>1, <1>2

(* A continuation that saves no new pair.                                   *)
LEMMA ContinueTokens ==
  ASSUME Tokens, NEW t \in Tabs, NEW s \in Session, s.n \in {0, store.n}, NEW tb \in TabState,
         NEW u \in Screen, NEW cs, CallsOK(cs), Follows(calls, cs), Continue(t, s, tb, u, cs), Quiet
  PROVE  Tokens'
<1>1. TypeOK BY DEF Tokens
<1>2. /\ store' = s /\ tab' \in [Tabs -> TabState] /\ ui' \in [Tabs -> Screen]
      /\ CallsOK(calls') /\ Follows(calls, calls')
  BY <1>1, ContinueTypes
<1>3. asked' \in 0..MaxCalls BY <1>1 DEF Quiet, TypeOK, SessionTypes
<1>4. UNCHANGED <<cred, refresh, rotated>> BY DEF Quiet
<1> QED BY <1>2, <1>3, <1>4, TokensKept

(* The requests follow themselves.                                          *)
LEMMA SameCalls ==
  ASSUME TypeOK
  PROVE  CallsOK(calls) /\ Follows(calls, calls)
BY DEF TypeOK, SessionTypes, CallsOK, Follows

(* A step of a screen alone.                                                *)
LEMMA UiTokens ==
  ASSUME Tokens, NEW t \in Tabs, NEW u \in Screen, Ui(t, u)
  PROVE  Tokens'
<1>1. UNCHANGED <<cred, refresh, rotated, store, tab, calls, asked>> /\ ui' = [ui EXCEPT ![t] = u]
  BY DEF Ui
<1>2. TypeOK BY DEF Tokens
<1>3. CallsOK(calls') /\ Follows(calls, calls') BY <1>1, <1>2, SameCalls
<1>4. store' \in Session /\ store'.n \in {0, store.n} /\ tab' \in [Tabs -> TabState]
  BY <1>1, <1>2 DEF TypeOK, SessionTypes
<1>5. asked' \in 0..MaxCalls /\ ui' \in [Tabs -> Screen]
  BY <1>1, <1>2 DEF TypeOK, SessionTypes
<1> QED BY <1>1, <1>3, <1>4, <1>5, TokensKept

(* A request that is sent.                                                  *)
LEMMA OpenTokens ==
  ASSUME Tokens, NEW t \in Tabs, NEW op \in PublicOps \cup AuthedOps \cup AvatarOps, NEW u \in Screen,
         Open(t, op, u), asked' \in 0..MaxCalls
  PROVE  Tokens'
<1>1. UNCHANGED <<cred, refresh, rotated, store, tab>> /\ ui' = [ui EXCEPT ![t] = u] /\ Request(t, op)
  BY DEF Open
<1>2. TypeOK BY DEF Tokens
<1>3. CallsOK(calls') /\ Follows(calls, calls') BY <1>1, <1>2, RequestCalls
<1>4. store' \in Session /\ store'.n \in {0, store.n} /\ tab' \in [Tabs -> TabState]
  BY <1>1, <1>2 DEF TypeOK, SessionTypes
<1>5. ui' \in [Tabs -> Screen]
  BY <1>1, <1>2 DEF TypeOK
<1> QED BY <1>1, <1>3, <1>4, <1>5, TokensKept

(* The bound on the user's requests is kept.                                *)
LEMMA BudgetType ==
  ASSUME TypeOK, Budget
  PROVE  asked' \in 0..MaxCalls
BY SessionAssumption DEF TypeOK, SessionTypes, Budget

(* A request that the user asks for.                                        *)
LEMMA AskTokens ==
  ASSUME Tokens, NEW t \in Tabs, NEW op \in PublicOps \cup AuthedOps \cup AvatarOps, NEW u \in Screen,
         Ask(t, op, u)
  PROVE  Tokens'
<1>1. Open(t, op, u) /\ asked' \in 0..MaxCalls BY BudgetType DEF Ask, Tokens
<1> QED BY <1>1, OpenTokens

(* The user's steps.                                                        *)
LEMMA UserTokens ==
  ASSUME Tokens, NEW t \in Tabs, User(t)
  PROVE  Tokens'
<1> DEFINE u == ui[t]
           Ops == PublicOps \cup AuthedOps \cup AvatarOps
<1>1. TypeOK /\ u \in Screen /\ tab[t] \in TabState
  BY DEF Tokens, TypeOK, SessionTypes
<1>2. /\ {"requestReset", "profile", "resend", "changePassword", "requestDeletion", "logout",
         "bannerSend", "pageResend", "reset", "avCreate", "login", "register"} \subseteq Ops
  BY DEF PublicOps, AuthedOps, AvatarOps
<1> HIDE DEF Ops
<1>3. ASSUME NEW m \in {"login", "register", "forgot"}, SwitchMode(t, m) PROVE Tokens'
  <2> DEFINE w == [u EXCEPT !.mode = m]
             v == [w EXCEPT !.sent = FALSE]
  <2>1. w \in Screen BY <1>1, ScreenFields
  <2>2. Ui(t, v) BY <1>3 DEF SwitchMode
  <2> HIDE DEF w
  <2>3. v \in Screen BY <2>1, ScreenFields
  <2> QED BY <2>2, <2>3, UiTokens
<1>4. ASSUME NEW p \in {"account", "logout"}, OpenPanel(t, p) PROVE Tokens'
  <2>1. [u EXCEPT !.panel = p] \in Screen BY <1>1, ScreenFields
  <2> QED BY <1>4, <2>1, UiTokens DEF OpenPanel
<1>5. ASSUME NEW v \in {"overview", "password", "deletion"}, SetView(t, v) PROVE Tokens'
  <2>1. [u EXCEPT !.view = v] \in Screen BY <1>1, ScreenFields
  <2> QED BY <1>5, <2>1, UiTokens DEF SetView
<1>6. CASE HandleSubmit(t)
  <2> DEFINE tb == [tab[t] EXCEPT !.busy = TRUE]
  <2>1. u.mode \in {"login", "register"} BY <1>1, <1>6 DEF HandleSubmit, FormReady, Screen
  <2>2. Request(t, u.mode) /\ UNCHANGED <<cred, store, refresh, rotated, ui>> /\ Budget
    BY <1>6 DEF HandleSubmit
  <2>3. u.mode \in Ops BY <1>2, <2>1
  <2>4. CallsOK(calls') /\ Follows(calls, calls') BY <1>1, <2>2, <2>3, RequestCalls DEF Ops
  <2>5. tab' = [tab EXCEPT ![t] = tb]
    BY <1>1, <1>6 DEF HandleSubmit, TypeOK, SessionTypes
  <2>6. tb \in TabState BY <1>1 DEF TabState
  <2> HIDE DEF tb
  <2>7. tab' \in [Tabs -> TabState] BY <1>1, <2>5, <2>6 DEF TypeOK, SessionTypes
  <2>8. store' \in Session /\ store'.n \in {0, store.n} /\ ui' \in [Tabs -> Screen]
    BY <1>1, <2>2 DEF TypeOK, SessionTypes
  <2>9. asked' \in 0..MaxCalls BY <1>1, <2>2, BudgetType
  <2> QED BY <2>2, <2>4, <2>7, <2>8, <2>9, TokensKept
<1>7. CASE HandleResetRequest(t)
  <2>1. [u EXCEPT !.resetBusy = TRUE] \in Screen BY <1>1, ScreenFields
  <2> QED BY <1>2, <1>7, <2>1, AskTokens DEF HandleResetRequest, Ops
<1>8. CASE ToggleMenu(t)
  <2> DEFINE e == IF u.panel = "menu" THEN "closed" ELSE "menu"
  <2>1. e \in {"closed", "menu", "account", "logout"} OBVIOUS
  <2>2. Ui(t, [u EXCEPT !.panel = e]) BY <1>8 DEF ToggleMenu
  <2> HIDE DEF e
  <2>3. [u EXCEPT !.panel = e] \in Screen BY <1>1, <2>1, ScreenFields
  <2> QED BY <2>2, <2>3, UiTokens
<1>9. CASE ClosePanel(t)
  <2> DEFINE w == NewUi("gate", "form")
             v == [w EXCEPT !.banner = u.banner]
  <2>1. w \in Screen BY DEF NewUi, Screen
  <2>2. /\ ui' = [ui EXCEPT ![t] = v]
        /\ calls' = [i \in DOMAIN calls |->
                       IF calls[i].tab = t /\ calls[i].op # "bannerSend"
                         THEN [calls[i] EXCEPT !.att = "no"] ELSE calls[i]]
        /\ UNCHANGED <<cred, store, tab, refresh, asked, rotated>>
    BY <1>9 DEF ClosePanel
  <2>3. u.banner \in {"ready", "sending", "cooling"} BY <1>1 DEF Screen
  <2> HIDE DEF w
  <2>4. v \in Screen BY <2>1, <2>3, ScreenFields
  <2> HIDE DEF v
  <2>5. \A i \in DOMAIN calls : calls[i] \in Call /\ [calls[i] EXCEPT !.att = "no"] \in Call
    BY <1>1 DEF TypeOK, SessionTypes, Call
  <2>6. calls' \in [DOMAIN calls -> Call] BY <2>2, <2>5
  <2>7. \A i \in DOMAIN calls : /\ calls'[i].tab = calls[i].tab /\ calls'[i].op = calls[i].op
                                /\ calls'[i].phase = calls[i].phase /\ calls'[i].n = calls[i].n
    BY <2>2, <2>5 DEF Call
  <2>8. CallsOK(calls') /\ Follows(calls, calls')
    BY <1>1, <2>6, <2>7, SameCalls, DetachedCalls
  <2>9. /\ store' \in Session /\ store'.n \in {0, store.n} /\ ui' \in [Tabs -> Screen]
        /\ tab' \in [Tabs -> TabState] /\ asked' \in 0..MaxCalls
    BY <1>1, <2>2, <2>4 DEF TypeOK, SessionTypes
  <2> QED BY <2>2, <2>8, <2>9, TokensKept
<1>10. CASE Logout(t)
  <2>1. CASE store.n = 0
    <3>1. Continue(t, NoSession, ResetTab, u, calls) /\ Quiet BY <1>10, <2>1 DEF Logout
    <3>2. NoSession \in Session /\ NoSession.n \in {0, store.n} /\ ResetTab \in TabState
      BY <1>1 DEF NoSession, ResetTab, Session, TabState, TypeOK, CredTypes
    <3> QED BY <1>1, <3>1, <3>2, SameCalls, ContinueTokens
  <2>2. CASE store.n # 0
    <3>1. Ask(t, "logout", u) BY <1>10, <2>2 DEF Logout
    <3> QED BY <1>1, <1>2, <3>1, AskTokens DEF Ops
  <2> QED BY <2>1, <2>2
<1>11. CASE SaveNickname(t) \/ ChangePasswordForm(t) \/ RequestDeletion(t)
  <2>1. [u EXCEPT !.submitting = TRUE] \in Screen BY <1>1, ScreenFields
  <2> QED BY <1>2, <1>11, <2>1, AskTokens DEF SaveNickname, ChangePasswordForm, RequestDeletion, Ops
<1>12. CASE Resend(t)
  <2>1. [u EXCEPT !.sending = TRUE] \in Screen BY <1>1, ScreenFields
  <2> QED BY <1>2, <1>12, <2>1, AskTokens DEF Resend, Ops
<1>13. CASE ChooseAvatar(t)
  <2>1. [u EXCEPT !.crop = "open"] \in Screen BY <1>1, ScreenFields
  <2> QED BY <1>13, <2>1, UiTokens DEF ChooseAvatar
<1>14. CASE CancelCrop(t)
  <2> DEFINE v == [u EXCEPT !.crop = "none"]
  <2>1. /\ ui' = [ui EXCEPT ![t] = v] /\ calls' = WithoutCropper(calls, t)
        /\ UNCHANGED <<cred, store, tab, refresh, asked, rotated>>
    BY <1>1, <1>14 DEF CancelCrop, TypeOK
  <2>2. v \in Screen BY <1>1, ScreenFields
  <2> HIDE DEF v
  <2>3. \A i \in DOMAIN calls : calls[i] \in Call /\ [calls[i] EXCEPT !.att = "card"] \in Call
    BY <1>1 DEF TypeOK, SessionTypes, Call
  <2>4. calls' \in [DOMAIN calls -> Call] BY <2>1, <2>3 DEF WithoutCropper
  <2>5. \A i \in DOMAIN calls : /\ calls'[i].tab = calls[i].tab /\ calls'[i].op = calls[i].op
                                /\ calls'[i].phase = calls[i].phase /\ calls'[i].n = calls[i].n
    BY <2>1, <2>3 DEF Call, WithoutCropper
  <2>6. CallsOK(calls') /\ Follows(calls, calls')
    BY <1>1, <2>4, <2>5, SameCalls, DetachedCalls
  <2>7. /\ store' \in Session /\ store'.n \in {0, store.n} /\ ui' \in [Tabs -> Screen]
        /\ tab' \in [Tabs -> TabState] /\ asked' \in 0..MaxCalls
    BY <1>1, <2>1, <2>2 DEF TypeOK, SessionTypes
  <2> QED BY <2>1, <2>6, <2>7, TokensKept
<1>15. CASE ConfirmCrop(t)
  <2>1. [u EXCEPT !.crop = "busy"] \in Screen BY <1>1, ScreenFields
  <2> QED BY <1>2, <1>15, <2>1, AskTokens DEF ConfirmCrop, Ops
<1>16. CASE BannerSend(t)
  <2>1. [u EXCEPT !.banner = "sending"] \in Screen BY <1>1, ScreenFields
  <2> QED BY <1>2, <1>16, <2>1, AskTokens DEF BannerSend, Ops
<1>17. CASE BannerReady(t)
  <2>1. [u EXCEPT !.banner = "ready"] \in Screen BY <1>1, ScreenFields
  <2> QED BY <1>17, <2>1, UiTokens DEF BannerReady
<1>18. CASE PageResend(t)
  <2>1. [u EXCEPT !.resending = TRUE] \in Screen BY <1>1, ScreenFields
  <2> QED BY <1>2, <1>18, <2>1, AskTokens DEF PageResend, Ops
<1>19. CASE ResetSubmit(t)
  <2>1. [u EXCEPT !.page = "busy"] \in Screen BY <1>1, ScreenFields
  <2> QED BY <1>2, <1>19, <2>1, AskTokens DEF ResetSubmit, Ops
<1>20. CASE SaveNickname(t) \/ Resend(t) \/ ChangePasswordForm(t) \/ RequestDeletion(t)
  BY <1>11, <1>12, <1>20
<1>21. CASE BannerSend(t) \/ BannerReady(t) \/ PageResend(t) \/ ResetSubmit(t)
  BY <1>16, <1>17, <1>18, <1>19, <1>21
<1>22. CASE ChooseAvatar(t) \/ CancelCrop(t) \/ ConfirmCrop(t)
  BY <1>13, <1>14, <1>15, <1>22
<1> QED BY <1>3, <1>4, <1>5, <1>6, <1>7, <1>8, <1>9, <1>10, <1>20, <1>21, <1>22 DEF User

(* Answers.                                                                 *)
LEMMA OverCalls ==
  ASSUME TypeOK, NEW i \in DOMAIN calls, calls[i].phase # "waiting"
  PROVE  CallsOK(Over(i)) /\ Follows(calls, Over(i))
BY SettledCalls DEF Over

(* No session, and the tab without one.                                     *)
LEMMA EmptyTypes ==
  ASSUME TypeOK
  PROVE  NoSession \in Session /\ NoSession.n = 0 /\ ResetTab \in TabState
BY DEF NoSession, ResetTab, Session, TabState, TypeOK, CredTypes

(* The user mirror keeps the type of the session.                           *)
LEMMA WithUserType ==
  ASSUME NEW s \in Session, NEW b \in BOOLEAN
  PROVE  WithUser(s, b) \in Session /\ WithUser(s, b).n = s.n
BY DEF WithUser, Session

(* A granted pair is saved: nobody else has it.                             *)
LEMMA SignedInTokens ==
  ASSUME Tokens, NEW i \in DOMAIN calls, SignedIn(i)
  PROVE  Tokens'
<1> DEFINE c == calls[i]
           t == c.tab
           s == [n |-> c.n, ver |-> c.ver]
           tb == [tab[t] EXCEPT !.session = s, !.busy = FALSE]
<1>1. TypeOK /\ c \in Call /\ t \in Tabs BY DEF Tokens, TypeOK, SessionTypes, Call
<1>2. tab[t] \in TabState /\ ui[t] \in Screen BY <1>1 DEF TypeOK, SessionTypes
<1>3. s \in Session BY <1>1 DEF Call, Session
<1>4. tb \in TabState BY <1>2, <1>3 DEF TabState
<1>5. Granted(i) /\ Continue(t, s, tb, ui[t], Over(i)) /\ Quiet
  BY DEF SignedIn, Granted, PairOps
<1>6. c.phase = "ok" BY <1>5 DEF Granted
<1>7. CallsOK(Over(i)) /\ Follows(calls, Over(i)) BY <1>1, <1>6, OverCalls
<1> HIDE DEF tb, s
<1>8. /\ store' = s /\ tab' \in [Tabs -> TabState] /\ ui' \in [Tabs -> Screen]
      /\ CallsOK(calls') /\ Follows(calls, calls')
  BY <1>1, <1>2, <1>3, <1>4, <1>5, <1>7, ContinueTypes
<1>9. /\ asked' \in 0..MaxCalls /\ UNCHANGED <<cred, refresh, rotated>>
      /\ refresh' \in [Tabs -> Refresh] /\ store' \in Session
  BY <1>1, <1>3, <1>5, <1>8 DEF Quiet, TypeOK, SessionTypes
<1>10. TypeOK' BY <1>1, <1>8, <1>9, TypesKept
<1>11. WaitInv' BY <1>8, <1>9, FollowsWait DEF Tokens
<1>12. TokenInv'
  <2>1. store'.n = c.n BY <1>8 DEF s
  <2>2. \A j \in DOMAIN calls' : Granted(j)' =>
          j \in DOMAIN calls /\ Granted(j) /\ calls'[j].n = calls[j].n
    BY <1>8 DEF Follows, Granted
  <2>3. i \notin DOMAIN calls'
    <3>1. i \notin DOMAIN Over(i) BY DEF Over, Settled, Restrict
    <3>2. DOMAIN calls' = DOMAIN Over(i) BY <1>5 DEF Continue
    <3> QED BY <3>1, <3>2
  <2>4. /\ Unspent(c.n)
        /\ \A r \in Tabs : refresh[r].phase = "ok" => refresh[r].n # c.n
        /\ \A j \in DOMAIN calls : Granted(j) /\ calls[j].n = c.n => i = j
    BY <1>5 DEF Tokens, TokenInv
  <2>5. \A j \in DOMAIN calls' : Granted(j)' =>
          j \in DOMAIN calls /\ Granted(j) /\ calls'[j].n = calls[j].n /\ calls[j].n # c.n
    BY <2>2, <2>3, <2>4
  <2> HIDE DEF c
  <2> QED BY <1>9, <2>1, <2>4, <2>5, SavedToken DEF Tokens
<1> QED BY <1>10, <1>11, <1>12 DEF Tokens

(* A settled request that goes on as another one.                           *)
LEMMA ReplaceTokens ==
  ASSUME Tokens, NEW i \in DOMAIN calls, calls[i].phase # "waiting", NEW d \in Call, d.phase = "sent",
         calls' = [calls EXCEPT ![i] = d], UNCHANGED <<store, tab>>, Quiet, ui' \in [Tabs -> Screen]
  PROVE  Tokens'
<1>1. TypeOK BY DEF Tokens
<1>2. CallsOK(calls') /\ Follows(calls, calls') BY <1>1, ReplaceCalls
<1>3. /\ store' \in Session /\ store'.n \in {0, store.n} /\ tab' \in [Tabs -> TabState]
      /\ asked' \in 0..MaxCalls /\ UNCHANGED <<cred, refresh, rotated>>
  BY <1>1 DEF TypeOK, SessionTypes, Quiet
<1> QED BY <1>2, <1>3, TokensKept

(* Every continuation of a request.                                         *)
LEMMA SettleTokens ==
  ASSUME Tokens, NEW i \in DOMAIN calls, Settle(i)
  PROVE  Tokens'
<1> DEFINE c == calls[i]
           t == c.tab
           u == ui[t]
           Ops == PublicOps \cup AuthedOps \cup AvatarOps
<1>1. TypeOK /\ c \in Call /\ t \in Tabs BY DEF Tokens, TypeOK, SessionTypes, Call
<1>2. tab[t] \in TabState /\ u \in Screen /\ store \in Session /\ ui \in [Tabs -> Screen]
  BY <1>1 DEF TypeOK, SessionTypes
<1>3. c.ver \in BOOLEAN /\ c.op \in Ops /\ c.att \in {"yes", "card", "no"} /\ c.k \in Nat
  BY <1>1 DEF Call
<1>4. c.phase # "waiting" => CallsOK(Over(i)) /\ Follows(calls, Over(i))
  BY <1>1, OverCalls
<1>5. NoSession \in Session /\ NoSession.n = 0 /\ ResetTab \in TabState BY <1>1, EmptyTypes
<1>6. store.n \in {0, store.n} OBVIOUS
<1>7. \A S : FailUi(S, u) \in Screen BY <1>2, FailTypes
<1>8. \A op \in Ops : NewCall(t, op) \in Call /\ NewCall(t, op).phase = "sent"
  BY <1>1, NewCallType
<1>9. WithUser(store, c.ver) \in Session /\ WithUser(store, c.ver).n = store.n
  BY <1>2, <1>3, WithUserType
<1>10. WithUser(tab[t].session, c.ver) \in Session
  BY <1>2, <1>3, WithUserType DEF TabState
<1>11. CASE NothingToRefresh(i)
  <2>1. /\ Continue(t, NoSession, ResetTab, FailUi(Attached({i}), u), Over(i)) /\ Quiet
        /\ c.phase # "waiting"
    BY <1>11 DEF NothingToRefresh, ExpireAuth, Unauthorized
  <2> HIDE DEF t, u, c
  <2> QED BY <1>1, <1>4, <1>5, <1>7, <2>1, ContinueTokens
<1>12. CASE Rejected(i)
  <2> DEFINE b == tab[t].busy /\ c.op \notin {"login", "register"}
             e == IF c.op = "bootMe" THEN "done" ELSE tab[t].boot
             tb == [tab[t] EXCEPT !.busy = b, !.boot = e]
  <2>1. Continue(t, store, tb, FailUi(Attached({i}), u), Over(i)) /\ Quiet /\ c.phase # "waiting"
    BY <1>12 DEF Rejected
  <2>2. tb \in TabState BY <1>2 DEF TabState
  <2> HIDE DEF tb, t, u, c
  <2> QED BY <1>1, <1>2, <1>4, <1>6, <1>7, <2>1, <2>2, ContinueTokens
<1>13. CASE SignedIn(i) BY <1>13, SignedInTokens
<1>14. CASE LoggedOut(i)
  <2>1. Continue(t, NoSession, ResetTab, u, Over(i)) /\ Quiet /\ c.phase # "waiting"
    BY <1>14 DEF LoggedOut, Answers
  <2> HIDE DEF t, u, c
  <2> QED BY <1>1, <1>2, <1>4, <1>5, <2>1, ContinueTokens
<1>15. CASE UserUpdated(i)
  <2> DEFINE e == IF c.op = "bootMe" THEN "done" ELSE tab[t].boot
             s == WithUser(tab[t].session, c.ver)
             tb == [tab[t] EXCEPT !.session = s, !.boot = e]
  <2>1. /\ Continue(t, WithUser(store, c.ver), tb, UpdatedUi(c, u), Over(i)) /\ Quiet
        /\ c.phase # "waiting"
    BY <1>15 DEF UserUpdated, UpdatedUi
  <2>2. s \in Session BY <1>10
  <2>3. tb \in TabState
    <3> HIDE DEF s
    <3> QED BY <1>2, <2>2 DEF TabState
  <2>4. UpdatedUi(c, u) \in Screen BY <1>2, UpdatedType
  <2> HIDE DEF tb, s, t, u, c
  <2> QED BY <1>1, <1>4, <1>9, <2>1, <2>3, <2>4, ContinueTokens
<1>16. CASE Accepted(i)
  <2>1. Continue(t, store, tab[t], AcceptedUi(c, u), Over(i)) /\ Quiet /\ c.phase # "waiting"
    BY <1>16 DEF Accepted, AcceptedUi
  <2>2. AcceptedUi(c, u) \in Screen BY <1>2, AcceptedType
  <2> HIDE DEF t, u, c
  <2> QED BY <1>1, <1>2, <1>4, <1>6, <2>1, <2>2, ContinueTokens
<1>17. CASE PasswordChanged(i)
  <2>1. c.phase # "waiting" /\ Quiet BY <1>17 DEF PasswordChanged
  <2>2. CASE store.n = 0
    <3>1. Continue(t, NoSession, ResetTab, u, Over(i)) BY <1>17, <2>2 DEF PasswordChanged
    <3> HIDE DEF t, u, c
    <3> QED BY <1>1, <1>2, <1>4, <1>5, <2>1, <3>1, ContinueTokens
  <2>3. CASE store.n # 0
    <3> DEFINE d == [NewCall(t, "logout") EXCEPT !.att = c.att]
    <3>1. calls' = [calls EXCEPT ![i] = d] /\ UNCHANGED <<store, tab, ui>>
      BY <1>17, <2>3 DEF PasswordChanged
    <3>2. "logout" \in Ops BY DEF PublicOps
    <3>3. d \in Call /\ d.phase = "sent"
      <4>1. NewCall(t, "logout") \in Call /\ NewCall(t, "logout").phase = "sent" BY <1>8, <3>2
      <4> QED BY <1>3, <4>1 DEF Call
    <3> HIDE DEF d, t, u, c
    <3> QED BY <1>2, <2>1, <3>1, <3>3, ReplaceTokens DEF c
  <2> QED BY <2>2, <2>3
<1>18. CASE VerifyAnswered(i)
  <2> DEFINE won == c.phase = "ok"
             g == IF won THEN "success" ELSE "error"
  <2>1. c.phase # "waiting" /\ Quiet /\ UNCHANGED <<store, tab>> BY <1>18 DEF VerifyAnswered, Answers
  <2>2. CASE LoggedIn(t)
    <3> DEFINE d == NewCall(t, "pageMe")
               v == [u EXCEPT !.vok = won]
    <3>1. calls' = [calls EXCEPT ![i] = d] /\ ui' = [ui EXCEPT ![t] = v]
      BY <1>2, <1>18, <2>2 DEF VerifyAnswered
    <3>2. "pageMe" \in Ops BY DEF AuthedOps
    <3>3. d \in Call /\ d.phase = "sent" BY <1>8, <3>2
    <3>4. won \in BOOLEAN OBVIOUS
    <3> HIDE DEF won
    <3>5. v \in Screen BY <1>2, <3>4, ScreenFields
    <3> HIDE DEF v, d
    <3>6. ui' \in [Tabs -> Screen] BY <1>2, <3>1, <3>5
    <3> HIDE DEF t, u, c
    <3> QED BY <2>1, <3>1, <3>3, <3>6, ReplaceTokens DEF c
  <2>3. CASE ~LoggedIn(t)
    <3> DEFINE v == [u EXCEPT !.page = g]
    <3>1. calls' = Over(i) /\ ui' = [ui EXCEPT ![t] = v]
      BY <1>2, <1>18, <2>3 DEF VerifyAnswered
    <3>2. g \in {"loading", "calling", "form", "busy", "success", "error"} OBVIOUS
    <3> HIDE DEF g, won
    <3>3. v \in Screen BY <1>2, <3>2, ScreenFields
    <3> HIDE DEF v
    <3>4. ui' \in [Tabs -> Screen] BY <1>2, <3>1, <3>3
    <3>5. /\ store' \in Session /\ store'.n \in {0, store.n} /\ tab' \in [Tabs -> TabState]
          /\ asked' \in 0..MaxCalls /\ UNCHANGED <<cred, refresh, rotated>>
      BY <1>1, <2>1 DEF TypeOK, SessionTypes, Quiet
    <3>6. CallsOK(calls') /\ Follows(calls, calls') BY <1>4, <2>1, <3>1
    <3> QED BY <3>4, <3>5, <3>6, TokensKept
  <2> QED BY <2>2, <2>3
<1>19. CASE DeletionConfirmed(i)
  <2> DEFINE v == [u EXCEPT !.page = "success"]
  <2>1. Continue(t, NoSession, ResetTab, v, Over(i)) /\ Quiet /\ c.phase # "waiting"
    BY <1>19 DEF DeletionConfirmed
  <2>2. v \in Screen BY <1>2, ScreenFields
  <2> HIDE DEF v, t, u, c
  <2> QED BY <1>1, <1>4, <1>5, <2>1, <2>2, ContinueTokens
<1>20. CASE AvatarStep(i)
  <2> DEFINE op == AvatarNext(c.op)
             k == IF c.op \in {"avConfirm", "avPoll"} THEN c.k + 1 ELSE 0
             d == [NewCall(t, op) EXCEPT !.ver = c.ver, !.att = c.att, !.k = k]
  <2>1. calls' = [calls EXCEPT ![i] = d] /\ UNCHANGED <<store, tab, ui>> /\ Quiet /\ c.phase # "waiting"
    BY <1>20 DEF AvatarStep
  <2>2. op \in Ops BY <1>20 DEF AvatarStep, AvatarNext, AvatarOps
  <2>3. k \in Nat BY <1>3
  <2>4. NewCall(t, op) \in Call /\ NewCall(t, op).phase = "sent" BY <1>8, <2>2
  <2> HIDE DEF k, op
  <2>5. d \in Call /\ d.phase = "sent" BY <1>3, <2>3, <2>4 DEF Call
  <2> HIDE DEF d, t, u, c
  <2> QED BY <1>2, <2>1, <2>5, ReplaceTokens DEF c
<1>21. CASE AvatarEnds(i)
  <2>1. Quiet /\ c.phase # "waiting" BY <1>21 DEF AvatarEnds
  <2>2. CASE Continue(t, store, tab[t], FailUi(Attached({i}), u), Over(i))
    <3> HIDE DEF t, u, c
    <3> QED BY <1>1, <1>2, <1>4, <1>6, <1>7, <2>1, <2>2, ContinueTokens
  <2> DEFINE s == WithUser(tab[t].session, c.ver)
             tb == [tab[t] EXCEPT !.session = s]
             e == IF c.att = "no" THEN u.crop ELSE "none"
             v == [u EXCEPT !.crop = e]
             cs == IF c.att = "no" THEN Over(i) ELSE WithoutCropper(Over(i), t)
  <2>3. ASSUME Continue(t, WithUser(store, c.ver), tb, v, cs) PROVE Tokens'
    <3>1. e \in {"none", "open", "busy"} BY <1>2 DEF Screen
    <3>2. s \in Session BY <1>10
    <3> HIDE DEF e, s
    <3>3. v \in Screen BY <1>2, <3>1, ScreenFields
    <3>4. tb \in TabState BY <1>2, <3>2 DEF TabState
    <3> HIDE DEF v, tb
    <3>5. CallsOK(cs) /\ Follows(calls, cs)
      <4>1. CallsOK(Over(i)) /\ Follows(calls, Over(i)) BY <1>4, <2>1
      <4> DEFINE ds == Over(i)
                 es == WithoutCropper(ds, t)
      <4>2. \A j \in DOMAIN ds : ds[j] \in Call BY <4>1 DEF CallsOK
      <4> HIDE DEF ds
      <4>3. \A j \in DOMAIN ds : [ds[j] EXCEPT !.att = "card"] \in Call
        BY <4>2 DEF Call
      <4>4. es \in [DOMAIN ds -> Call] BY <4>2, <4>3 DEF WithoutCropper
      <4>5. \A j \in DOMAIN ds : /\ es[j].tab = ds[j].tab /\ es[j].op = ds[j].op
                                 /\ es[j].phase = ds[j].phase /\ es[j].n = ds[j].n
        BY <4>2 DEF WithoutCropper, Call
      <4> HIDE DEF es
      <4>6. CallsOK(ds) /\ Follows(calls, ds) BY <4>1 DEF ds
      <4>7. CallsOK(es) /\ Follows(calls, es) BY <4>4, <4>5, <4>6, DetachedCalls
      <4> QED BY <4>1, <4>7 DEF es, ds
    <3> HIDE DEF cs, t, u, c
    <3> QED BY <1>1, <1>9, <2>1, <2>3, <3>3, <3>4, <3>5, ContinueTokens
  <2>4. \/ Continue(t, store, tab[t], FailUi(Attached({i}), u), Over(i))
        \/ Continue(t, WithUser(store, c.ver), tb, v, cs)
    BY <1>21 DEF AvatarEnds
  <2> QED BY <2>2, <2>3, <2>4
<1>22. CASE LoggedOut(i) \/ UserUpdated(i) \/ Accepted(i) \/ PasswordChanged(i)
  BY <1>14, <1>15, <1>16, <1>17, <1>22
<1> QED BY <1>11, <1>12, <1>13, <1>18, <1>19, <1>20, <1>21, <1>22 DEF Settle

(* The start of a tab and of a page.                                        *)
LEMMA StartTokens ==
  ASSUME Tokens, NEW t \in Tabs, Restore(t) \/ VerifyStart(t) \/ ConfirmStart(t)
  PROVE  Tokens'
<1> DEFINE Ops == PublicOps \cup AuthedOps \cup AvatarOps
<1>1. TypeOK /\ ui[t] \in Screen /\ tab[t] \in TabState /\ store \in Session /\ asked \in 0..MaxCalls
  BY DEF Tokens, TypeOK, SessionTypes
<1>2. {"bootMe", "verify", "confirm"} \subseteq Ops BY DEF PublicOps, AuthedOps
<1> HIDE DEF Ops
<1>3. CASE Restore(t)
  <2>1. CASE store.n = 0
    <3> DEFINE tb == [tab[t] EXCEPT !.boot = "done"]
    <3>1. Continue(t, store, tb, ui[t], calls) /\ Quiet BY <1>3, <2>1 DEF Restore
    <3>2. tb \in TabState BY <1>1 DEF TabState
    <3> HIDE DEF tb
    <3> QED BY <1>1, <3>1, <3>2, SameCalls, ContinueTokens
  <2>2. CASE store.n # 0
    <3> DEFINE tb == [tab[t] EXCEPT !.session = store, !.boot = "restoring"]
    <3>1. Request(t, "bootMe") /\ UNCHANGED <<cred, store, refresh, asked, rotated, ui>>
      BY <1>3, <2>2 DEF Restore
    <3>2. tab' = [tab EXCEPT ![t].session = store, ![t].boot = "restoring"]
      BY <1>3, <2>2 DEF Restore
    <3>3. tab' = [tab EXCEPT ![t] = tb] BY <1>1, <3>2 DEF TypeOK, SessionTypes
    <3>4. tb \in TabState BY <1>1 DEF TabState
    <3> HIDE DEF tb
    <3>5. tab' \in [Tabs -> TabState] BY <1>1, <3>3, <3>4 DEF TypeOK, SessionTypes
    <3>6. CallsOK(calls') /\ Follows(calls, calls') BY <1>1, <1>2, <3>1, RequestCalls DEF Ops
    <3>7. /\ store' \in Session /\ store'.n \in {0, store.n} /\ asked' \in 0..MaxCalls
          /\ ui' \in [Tabs -> Screen]
      BY <1>1, <3>1 DEF TypeOK
    <3> QED BY <3>1, <3>5, <3>6, <3>7, TokensKept
  <2> QED BY <2>1, <2>2
<1>4. [ui[t] EXCEPT !.page = "calling"] \in Screen BY <1>1, ScreenFields
<1>5. CASE VerifyStart(t)
  <2>1. Open(t, "verify", [ui[t] EXCEPT !.page = "calling"]) /\ asked' = asked BY <1>5 DEF VerifyStart
  <2> QED BY <1>1, <1>2, <1>4, <2>1, OpenTokens DEF Ops
<1>6. CASE ConfirmStart(t)
  <2>1. Open(t, "confirm", [ui[t] EXCEPT !.page = "calling"]) /\ asked' = asked BY <1>6 DEF ConfirmStart
  <2> QED BY <1>1, <1>2, <1>4, <2>1, OpenTokens DEF Ops
<1> QED BY <1>3, <1>5, <1>6

(* The tokens that the invariant speaks of, for a step that may grant a     *)
(* pair: the new pair is new to everybody.                                  *)
LEMMA FreshPair ==
  ASSUME TypeOK
  PROVE  /\ issued + 1 # 0 /\ issued + 1 # store.n
         /\ \A t \in Tabs : <<t, issued + 1>> \notin rotated /\ refresh[t].n # issued + 1
         /\ \A i \in DOMAIN calls : calls[i].n # issued + 1
<1>1. issued \in Nat BY DEF TypeOK, CredTypes
<1>2. store.n \in 0..issued BY DEF TypeOK, SessionTypes, Session
<1>3. \A t \in Tabs : refresh[t].n \in 0..issued BY DEF TypeOK, SessionTypes, Refresh
<1>4. \A i \in DOMAIN calls : calls[i].n \in 0..issued BY DEF TypeOK, SessionTypes, Call
<1>5. \A t : <<t, issued + 1>> \notin rotated
  <2>1. rotated \subseteq Tabs \X (1..issued) BY DEF TypeOK, SessionTypes
  <2>2. issued + 1 \notin 1..issued BY <1>1
  <2> QED BY <2>1, <2>2
<1>6. \A n \in 0..issued : n # issued + 1 BY <1>1
<1>7. issued + 1 # 0 BY <1>1
<1>8. issued + 1 # store.n BY <1>2, <1>6
<1>9. \A t \in Tabs : refresh[t].n # issued + 1 BY <1>3, <1>6
<1>10. \A i \in DOMAIN calls : calls[i].n # issued + 1 BY <1>4, <1>6
<1> QED BY <1>5, <1>7, <1>8, <1>9, <1>10

(* With more pairs everything keeps its type.                               *)
LEMMA TypesGrow ==
  ASSUME TypeOK, issued' \in {issued, issued + 1}
  PROVE  /\ Session \subseteq Session' /\ TabState \subseteq TabState' /\ Refresh \subseteq Refresh'
         /\ Call \subseteq Call' /\ 0..issued \subseteq 0..issued' /\ 1..issued \subseteq 1..issued'
<1>1. issued \in Nat BY DEF TypeOK, CredTypes
<1>2. 0..issued \subseteq 0..issued' /\ 1..issued \subseteq 1..issued' BY <1>1
<1>3. Session \subseteq Session' BY <1>2 DEF Session
<1>4. Refresh \subseteq Refresh' BY <1>2 DEF Refresh
<1>5. Call \subseteq Call' BY <1>2 DEF Call
<1>6. TabState \subseteq TabState' BY <1>3 DEF TabState
<1> QED BY <1>2, <1>3, <1>4, <1>5, <1>6

(* The refresh of a tab fails: its waiting requests are rejected, and the   *)
(* store is empty.                                                          *)
LEMMA RefreshFailedTokens ==
  ASSUME Tokens, NEW t \in Tabs, RefreshFailed(t)
  PROVE  Tokens'
<1> DEFINE u == ui[t]
           v == FailUi(Attached(Waiting(t)), u)
           cs == Settled(Waiting(t))
<1>1. TypeOK /\ u \in Screen BY DEF Tokens, TypeOK
<1>2. /\ Continue(t, NoSession, ResetTab, v, cs) /\ UNCHANGED <<cred, asked, rotated>>
      /\ refresh' = [refresh EXCEPT ![t] = NoRefresh]
  BY DEF RefreshFailed, ExpireAuth
<1>3. v \in Screen BY <1>1, FailTypes
<1>4. NoSession \in Session /\ NoSession.n = 0 /\ ResetTab \in TabState BY <1>1, EmptyTypes
<1>5. DOMAIN cs = DOMAIN calls \ Waiting(t) /\ \A i \in DOMAIN calls \ Waiting(t) : cs[i] = calls[i]
  BY SettledShows
<1>6. CallsOK(cs)
  <2>1. cs \in [DOMAIN cs -> Call]
    <3>1. \A i \in DOMAIN cs : cs[i] \in Call BY <1>1, <1>5 DEF TypeOK, SessionTypes
    <3> QED BY <3>1 DEF Settled, Restrict
  <2>2. IsFiniteSet(DOMAIN cs) BY <1>1, <1>5, FS_Subset DEF TypeOK, SessionTypes
  <2>3. DOMAIN cs \subseteq Nat BY <1>1, <1>5 DEF TypeOK, SessionTypes
  <2> QED BY <2>1, <2>2, <2>3 DEF CallsOK
<1> HIDE DEF v, cs
<1>7. /\ store' = NoSession /\ tab' \in [Tabs -> TabState] /\ ui' \in [Tabs -> Screen]
      /\ calls' \in [DOMAIN cs -> Call]
      /\ \A i \in DOMAIN cs : /\ calls'[i].tab = cs[i].tab /\ calls'[i].op = cs[i].op
                              /\ calls'[i].phase = cs[i].phase /\ calls'[i].n = cs[i].n
  <2>1. Continue(t, NoSession, ResetTab, v, cs) BY <1>2
  <2>2. /\ store' = NoSession /\ tab' \in [Tabs -> TabState] /\ ui' \in [Tabs -> Screen]
        /\ Carries(cs, calls')
    BY <1>1, <1>3, <1>4, <1>6, <2>1, ContinueCalls
  <2> QED BY <2>2 DEF Carries
<1>8. DOMAIN calls' = DOMAIN calls \ Waiting(t) BY <1>5, <1>7
<1>9. \A i \in DOMAIN calls \ Waiting(t) :
        /\ calls'[i].tab = calls[i].tab /\ calls'[i].op = calls[i].op
        /\ calls'[i].phase = calls[i].phase /\ calls'[i].n = calls[i].n
  BY <1>5, <1>7
<1>10. CallsOK(calls') BY <1>6, <1>7 DEF CallsOK
<1>11. NoRefresh \in Refresh /\ NoRefresh.phase = "idle"
  BY <1>1 DEF NoRefresh, Refresh, TypeOK, CredTypes
<1>12. refresh' \in [Tabs -> Refresh] BY <1>1, <1>2, <1>11 DEF TypeOK, SessionTypes
<1>13. TypeOK'
  <2>1. asked' \in 0..MaxCalls /\ store' \in Session BY <1>1, <1>2, <1>4, <1>7 DEF TypeOK, SessionTypes
  <2> QED BY <1>1, <1>2, <1>7, <1>10, <1>12, <2>1, TypesKept
<1>14. refresh'[t] = NoRefresh /\ \A s \in Tabs : s # t => refresh'[s] = refresh[s]
  BY <1>1, <1>2 DEF TypeOK, SessionTypes
<1>15. WaitInv'
  <2>1. \A i \in DOMAIN calls' : calls'[i].phase = "waiting" => calls'[i].op \in AuthedOps
    BY <1>8, <1>9 DEF Tokens, WaitInv
  <2>2. ASSUME NEW s \in Tabs, refresh'[s].phase # "idle" PROVE Waiting(s)' # {}
    <3>1. s # t /\ refresh[s].phase # "idle" BY <1>11, <1>14, <2>2
    <3>2. PICK i : i \in Waiting(s) BY <3>1 DEF Tokens, WaitInv
    <3>3. i \in DOMAIN calls \ Waiting(t) /\ calls[i].tab = s /\ calls[i].phase = "waiting"
      BY <3>1, <3>2 DEF Waiting, Flying
    <3>4. i \in DOMAIN calls' /\ calls'[i].tab = s /\ calls'[i].phase = "waiting" BY <1>8, <1>9, <3>3
    <3> QED BY <3>4 DEF Waiting, Flying
  <2> QED BY <2>1, <2>2 DEF WaitInv
<1>16. TokenInv'
  <2>1. \A s \in Tabs : Turns(s) BY <1>4, <1>7, <1>11, <1>14 DEF Turns
  <2>2. \A i \in DOMAIN calls' : Granted(i)' =>
          i \in DOMAIN calls /\ Granted(i) /\ calls'[i].n = calls[i].n
    BY <1>8, <1>9 DEF Granted
  <2> QED BY <1>1, <1>2, <1>4, <1>7, <2>1, <2>2, TurnsToken DEF Tokens
<1> QED BY <1>13, <1>15, <1>16 DEF Tokens

(* A request joins the refresh of its tab or starts it.                     *)
LEMMA RefreshSessionTokens ==
  ASSUME Tokens, NEW i \in DOMAIN calls, RefreshSession(i), ui' = ui
  PROVE  Tokens'
<1> DEFINE c == calls[i]
           t == c.tab
           d == [c EXCEPT !.phase = "waiting"]
           f == [phase |-> "sent", n |-> store.n, ver |-> FALSE]
<1>1. TypeOK /\ c \in Call /\ t \in Tabs BY DEF Tokens, TypeOK, SessionTypes, Call
<1>2. /\ Unauthorized(c) /\ store.n # 0 /\ UNCHANGED <<cred, store, tab, asked, rotated>>
      /\ refresh' = IF refresh[t].phase # "idle" THEN refresh ELSE [refresh EXCEPT ![t] = f]
  BY DEF RefreshSession
<1>3. calls' = [calls EXCEPT ![i] = d] BY DEF RefreshSession
<1>4. /\ d \in Call /\ d.phase = "waiting" /\ d.tab = t /\ d.op = c.op
      /\ c.op \in AuthedOps /\ c.phase = "unauth"
  BY <1>1, <1>2 DEF Call, Unauthorized
<1>5. f \in Refresh /\ f.phase = "sent" /\ f.n = store.n
  BY <1>1 DEF Refresh, TypeOK, SessionTypes, Session
<1> HIDE DEF d, f
<1>6. /\ DOMAIN calls' = DOMAIN calls /\ calls'[i] = d
      /\ \A j \in DOMAIN calls : j # i => calls'[j] = calls[j]
  BY <1>3
<1>7. CallsOK(calls') BY <1>1, <1>3, <1>4 DEF CallsOK, TypeOK, SessionTypes
<1>8. refresh' \in [Tabs -> Refresh] BY <1>1, <1>2, <1>5 DEF TypeOK, SessionTypes
<1>9. TypeOK'
  <2>1. /\ asked' \in 0..MaxCalls /\ store' \in Session /\ tab' \in [Tabs -> TabState]
        /\ ui' \in [Tabs -> Screen]
    BY <1>1, <1>2 DEF TypeOK, SessionTypes
  <2> QED BY <1>1, <1>2, <1>7, <1>8, <2>1, TypesKept
<1>10. \A s \in Tabs : \/ refresh'[s] = refresh[s]
                       \/ s = t /\ refresh[s].phase = "idle" /\ refresh'[s] = f
  BY <1>1, <1>2 DEF TypeOK, SessionTypes
<1>11. WaitInv'
  <2>1. \A j \in DOMAIN calls' : calls'[j].phase = "waiting" => calls'[j].op \in AuthedOps
    BY <1>4, <1>6 DEF Tokens, WaitInv
  <2>2. ASSUME NEW s \in Tabs, refresh'[s].phase # "idle" PROVE Waiting(s)' # {}
    <3>1. CASE s = t
      <4>1. i \in DOMAIN calls' /\ calls'[i].tab = s /\ calls'[i].phase = "waiting"
        BY <1>4, <1>6, <3>1
      <4> QED BY <4>1 DEF Waiting, Flying
    <3>2. CASE s # t
      <4>1. refresh[s].phase # "idle" BY <1>10, <2>2, <3>2
      <4>2. PICK j : j \in Waiting(s) BY <4>1 DEF Tokens, WaitInv
      <4>3. j \in DOMAIN calls /\ j # i /\ calls[j].tab = s /\ calls[j].phase = "waiting"
        BY <3>2, <4>2 DEF Waiting, Flying
      <4>4. j \in DOMAIN calls' /\ calls'[j].tab = s /\ calls'[j].phase = "waiting" BY <1>6, <4>3
      <4> QED BY <4>4 DEF Waiting, Flying
    <3> QED BY <3>1, <3>2
  <2> QED BY <2>1, <2>2 DEF WaitInv
<1>12. TokenInv'
  <2>1. \A s \in Tabs : Turns(s) BY <1>2, <1>5, <1>10 DEF Turns
  <2>2. \A j \in DOMAIN calls' : Granted(j)' =>
          j \in DOMAIN calls /\ Granted(j) /\ calls'[j].n = calls[j].n
    BY <1>4, <1>6 DEF Granted
  <2> QED BY <1>1, <1>2, <2>1, <2>2, TurnsToken DEF Tokens
<1> QED BY <1>9, <1>11, <1>12 DEF Tokens

(* The server reads the token of a refresh, or the refresh is lost.         *)
LEMMA RefreshAskedTokens ==
  ASSUME Tokens, NEW t \in Tabs, RefreshRead(t) \/ RefreshLost(t), ui' = ui
  PROVE  Tokens'
<1>1. TypeOK BY DEF Tokens
<1>2. UNCHANGED <<cred, store, tab, calls, asked, rotated>>
  BY DEF RefreshRead, RefreshLost
<1>3. PICK p \in {"read", "refused"} :
        /\ refresh' = [refresh EXCEPT ![t].phase = p]
        /\ p = "read" => refresh[t].phase = "sent"
        /\ refresh[t].phase \in {"sent", "read", "ok"}
  <2>1. CASE RefreshRead(t) BY <2>1 DEF RefreshRead
  <2>2. CASE RefreshLost(t) BY <2>2 DEF RefreshLost
  <2> QED BY <2>1, <2>2
<1> DEFINE g == [refresh[t] EXCEPT !.phase = p]
<1>4. refresh[t] \in Refresh BY <1>1 DEF TypeOK, SessionTypes
<1>5. g \in Refresh /\ g.phase = p /\ g.n = refresh[t].n BY <1>4 DEF Refresh, Answers
<1>6. refresh' = [refresh EXCEPT ![t] = g] BY <1>3
<1> HIDE DEF g
<1>7. refresh' \in [Tabs -> Refresh] BY <1>1, <1>5, <1>6 DEF TypeOK, SessionTypes
<1>8. refresh'[t] = g /\ \A s \in Tabs : s # t => refresh'[s] = refresh[s]
  BY <1>1, <1>6 DEF TypeOK, SessionTypes
<1>9. CallsOK(calls') /\ Follows(calls, calls') BY <1>1, <1>2, SameCalls
<1>10. TypeOK'
  <2>1. /\ asked' \in 0..MaxCalls /\ store' \in Session /\ tab' \in [Tabs -> TabState]
        /\ ui' \in [Tabs -> Screen]
    BY <1>1, <1>2 DEF TypeOK, SessionTypes
  <2> QED BY <1>1, <1>2, <1>7, <1>9, <2>1, TypesKept
<1>11. WaitInv'
  <2>1. \A s \in Tabs : refresh'[s].phase # "idle" => refresh[s].phase # "idle" BY <1>3, <1>8
  <2>2. \A s : Waiting(s)' = Waiting(s) BY <1>2 DEF Waiting, Flying
  <2> QED BY <1>2, <2>1, <2>2 DEF Tokens, WaitInv
<1>12. TokenInv'
  <2>1. \A s \in Tabs : Turns(s) BY <1>3, <1>5, <1>8 DEF Turns
  <2>2. \A j \in DOMAIN calls' : Granted(j)' =>
          j \in DOMAIN calls /\ Granted(j) /\ calls'[j].n = calls[j].n
    BY <1>2 DEF Granted
  <2> QED BY <1>1, <1>2, <2>1, <2>2, TurnsToken DEF Tokens
<1> QED BY <1>10, <1>11, <1>12 DEF Tokens

(* refreshPromise fulfilled: the store takes the pair.                      *)
LEMMA RefreshedTokens ==
  ASSUME Tokens, NEW t \in Tabs, Refreshed(t), ui' = ui
  PROVE  Tokens'
<1> DEFINE f == refresh[t]
           s == [n |-> f.n, ver |-> f.ver]
<1>1. TypeOK /\ f \in Refresh BY DEF Tokens, TypeOK, SessionTypes
<1>2. /\ f.phase = "ok" /\ store' = s /\ refresh' = [refresh EXCEPT ![t] = NoRefresh]
      /\ UNCHANGED <<cred, tab, asked, rotated>>
      /\ calls' = [i \in DOMAIN calls |->
                 IF i \in Waiting(t)
                   THEN [calls[i] EXCEPT !.phase = "sent", !.n = f.n, !.retried = TRUE]
                   ELSE calls[i]]
  BY DEF Refreshed
<1>3. s \in Session /\ s.n = f.n /\ f.n \in 0..issued BY <1>1 DEF Refresh, Session
<1>4. NoRefresh \in Refresh /\ NoRefresh.phase = "idle"
  BY <1>1 DEF NoRefresh, Refresh, TypeOK, CredTypes
<1>5. ASSUME NEW i \in DOMAIN calls
      PROVE  /\ calls'[i] \in Call /\ calls'[i].tab = calls[i].tab /\ calls'[i].op = calls[i].op
             /\ calls'[i].phase = (IF i \in Waiting(t) THEN "sent" ELSE calls[i].phase)
             /\ i \notin Waiting(t) => calls'[i] = calls[i]
  <2>1. calls[i] \in Call BY <1>1 DEF TypeOK, SessionTypes
  <2>2. CASE i \in Waiting(t)
    <3>1. calls'[i] = [calls[i] EXCEPT !.phase = "sent", !.n = f.n, !.retried = TRUE]
      BY <1>2, <2>2
    <3> HIDE DEF f
    <3> QED BY <1>3, <2>1, <2>2, <3>1 DEF Call
  <2>3. CASE i \notin Waiting(t)
    <3>1. calls'[i] = calls[i] BY <1>2, <2>3
    <3> QED BY <2>1, <2>3, <3>1
  <2> QED BY <2>2, <2>3
<1>6. DOMAIN calls' = DOMAIN calls /\ calls' \in [DOMAIN calls' -> Call]
  <2>1. DOMAIN calls' = DOMAIN calls BY <1>2
  <2> QED BY <1>2, <1>5, <2>1
<1>7. CallsOK(calls') BY <1>1, <1>6 DEF CallsOK, TypeOK, SessionTypes
<1>8. refresh'[t] = NoRefresh /\ \A r \in Tabs : r # t => refresh'[r] = refresh[r]
  BY <1>1, <1>2 DEF TypeOK, SessionTypes
<1>9. TypeOK'
  <2>1. /\ asked' \in 0..MaxCalls /\ tab' \in [Tabs -> TabState] /\ ui' \in [Tabs -> Screen]
        /\ refresh' \in [Tabs -> Refresh] /\ store' \in Session
    BY <1>1, <1>2, <1>3, <1>4 DEF TypeOK, SessionTypes
  <2> QED BY <1>1, <1>2, <1>7, <2>1, TypesKept
<1>10. WaitInv'
  <2>1. \A i \in DOMAIN calls' : calls'[i].phase = "waiting" => calls'[i].op \in AuthedOps
    BY <1>5, <1>6 DEF Tokens, WaitInv
  <2>2. ASSUME NEW r \in Tabs, refresh'[r].phase # "idle" PROVE Waiting(r)' # {}
    <3>1. r # t /\ refresh[r].phase # "idle" BY <1>4, <1>8, <2>2
    <3>2. PICK i : i \in Waiting(r) BY <3>1 DEF Tokens, WaitInv
    <3>3. i \in DOMAIN calls /\ i \notin Waiting(t) /\ calls[i].tab = r /\ calls[i].phase = "waiting"
      BY <3>1, <3>2 DEF Waiting, Flying
    <3>4. i \in DOMAIN calls' /\ calls'[i].tab = r /\ calls'[i].phase = "waiting" BY <1>5, <1>6, <3>3
    <3> QED BY <3>4 DEF Waiting, Flying
  <2> QED BY <2>1, <2>2 DEF WaitInv
<1>11. TokenInv'
  <2>1. /\ Unspent(f.n)
        /\ \A r \in Tabs : refresh[r].phase = "ok" /\ refresh[r].n = f.n => r = t
        /\ \A i \in DOMAIN calls : Granted(i) => f.n # calls[i].n
    BY <1>2 DEF Tokens, TokenInv
  <2>2. \A r \in Tabs : \/ refresh'[r] = refresh[r] /\ (refresh[r].phase = "ok" => refresh[r].n # f.n)
                        \/ refresh'[r].phase = "idle"
    BY <1>4, <1>8, <2>1
  <2>3. \A i \in DOMAIN calls' : Granted(i)' =>
          i \in DOMAIN calls /\ Granted(i) /\ calls'[i].n = calls[i].n
    BY <1>5, <1>6 DEF Granted
  <2>4. \A i \in DOMAIN calls' : Granted(i)' =>
          i \in DOMAIN calls /\ Granted(i) /\ calls'[i].n = calls[i].n /\ calls[i].n # f.n
    BY <2>1, <2>3
  <2>5. store'.n = f.n /\ rotated' = rotated BY <1>2
  <2> HIDE DEF f
  <2> QED BY <2>1, <2>2, <2>4, <2>5, SavedToken DEF Tokens
<1> QED BY <1>9, <1>10, <1>11 DEF Tokens

(* Types after a step that may issue a pair.                                *)
LEMMA TypesIssued ==
  ASSUME TypeOK, CredTypes', issued' \in {issued, issued + 1}, store' \in Session', tab' = tab,
         refresh' \in [Tabs -> Refresh'], rotated' \subseteq Tabs \X (1..issued'),
         DOMAIN calls' = DOMAIN calls, calls' \in [DOMAIN calls -> Call'],
         asked' \in 0..MaxCalls, ui' = ui
  PROVE  TypeOK'
<1>1. TabState \subseteq TabState' BY TypesGrow
<1>2. tab' \in [Tabs -> TabState'] BY <1>1 DEF TypeOK, SessionTypes
<1>3. /\ IsFiniteSet(DOMAIN calls') /\ DOMAIN calls' \subseteq Nat /\ calls' \in [DOMAIN calls' -> Call']
  BY DEF TypeOK, SessionTypes
<1>4. SessionTypes' BY <1>2, <1>3 DEF SessionTypes
<1>5. ui' \in [Tabs -> Screen] BY DEF TypeOK
<1> QED BY <1>4, <1>5 DEF TypeOK

(* The server commits a refresh: its pair is new to everybody.              *)
LEMMA RefreshCommitTokens ==
  ASSUME Tokens, NEW t \in Tabs, RefreshCommit(t), ui' = ui
  PROVE  Tokens'
<1> DEFINE f == refresh[t]
           n == issued + 1
           g == [phase |-> "ok", n |-> n, ver |-> account.ver]
<1>1. TypeOK /\ issued \in Nat BY DEF Tokens, TypeOK, CredTypes
<1>2. /\ f.phase = "read" /\ issued' = n /\ live' = (live \ {f.n}) \cup {n}
      /\ refresh' = [refresh EXCEPT ![t] = g] /\ rotated' = rotated \cup {<<t, f.n>>}
      /\ UNCHANGED <<account, link, store, tab, calls, asked>>
  BY DEF RefreshCommit, RefreshWrite, IssueTokens
<1>3. /\ n # 0 /\ n # store.n
      /\ \A s \in Tabs : <<s, n>> \notin rotated /\ refresh[s].n # n
      /\ \A i \in DOMAIN calls : calls[i].n # n
  BY <1>1, FreshPair
<1>4. f.n \in 0..issued /\ f.n # 0
  <2>1. f \in Refresh BY <1>1 DEF TypeOK, SessionTypes
  <2>2. f.n # 0 BY <1>2 DEF Tokens, TokenInv
  <2> QED BY <2>1, <2>2 DEF Refresh
<1>5. TypeOK'
  <2>1. CredTypes'
    <3>1. live' \subseteq 1..issued'
      <4>1. live \subseteq 1..issued BY <1>1 DEF TypeOK, CredTypes
      <4>2. 1..issued \subseteq 1..n /\ n \in 1..n BY <1>1
      <4> QED BY <1>2, <4>1, <4>2
    <3>2. issued' \in Nat BY <1>1, <1>2
    <3> QED BY <1>1, <1>2, <3>1, <3>2 DEF TypeOK, CredTypes, Purposes
  <2>2. /\ Session \subseteq Session' /\ Refresh \subseteq Refresh' /\ Call \subseteq Call'
        /\ 0..issued \subseteq 0..issued' /\ 1..issued \subseteq 1..issued'
    BY <1>1, <1>2, TypesGrow
  <2>3. g \in Refresh'
    <3>1. account.ver \in BOOLEAN BY <1>1 DEF TypeOK, CredTypes
    <3>2. n \in 0..issued' BY <1>1, <1>2
    <3> QED BY <3>1, <3>2 DEF Refresh, Answers
  <2> HIDE DEF g
  <2>4. refresh' \in [Tabs -> Refresh']
    <3>1. refresh \in [Tabs -> Refresh'] BY <1>1, <2>2 DEF TypeOK, SessionTypes
    <3> QED BY <1>2, <2>3, <3>1
  <2>5. rotated' \subseteq Tabs \X (1..issued')
    <3>1. f.n \in 1..issued' BY <1>1, <1>2, <1>4
    <3>2. rotated \subseteq Tabs \X (1..issued') BY <1>1, <2>2 DEF TypeOK, SessionTypes
    <3> HIDE DEF f
    <3> QED BY <1>2, <3>1, <3>2
  <2>6. store' \in Session' BY <1>1, <1>2, <2>2 DEF TypeOK, SessionTypes
  <2>7. calls' \in [DOMAIN calls -> Call'] BY <1>1, <1>2, <2>2 DEF TypeOK, SessionTypes
  <2>8. asked' \in 0..MaxCalls BY <1>1, <1>2 DEF TypeOK, SessionTypes
  <2>9. issued' \in {issued, issued + 1} BY <1>2
  <2> QED BY <1>1, <1>2, <2>1, <2>4, <2>5, <2>6, <2>7, <2>8, <2>9, TypesIssued
<1>6. WaitInv'
  <2>1. \A s \in Tabs : refresh'[s].phase # "idle" => refresh[s].phase # "idle"
    BY <1>1, <1>2 DEF TypeOK, SessionTypes
  <2>2. \A s : Waiting(s)' = Waiting(s) BY <1>2 DEF Waiting, Flying
  <2> QED BY <1>2, <2>1, <2>2 DEF Tokens, WaitInv
<1>7. refresh'[t] = g /\ \A s \in Tabs : s # t => refresh'[s] = refresh[s]
  BY <1>1, <1>2 DEF TypeOK, SessionTypes
<1>8. g.phase = "ok" /\ g.n = n OBVIOUS
<1> HIDE DEF g, n
<1>9. ASSUME NEW m, Unspent(m) PROVE Unspent(m)'
  <2>1. m # f.n BY <1>2, <1>9 DEF Unspent
  <2>2. \A s \in Tabs : <<s, m>> \notin rotated' BY <1>2, <1>9, <2>1 DEF Unspent
  <2>3. m # 0 /\ m # store'.n BY <1>2, <1>9 DEF Unspent
  <2>4. ASSUME NEW s \in Tabs, refresh'[s].phase \in {"sent", "read"} PROVE refresh'[s].n # m
    BY <1>7, <1>8, <1>9, <2>4 DEF Unspent
  <2> QED BY <2>2, <2>3, <2>4 DEF Unspent
<1>10. ASSUME NEW m, m = n PROVE Unspent(m)'
  <2>1. \A s \in Tabs : <<s, m>> \notin rotated'
    <3>1. m # f.n BY <1>3, <1>10
    <3> QED BY <1>2, <1>3, <1>10, <3>1
  <2>2. m # 0 /\ m # store'.n BY <1>2, <1>3, <1>10
  <2>3. ASSUME NEW s \in Tabs, refresh'[s].phase \in {"sent", "read"} PROVE refresh'[s].n # m
    BY <1>3, <1>7, <1>8, <1>10, <2>3
  <2> QED BY <2>1, <2>2, <2>3 DEF Unspent
<1>11. TokenInv'
  <2>1. ASSUME NEW s \in Tabs, refresh'[s].phase \in {"idle", "sent", "read"}
        PROVE  /\ <<s, store'.n>> \notin rotated'
               /\ refresh'[s].phase \in {"sent", "read"} =>
                    refresh'[s].n # 0 /\ <<s, refresh'[s].n>> \notin rotated'
    <3>1. s # t /\ refresh'[s] = refresh[s] BY <1>7, <1>8, <2>1
    <3>2. /\ <<s, store.n>> \notin rotated
          /\ refresh[s].phase \in {"sent", "read"} => refresh[s].n # 0 /\ <<s, refresh[s].n>> \notin rotated
      BY <2>1, <3>1 DEF Tokens, TokenInv
    <3>3. \A m : <<s, m>> \notin rotated => <<s, m>> \notin rotated' BY <1>2, <3>1
    <3> QED BY <1>2, <3>1, <3>2, <3>3
  <2>2. ASSUME NEW s \in Tabs, refresh'[s].phase = "ok" PROVE Unspent(refresh[s].n)'
    <3>1. ASSUME NEW m, m = refresh'[s].n PROVE Unspent(m)'
      <4>1. CASE s = t BY <1>7, <1>8, <1>10, <3>1, <4>1
      <4>2. CASE s # t BY <1>7, <1>9, <2>2, <3>1, <4>2 DEF Tokens, TokenInv
      <4> QED BY <4>1, <4>2
    <3> QED BY <3>1
  <2>3. ASSUME NEW s \in Tabs, NEW r \in Tabs, refresh'[s].phase = "ok", refresh'[r].phase = "ok",
               refresh'[s].n = refresh'[r].n
        PROVE  s = r
    <3>1. CASE s # t /\ r # t BY <1>7, <2>3, <3>1 DEF Tokens, TokenInv
    <3>2. CASE s = t \/ r = t BY <1>3, <1>7, <1>8, <2>3, <3>2
    <3> QED BY <3>1, <3>2
  <2>4. ASSUME NEW i \in DOMAIN calls', Granted(i)'
        PROVE  /\ Unspent(calls[i].n)'
               /\ \A s \in Tabs : refresh'[s].phase = "ok" => refresh'[s].n # calls'[i].n
               /\ \A j \in DOMAIN calls' : Granted(j)' /\ calls'[j].n = calls'[i].n => i = j
    <3>1. calls' = calls BY <1>2
    <3>2. i \in DOMAIN calls /\ Granted(i) BY <2>4, <3>1 DEF Granted
    <3>3. ASSUME NEW m, m = calls'[i].n PROVE Unspent(m)'
      BY <1>9, <3>1, <3>2, <3>3 DEF Tokens, TokenInv
    <3>4. Unspent(calls[i].n)' BY <3>3
    <3>5. ASSUME NEW s \in Tabs, refresh'[s].phase = "ok" PROVE refresh'[s].n # calls'[i].n
      <4>1. CASE s = t BY <1>3, <1>7, <1>8, <3>1, <3>2, <4>1
      <4>2. CASE s # t BY <1>7, <3>1, <3>2, <3>5, <4>2 DEF Tokens, TokenInv
      <4> QED BY <4>1, <4>2
    <3>6. \A j \in DOMAIN calls' : Granted(j)' /\ calls'[j].n = calls'[i].n => i = j
      BY <3>1, <3>2 DEF Tokens, TokenInv, Granted
    <3> QED BY <3>4, <3>5, <3>6
  <2> QED BY <2>1, <2>2, <2>3, <2>4 DEF TokenInv
<1> QED BY <1>5, <1>6, <1>11 DEF Tokens

(* What an endpoint does to the credentials.                                *)
LEMMA LinkTypes ==
  ASSUME CredTypes, NEW S, NEW p \in Purposes
  PROVE  /\ Revoke(S) \in [Purposes -> {"none", "active", "gone"}]
         /\ [Revoke(S) EXCEPT ![p] = "gone"] \in [Purposes -> {"none", "active", "gone"}]
         /\ [link EXCEPT ![p] = "active"] \in [Purposes -> {"none", "active", "gone"}]
<1>1. link \in [Purposes -> {"none", "active", "gone"}] BY DEF CredTypes
<1>2. Revoke(S) \in [Purposes -> {"none", "active", "gone"}] BY <1>1 DEF Revoke
<1> QED BY <1>1, <1>2

Grants(op, r) == r = "ok" /\ op \in PairOps
(* Every endpoint keeps the types, issues at most one pair, and issues one  *)
(* when it grants one.                                                      *)
LEMMA HandleTypes ==
  ASSUME TypeOK, NEW op, NEW n, NEW r \in Answers, Handles(op, n, r)
  PROVE  /\ CredTypes' /\ issued' \in {issued, issued + 1}
         /\ Grants(op, r) => issued' = issued + 1
<1>1. /\ CredTypes /\ issued \in Nat /\ live \subseteq 1..issued
      /\ account \in [exists : BOOLEAN, ver : BOOLEAN, active : BOOLEAN]
      /\ link \in [Purposes -> {"none", "active", "gone"}]
  BY DEF TypeOK, CredTypes
<1>2. {"verification", "reset", "deletion"} \subseteq Purposes BY DEF Purposes
<1>3. 1..issued \subseteq 1..(issued + 1) /\ issued + 1 \in 1..(issued + 1) /\ issued + 1 \in Nat
  BY <1>1
<1>4. CASE UNCHANGED cred /\ ~Grants(op, r) BY <1>1, <1>4 DEF cred, CredTypes
<1>5. CASE op = "login" /\ r = "ok" /\ LoginUser(r)
  <2>1. IssueTokens(live) /\ UNCHANGED <<account, link>> BY <1>5 DEF LoginUser
  <2> QED BY <1>1, <1>3, <2>1 DEF IssueTokens, CredTypes
<1>6. CASE op = "register" /\ r = "ok" /\ RegisterUser(r)
  <2>1. /\ IssueTokens(live) /\ account' = [exists |-> TRUE, ver |-> FALSE, active |-> TRUE]
        /\ link' = [link EXCEPT !["verification"] = "active"]
    BY <1>6 DEF RegisterUser
  <2> QED BY <1>1, <1>3, <2>1 DEF IssueTokens, CredTypes
<1>7. CASE op \notin PairOps /\ issued' = issued /\ live' \subseteq live
           /\ account' \in [exists : BOOLEAN, ver : BOOLEAN, active : BOOLEAN]
           /\ link' \in [Purposes -> {"none", "active", "gone"}]
  BY <1>1, <1>7 DEF CredTypes, Grants
<1>8. CASE r = "ok" /\ op = "logout" /\ LogoutToken(n, r)
  BY <1>1, <1>7, <1>8 DEF LogoutToken, PairOps
<1>9. CASE r = "ok" /\ op = "requestReset" /\ RequestPasswordReset(r)
  BY <1>1, <1>2, <1>7, <1>9, LinkTypes DEF RequestPasswordReset, IssueLink, Plain, PairOps, cred
<1>10. CASE r = "ok" /\ op = "verify" /\ VerifyEmail(r)
  <2>1. /\ account' = [account EXCEPT !.ver = TRUE] /\ issued' = issued /\ live' = live
        /\ link' = [Revoke({}) EXCEPT !["verification"] = "gone"]
    BY <1>10 DEF VerifyEmail, Consume
  <2>2. account' \in [exists : BOOLEAN, ver : BOOLEAN, active : BOOLEAN] BY <1>1, <2>1
  <2>3. link' \in [Purposes -> {"none", "active", "gone"}] BY <1>1, <1>2, <2>1, LinkTypes
  <2> QED BY <1>7, <1>10, <2>1, <2>2, <2>3 DEF PairOps
<1>11. CASE r = "ok" /\ op = "reset" /\ ResetPassword(r)
  <2>1. /\ account' = [account EXCEPT !.ver = TRUE] /\ issued' = issued /\ live' = {}
        /\ link' = [Revoke({"deletion"}) EXCEPT !["reset"] = "gone"]
    BY <1>11 DEF ResetPassword, Consume
  <2>2. account' \in [exists : BOOLEAN, ver : BOOLEAN, active : BOOLEAN] BY <1>1, <2>1
  <2>3. link' \in [Purposes -> {"none", "active", "gone"}] BY <1>1, <1>2, <2>1, LinkTypes
  <2> QED BY <1>7, <1>11, <2>1, <2>2, <2>3 DEF PairOps
<1>12. CASE r = "ok" /\ op = "confirm" /\ ConfirmAccountDeletion(r)
  <2>1. /\ account' = [account EXCEPT !.active = FALSE] /\ issued' = issued /\ live' = {}
        /\ link' = [Revoke(Purposes) EXCEPT !["deletion"] = "gone"]
    BY <1>12 DEF ConfirmAccountDeletion, Consume
  <2>2. account' \in [exists : BOOLEAN, ver : BOOLEAN, active : BOOLEAN] BY <1>1, <2>1
  <2>3. link' \in [Purposes -> {"none", "active", "gone"}] BY <1>1, <1>2, <2>1, LinkTypes
  <2> QED BY <1>7, <1>12, <2>1, <2>2, <2>3 DEF PairOps
<1>13. CASE op = "avPut" /\ Plain(r)
  BY <1>4, <1>13 DEF Plain, Grants, PairOps
<1>14. CASE op \in AuthedOps
  <2>1. op \notin PairOps BY <1>14 DEF AuthedOps, PairOps, AvatarOps
  <2>2. CASE UNCHANGED cred BY <1>4, <2>1, <2>2 DEF Grants
  <2>3. CASE Plain(r) BY <2>2, <2>3 DEF Plain
  <2>4. CASE ResendVerification(r)
    BY <1>1, <1>2, <1>7, <2>1, <2>2, <2>4, LinkTypes DEF ResendVerification, IssueLink, Plain
  <2>5. CASE ChangePassword(r)
    BY <1>1, <1>2, <1>7, <2>1, <2>2, <2>5, LinkTypes DEF ChangePassword
  <2>6. CASE RequestAccountDeletion(r)
    BY <1>1, <1>2, <1>7, <2>1, <2>2, <2>6, LinkTypes DEF RequestAccountDeletion, IssueLink
  <2>7. \/ UNCHANGED cred \/ Plain(r) \/ ResendVerification(r) \/ ChangePassword(r)
        \/ RequestAccountDeletion(r)
    <3>1. op \notin {"login", "register", "logout", "requestReset", "verify", "reset", "confirm", "avPut"}
      BY <1>14 DEF AuthedOps, AvatarOps
    <3> QED BY <3>1 DEF Handles
  <2> QED BY <2>2, <2>3, <2>4, <2>5, <2>6, <2>7
<1>15. CASE r # "ok" /\ op \notin AuthedOps
  <2>1. UNCHANGED cred
    BY <1>15 DEF Handles, LoginUser, RegisterUser, LogoutToken, RequestPasswordReset, VerifyEmail,
                 ResetPassword, ConfirmAccountDeletion, Plain
  <2> QED BY <1>4, <1>15, <2>1 DEF Grants
<1>16. CASE r = "ok" /\ op \notin AuthedOps
  BY <1>5, <1>6, <1>8, <1>9, <1>10, <1>11, <1>12, <1>13, <1>16 DEF Handles
<1> QED BY <1>14, <1>15, <1>16

(* An endpoint answers a request: a pair that it grants is new.             *)
LEMMA ServeTokens ==
  ASSUME Tokens, NEW i \in DOMAIN calls, Serve(i), ui' = ui
  PROVE  Tokens'
<1> DEFINE c == calls[i]
<1>1. TypeOK /\ c \in Call BY DEF Tokens, TypeOK, SessionTypes
<1>2. c.phase = "sent" /\ UNCHANGED <<store, tab, refresh, asked, rotated>> BY DEF Serve
<1>3. PICK r \in Answers :
        /\ Handles(c.op, c.n, r)
        /\ calls' = [calls EXCEPT ![i] =
             [c EXCEPT !.phase = r,
                       !.n = IF r = "ok" /\ c.op \in PairOps THEN issued' ELSE 0,
                       !.ver = IF r = "ok" /\ c.op \in UserOps THEN account'.ver ELSE @]]
  BY DEF Serve
<1>4. /\ CredTypes' /\ issued' \in {issued, issued + 1} /\ issued \in Nat
      /\ Grants(c.op, r) => issued' = issued + 1
  BY <1>1, <1>3, HandleTypes DEF TypeOK, CredTypes
<1> DEFINE m == IF r = "ok" /\ c.op \in PairOps THEN issued' ELSE 0
           v == IF r = "ok" /\ c.op \in UserOps THEN account'.ver ELSE c.ver
           d == [c EXCEPT !.phase = r, !.n = m, !.ver = v]
<1>5. calls' = [calls EXCEPT ![i] = d] BY <1>3
<1>6. m \in 0..issued' /\ v \in BOOLEAN
  <2>1. account'.ver \in BOOLEAN /\ c.ver \in BOOLEAN BY <1>1, <1>4 DEF CredTypes, Call
  <2> QED BY <1>4, <2>1
<1>7. Grants(c.op, r) => m = issued + 1 BY <1>4 DEF Grants
<1>8. /\ Session \subseteq Session' /\ Refresh \subseteq Refresh' /\ Call \subseteq Call'
      /\ 1..issued \subseteq 1..issued'
  BY <1>1, <1>4, TypesGrow
<1> HIDE DEF m, v
<1>9. d \in Call' /\ d.phase = r /\ d.n = m /\ d.op = c.op /\ d.tab = c.tab
  <2>1. c \in Call' BY <1>1, <1>8
  <2> HIDE DEF c
  <2> QED BY <1>6, <2>1 DEF Call
<1> HIDE DEF d
<1>10. /\ DOMAIN calls' = DOMAIN calls /\ calls'[i] = d
       /\ \A j \in DOMAIN calls : j # i => calls'[j] = calls[j]
  BY <1>5
<1>11. TypeOK'
  <2>1. calls' \in [DOMAIN calls -> Call']
    <3>1. calls \in [DOMAIN calls -> Call'] BY <1>1, <1>8 DEF TypeOK, SessionTypes
    <3> QED BY <1>5, <1>9, <3>1
  <2>2. store' \in Session' /\ refresh' \in [Tabs -> Refresh'] /\ asked' \in 0..MaxCalls
    BY <1>1, <1>2, <1>8 DEF TypeOK, SessionTypes
  <2>3. rotated' \subseteq Tabs \X (1..issued')
    <3>1. rotated \subseteq Tabs \X (1..issued) BY <1>1 DEF TypeOK, SessionTypes
    <3> QED BY <1>2, <1>8, <3>1
  <2> QED BY <1>1, <1>2, <1>4, <1>10, <2>1, <2>2, <2>3, TypesIssued
<1>12. WaitInv'
  <2>1. \A j \in DOMAIN calls' : calls'[j].phase = "waiting" => calls'[j].op \in AuthedOps
    BY <1>9, <1>10 DEF Tokens, WaitInv, Answers
  <2>2. ASSUME NEW s \in Tabs, refresh'[s].phase # "idle" PROVE Waiting(s)' # {}
    <3>1. PICK j : j \in Waiting(s) BY <1>2, <2>2 DEF Tokens, WaitInv
    <3>2. j \in DOMAIN calls /\ j # i /\ calls[j].tab = s /\ calls[j].phase = "waiting"
      BY <1>2, <3>1 DEF Waiting, Flying
    <3>3. j \in DOMAIN calls' /\ calls'[j].tab = s /\ calls'[j].phase = "waiting" BY <1>10, <3>2
    <3> QED BY <3>3 DEF Waiting, Flying
  <2> QED BY <2>1, <2>2 DEF WaitInv
<1>13. /\ issued + 1 # 0 /\ issued + 1 # store.n
       /\ \A s \in Tabs : <<s, issued + 1>> \notin rotated /\ refresh[s].n # issued + 1
       /\ \A j \in DOMAIN calls : calls[j].n # issued + 1
  BY <1>1, FreshPair
<1>14. ASSUME NEW k, Unspent(k) PROVE Unspent(k)' BY <1>2, <1>14 DEF Unspent
<1>15. Unspent(issued + 1) BY <1>13 DEF Unspent
<1>16. \A j \in DOMAIN calls' : Granted(j)' =>
         \/ j # i /\ calls'[j] = calls[j] /\ Granted(j)
         \/ j = i /\ calls'[j].n = issued + 1
  BY <1>7, <1>9, <1>10 DEF Granted, Grants
<1>17. TokenInv'
  <2>1. ASSUME NEW s \in Tabs, refresh'[s].phase = "ok" PROVE Unspent(refresh[s].n)'
    <3>1. ASSUME NEW k, k = refresh'[s].n PROVE Unspent(k)'
      BY <1>2, <1>14, <2>1, <3>1 DEF Tokens, TokenInv
    <3> QED BY <3>1
  <2>2. ASSUME NEW j \in DOMAIN calls', Granted(j)'
        PROVE  /\ Unspent(calls[j].n)'
               /\ \A s \in Tabs : refresh'[s].phase = "ok" => refresh'[s].n # calls'[j].n
               /\ \A k \in DOMAIN calls' : Granted(k)' /\ calls'[k].n = calls'[j].n => j = k
    <3>1. ASSUME NEW k, k = calls'[j].n PROVE Unspent(k)'
      <4>1. Unspent(k) BY <1>10, <1>15, <1>16, <2>2, <3>1 DEF Tokens, TokenInv
      <4> QED BY <1>14, <4>1
    <3>2. Unspent(calls[j].n)' BY <3>1
    <3>3. \A s \in Tabs : refresh'[s].phase = "ok" => refresh'[s].n # calls'[j].n
      BY <1>2, <1>10, <1>13, <1>16, <2>2 DEF Tokens, TokenInv
    <3>4. ASSUME NEW k \in DOMAIN calls', Granted(k)', calls'[k].n = calls'[j].n PROVE j = k
      <4>1. CASE j # i /\ k # i BY <1>10, <1>16, <2>2, <3>4, <4>1 DEF Tokens, TokenInv
      <4>2. CASE j = i \/ k = i BY <1>10, <1>13, <1>16, <2>2, <3>4, <4>2
      <4> QED BY <4>1, <4>2
    <3> QED BY <3>2, <3>3, <3>4
  <2>3. \A s, q \in Tabs :
          refresh'[s].phase = "ok" /\ refresh'[q].phase = "ok" /\ refresh'[s].n = refresh'[q].n => s = q
    BY <1>2 DEF Tokens, TokenInv
  <2>4. \A s \in Tabs :
          /\ refresh'[s].phase \in {"idle", "sent", "read"} => <<s, store'.n>> \notin rotated'
          /\ refresh'[s].phase \in {"sent", "read"} =>
               refresh'[s].n # 0 /\ <<s, refresh'[s].n>> \notin rotated'
    BY <1>2 DEF Tokens, TokenInv
  <2> QED BY <2>1, <2>2, <2>3, <2>4 DEF TokenInv
<1> QED BY <1>11, <1>12, <1>17 DEF Tokens

(* The network fails.                                                       *)
LEMMA LoseTokens ==
  ASSUME Tokens, NEW i \in DOMAIN calls, Lose(i), ui' = ui
  PROVE  Tokens'
<1> DEFINE c == calls[i]
           d == Lost(c)
<1>1. TypeOK /\ c \in Call BY DEF Tokens, TypeOK, SessionTypes
<1>2. /\ c.phase \in {"sent", "ok"} /\ calls' = [calls EXCEPT ![i] = d]
      /\ UNCHANGED <<cred, store, tab, refresh, asked, rotated>>
  BY DEF Lose
<1>3. 0 \in 0..issued BY <1>1 DEF TypeOK, CredTypes
<1>4. d \in Call /\ d.phase = "refused"
  <2> HIDE DEF c
  <2> DEFINE v == c.ver /\ c.op \notin UserOps
  <2>1. v \in BOOLEAN BY <1>1 DEF Call
  <2>2. d = [c EXCEPT !.phase = "refused", !.n = 0, !.ver = v] BY DEF Lost
  <2> HIDE DEF v, d
  <2> QED BY <1>1, <1>3, <2>1, <2>2 DEF Call, Answers
<1> HIDE DEF d
<1>5. /\ DOMAIN calls' = DOMAIN calls /\ calls'[i] = d
      /\ \A j \in DOMAIN calls : j # i => calls'[j] = calls[j]
  BY <1>2
<1>6. Follows(calls, calls') BY <1>2, <1>4, <1>5 DEF Follows
<1>7. CallsOK(calls') BY <1>1, <1>2, <1>4 DEF CallsOK, TypeOK, SessionTypes
<1>8. /\ store' \in Session /\ store'.n \in {0, store.n} /\ tab' \in [Tabs -> TabState]
      /\ asked' \in 0..MaxCalls /\ ui' \in [Tabs -> Screen]
      /\ UNCHANGED <<cred, refresh, rotated>>
  BY <1>1, <1>2 DEF TypeOK, SessionTypes
<1> QED BY <1>6, <1>7, <1>8, TokensKept

(* Another tab of the browser saves a new pair, or clears the store.        *)
LEMMA OtherTabTokens ==
  ASSUME Tokens, OtherTab
  PROVE  Tokens'
<1> DEFINE n == issued + 1
<1>1. TypeOK /\ issued \in Nat BY DEF Tokens, TypeOK, CredTypes
<1>2. UNCHANGED <<tab, refresh, calls, rotated, ui>> /\ Budget BY DEF OtherTab
<1>3. asked' \in 0..MaxCalls BY <1>1, <1>2, BudgetType
<1>4. \/ /\ issued' = n /\ live' \subseteq live \cup {n}
         /\ store' = [n |-> issued', ver |-> account.ver]
      \/ issued' = issued /\ live' \subseteq live /\ store' = NoSession
  BY DEF OtherTab, RefreshWrite, LogoutToken, LoginUser, IssueTokens
<1>5. UNCHANGED <<account, link>> BY DEF OtherTab, RefreshWrite, LogoutToken, LoginUser
<1>6. issued' \in {issued, n} BY <1>4
<1>7. CredTypes'
  <2>1. live' \subseteq 1..issued'
    <3>1. live \subseteq 1..issued BY <1>1 DEF TypeOK, CredTypes
    <3>2. 1..issued \subseteq 1..n /\ n \in 1..n BY <1>1
    <3> QED BY <1>4, <3>1, <3>2
  <2>2. issued' \in Nat BY <1>1, <1>6
  <2> QED BY <1>1, <1>5, <2>1, <2>2 DEF TypeOK, CredTypes, Purposes
<1>8. /\ Session \subseteq Session' /\ Refresh \subseteq Refresh' /\ Call \subseteq Call'
      /\ 0..issued \subseteq 0..issued' /\ 1..issued \subseteq 1..issued'
  BY <1>1, <1>6, TypesGrow
<1>9. store' \in Session'
  <2>1. account.ver \in BOOLEAN BY <1>1 DEF TypeOK, CredTypes
  <2>2. NoSession \in Session BY <1>1, EmptyTypes
  <2>3. issued' \in 0..issued' BY <1>1, <1>6
  <2>4. [n |-> issued', ver |-> account.ver] \in Session' BY <2>1, <2>3 DEF Session
  <2> QED BY <1>4, <1>8, <2>2, <2>4
<1>10. TypeOK'
  <2>1. calls' \in [DOMAIN calls -> Call'] /\ refresh' \in [Tabs -> Refresh']
    BY <1>1, <1>2, <1>8 DEF TypeOK, SessionTypes
  <2>2. rotated' \subseteq Tabs \X (1..issued')
    <3>1. rotated \subseteq Tabs \X (1..issued) BY <1>1 DEF TypeOK, SessionTypes
    <3> QED BY <1>2, <1>8, <3>1
  <2> QED BY <1>1, <1>2, <1>3, <1>6, <1>7, <1>9, <2>1, <2>2, TypesIssued
<1>11. WaitInv'
  <2>1. CallsOK(calls) /\ Follows(calls, calls) BY <1>1, SameCalls
  <2> QED BY <1>2, <2>1, FollowsWait DEF Tokens
<1>12. TokenInv'
  <2>1. CASE store' = NoSession
    <3>1. store'.n \in {0, store.n} BY <2>1 DEF NoSession
    <3>2. Follows(calls, calls') BY <1>1, <1>2, SameCalls
    <3> QED BY <1>1, <1>2, <3>1, <3>2, FollowsToken DEF Tokens
  <2>2. CASE store' # NoSession
    <3>1. store'.n = n BY <1>4, <2>2
    <3>2. /\ n # 0 /\ n # store.n
          /\ \A s \in Tabs : <<s, n>> \notin rotated /\ refresh[s].n # n
          /\ \A j \in DOMAIN calls : calls[j].n # n
      BY <1>1, FreshPair
    <3>3. Unspent(n) BY <3>2 DEF Unspent
    <3>4. \A j \in DOMAIN calls' : Granted(j)' =>
            j \in DOMAIN calls /\ Granted(j) /\ calls'[j].n = calls[j].n /\ calls[j].n # n
      BY <1>2, <3>2 DEF Granted
    <3>5. \A s \in Tabs : refresh'[s] = refresh[s] /\ (refresh[s].phase = "ok" => refresh[s].n # n)
      BY <1>2, <3>2
    <3> HIDE DEF n
    <3> QED BY <1>2, <3>1, <3>3, <3>4, <3>5, SavedToken DEF Tokens
  <2> QED BY <2>1, <2>2
<1> QED BY <1>10, <1>11, <1>12 DEF Tokens
-----------------------------------------------------------------------------
(* The invariant                                                            *)

(* Every step preserves the types and the two invariants of the refresh.    *)
LEMMA StepTokens ==
  ASSUME Tokens, [Next]_vars
  PROVE  Tokens'
<1>1. CASE System
  <2>1. ASSUME NEW t \in Tabs, Restore(t) \/ VerifyStart(t) \/ ConfirmStart(t) \/ RefreshFailed(t)
        PROVE  Tokens'
    BY <2>1, StartTokens, RefreshFailedTokens
  <2>2. ASSUME NEW i \in DOMAIN calls, Settle(i) PROVE Tokens'
    BY <2>2, SettleTokens
  <2>3. ASSUME NEW t \in Tabs, ui' = ui,
               RefreshRead(t) \/ RefreshCommit(t) \/ RefreshLost(t) \/ Refreshed(t)
        PROVE  Tokens'
    BY <2>3, RefreshAskedTokens, RefreshCommitTokens, RefreshedTokens
  <2>4. ASSUME NEW i \in DOMAIN calls, ui' = ui, Serve(i) \/ Lose(i) \/ RefreshSession(i)
        PROVE  Tokens'
    BY <2>4, ServeTokens, LoseTokens, RefreshSessionTokens
  <2> QED BY <1>1, <2>1, <2>2, <2>3, <2>4 DEF System
<1>2. CASE OtherTab BY <1>2, OtherTabTokens
<1>3. ASSUME NEW t \in Tabs, User(t) PROVE Tokens' BY <1>3, UserTokens
<1>4. CASE UNCHANGED vars
  <2>1. TypeOK BY DEF Tokens
  <2>2. UNCHANGED <<cred, store, tab, refresh, calls, asked, rotated, ui>> BY <1>4 DEF vars
  <2>3. CallsOK(calls') /\ Follows(calls, calls') BY <2>1, <2>2, SameCalls
  <2>4. /\ store' \in Session /\ store'.n \in {0, store.n} /\ tab' \in [Tabs -> TabState]
        /\ asked' \in 0..MaxCalls /\ ui' \in [Tabs -> Screen]
    BY <2>1, <2>2 DEF TypeOK, SessionTypes
  <2> QED BY <2>2, <2>3, <2>4, TokensKept
<1> QED BY <1>1, <1>2, <1>3, <1>4 DEF Next

(* They hold when a tab starts.                                             *)
LEMMA InitTokens ==
  ASSUME Init
  PROVE  Tokens
<1>1. /\ issued = 1 /\ live = {1} /\ rotated = {} /\ calls = <<>> /\ asked = 0
      /\ tab = [t \in Tabs |-> [session |-> NoSession, boot |-> "new", busy |-> FALSE]]
      /\ refresh = [t \in Tabs |-> NoRefresh]
  BY DEF Init
<1>2. /\ account \in [exists : BOOLEAN, ver : BOOLEAN, active : BOOLEAN]
      /\ link \in [Purposes -> {"none", "active", "gone"}]
      /\ store.n \in {0, 1} /\ store \in [n : 0..1, ver : BOOLEAN]
  BY DEF Init
<1>3. CredTypes BY <1>1, <1>2 DEF CredTypes
<1>4. store \in Session BY <1>1, <1>2 DEF Session
<1>5. NoSession \in Session /\ 0 \in 0..issued BY <1>1 DEF NoSession, Session
<1>6. tab \in [Tabs -> TabState] BY <1>1, <1>5 DEF TabState
<1>7. NoRefresh \in Refresh /\ NoRefresh.phase = "idle" BY <1>5 DEF NoRefresh, Refresh
<1>8. refresh \in [Tabs -> Refresh] BY <1>1, <1>7
<1>9. DOMAIN calls = {} /\ IsFiniteSet(DOMAIN calls)
  BY <1>1, FS_EmptySet
<1>10. calls \in [DOMAIN calls -> Call] BY <1>1, <1>9
<1>11. ui \in [Tabs -> Screen]
  <2>1. ui \in [Tabs -> {NewUi("gate", "form"), NewUi("reset", "form"),
                         NewUi("verify", "loading"), NewUi("confirm", "loading")}]
    BY DEF Init
  <2>2. {NewUi("gate", "form"), NewUi("reset", "form"),
         NewUi("verify", "loading"), NewUi("confirm", "loading")} \subseteq Screen
    BY DEF NewUi, Screen, Pages
  <2> QED BY <2>1, <2>2
<1>12. asked \in 0..MaxCalls BY <1>1, SessionAssumption
<1>13. TypeOK
  BY <1>1, <1>3, <1>4, <1>6, <1>8, <1>9, <1>10, <1>11, <1>12 DEF TypeOK, SessionTypes
<1>14. \A t \in Tabs : refresh[t].phase = "idle" BY <1>1, <1>7
<1>15. WaitInv BY <1>9, <1>14 DEF WaitInv
<1>16. TokenInv BY <1>1, <1>9, <1>14 DEF TokenInv
<1> QED BY <1>13, <1>15, <1>16 DEF Tokens

(* A tab starts without a request and without a spinner.                    *)
LEMMA InitScreens ==
  ASSUME Init
  PROVE  Screens
<1>1. /\ calls = <<>>
      /\ tab = [t \in Tabs |-> [session |-> NoSession, boot |-> "new", busy |-> FALSE]]
      /\ ui \in [Tabs -> {NewUi("gate", "form"), NewUi("reset", "form"),
                          NewUi("verify", "loading"), NewUi("confirm", "loading")}]
  BY DEF Init
<1>2. DOMAIN calls = {} BY <1>1
<1>3. SUFFICES ASSUME NEW t \in Tabs PROVE ScreenOK(t, tab[t], ui[t], calls)
  BY DEF Screens
<1> DEFINE b == tab[t]
           u == ui[t]
<1>4. b.boot = "new" /\ b.session.n = 0 /\ b.busy = FALSE BY <1>1 DEF NoSession
<1>5. /\ u.route \in {"gate", "reset", "verify", "confirm"}
      /\ u.route \in {"gate", "reset"} => u.page = "form"
      /\ u.page # "calling" /\ u.panel = "closed" /\ u.crop = "none" /\ u.banner = "ready"
      /\ u.submitting = FALSE /\ u.sending = FALSE /\ u.resetBusy = FALSE /\ u.resending = FALSE
  BY <1>1 DEF NewUi
<1> HIDE DEF b, u
<1>6. Mine(calls, t) = {} /\ \A ops : Shown(calls, t, ops) = {} BY <1>2 DEF Mine, Shown
<1>7. RoutePart(t, u, calls) /\ BootPart(t, b, u, calls) BY <1>6 DEF RoutePart, BootPart
<1>8. QuietPart(b, u) BY <1>4, <1>5 DEF QuietPart, InShell, InForm
<1>9. SpinPart(t, b, u, calls)
  <2>1. ~u.submitting /\ ~u.sending /\ ~u.resetBusy /\ ~u.resending /\ ~b.busy BY <1>4, <1>5
  <2>2. ~(u.banner = "sending") /\ ~(u.crop = "busy") /\ ~(u.page = "calling") BY <1>5
  <2> QED BY <1>6, <2>1, <2>2 DEF SpinPart, Matches
<1>10. ScreenOK(t, b, u, calls) BY <1>7, <1>8, <1>9 DEF ScreenOK
<1> QED BY <1>10 DEF b, u

(* A spinner's requests, counted.                                           *)
LEMMA MatchesCount ==
  ASSUME NEW S, NEW b, Matches(S, b)
  PROVE  Cardinality(S) = IF b THEN 1 ELSE 0
<1>1. CASE b
  <2>1. PICK i : S = {i} BY <1>1 DEF Matches
  <2> QED BY <1>1, <2>1, FS_Singleton
<1>2. CASE ~b
  <2>1. S = {} BY <1>2 DEF Matches
  <2> QED BY <1>2, <2>1, FS_EmptySet
<1> QED BY <1>1, <1>2

(* What the property says follows from the parts of every screen.           *)
LEMMA ScreensCount ==
  ASSUME Screens
  PROVE  SpinnerHasRequest
<1>1. SUFFICES ASSUME NEW t \in Tabs PROVE SpinPart(t, tab[t], ui[t], calls) => 
        LET u == ui[t]
            counts(ops, b) == Cardinality(Shown(calls, t, ops)) = IF b THEN 1 ELSE 0
        IN /\ counts(CardOps(u), u.submitting)
           /\ counts({"resend"}, u.sending)
           /\ counts({"bannerSend"}, u.banner = "sending")
           /\ counts({"pageResend"}, u.resending)
           /\ counts(AvatarOps, u.crop = "busy")
           /\ counts({"requestReset"}, u.resetBusy)
           /\ counts({"verify", "pageMe", "confirm"}, u.page = "calling")
           /\ tab[t].busy => Shown(calls, t, {"login", "register"}) # {}
  BY DEF Screens, ScreenOK, SpinnerHasRequest
<1> QED BY MatchesCount DEF SpinPart

(* Every tab tells the truth about its requests, and never undoes its own   *)
(* session by presenting a token that it had rotated (TabsTrue: client.ts,  *)
(* useAuthSession, AuthScreen, AccountCard and the pages behind the links). *)
THEOREM TabsStayTrue == Spec => []TabsTrue
<1>1. Init => AccountInv BY InitTokens, InitScreens DEF AccountInv, Tokens
<1>2. AccountInv /\ [Next]_vars => AccountInv'
  <2> SUFFICES ASSUME AccountInv, [Next]_vars PROVE AccountInv'
    OBVIOUS
  <2>1. Tokens /\ TypeOK /\ WaitInv /\ Screens BY DEF AccountInv, Tokens
  <2>2. Tokens' BY <2>1, StepTokens
  <2>3. Screens' BY <2>1, StepScreens
  <2> QED BY <2>2, <2>3 DEF AccountInv, Tokens
<1>3. AccountInv => TabsTrue
  <2> SUFFICES ASSUME AccountInv PROVE TabsTrue
    OBVIOUS
  <2>1. TypeOK BY DEF AccountInv
  <2>2. SpinnerHasRequest BY ScreensCount DEF AccountInv
  <2>3. OwnRotationNeverLogsOut BY DEF AccountInv, TokenInv, OwnRotationNeverLogsOut
  <2> QED BY <2>1, <2>2, <2>3 DEF TabsTrue
<1> QED BY <1>1, <1>2, <1>3, PTL DEF Spec
=============================================================================
