----------------------------- MODULE AdminPanel ------------------------------
(* The browser side of the admin application: tabs of one browser that share a   *)
(* session cookie, the lists they load, and the actions their buttons send.     *)
(*                                                                              *)
(* One WorkflowPage is reused for all list routes, requests are never cancelled  *)
(* and buttons stay enabled. A list of the page before may so arrive on the next *)
(* one, and an action reloads the list of the page it was clicked on. The       *)
(* transaction page keeps the CSRF token of its first action; the others fetch   *)
(* one for every action. The server is the admin API as the tabs see it.        *)
EXTENDS Naturals, FiniteSets

CONSTANTS
  Tabs,
  Visits,     \* bound on a run: the pages each tab opens, none for a tab that
              \* only sends its login form
  Items,      \* records with an action on them
  PageOf,     \* the page of each: "alerts", "verification" or "transaction"
  Clicks,     \* actions in progress at the same time
  MaxLogins   \* bound on the sessions of a run

Lists == {"alerts", "verification"}
Pages == Lists \union {"home", "transaction"}
Logins == 1..MaxLogins
Nothing == "nothing"

ASSUME PanelAssumption ==
  /\ MaxLogins \in Nat
  /\ PageOf \in [Items -> Lists \union {"transaction"}]
  /\ Visits \in [Tabs -> SUBSET Pages]

VARIABLES
  cookie,     \* the browser's session cookie, 0 when there is none
  logged,     \* AdminSession by number
  tab,        \* what each tab shows
  loads,      \* per tab, the lists it waits for
  click,      \* actions in progress
  handled,    \* times the server carried out and audited an action on an item
  mistaken    \* actions performed in another session than their token was for

panelVars == <<cookie, logged, tab, loads, click, handled, mistaken>>

Fresh == [rows |-> Nothing, loading |-> FALSE, csrf |-> 0, failed |-> FALSE]
Out == [step |-> "login", page |-> "home", view |-> Fresh, token |-> 0]
NoClick == [step |-> "none"]

PanelInit ==
  /\ cookie = 0
  /\ logged = [n \in Logins |-> "none"]
  /\ tab = [t \in Tabs |-> Out]
  /\ loads = [t \in Tabs |-> {}]
  /\ click = [k \in Clicks |-> NoClick]
  /\ handled = [r \in Items |-> 0]
  /\ mistaken = {}

Authentic == cookie # 0 /\ logged[cookie] = "live"
SetTab(t, value) == tab' = [tab EXCEPT ![t] = value]

(* The component of a page is gone: what its requests still bring is ignored.   *)
Forget(t) == [k \in Clicks |->
  IF click[k] # NoClick /\ click[k].tab = t THEN [click[k] EXCEPT !.seen = FALSE]
  ELSE click[k]]

(* ------------------------------ Sessions ----------------------------------- *)

(* Login: the answer sets the cookie of every tab. The form stays open until the *)
(* session is loaded, and may be sent again.                                   *)
SubmitLogin(t) ==
  /\ tab[t].step = "login"
  /\ \E n \in Logins :
       /\ logged[n] = "none" /\ \A m \in 1..(n - 1) : logged[m] # "none"
       /\ logged' = [logged EXCEPT ![n] = "live"]
       /\ cookie' = n
  /\ UNCHANGED <<tab, loads, click, handled, mistaken>>

(* onLoggedIn, or App when a tab is opened: the session of the cookie, if any.   *)
LoadSession(t) ==
  /\ tab[t].step = "login" /\ Authentic /\ Visits[t] # {}
  /\ SetTab(t, [Out EXCEPT !.step = "in"])
  /\ UNCHANGED <<cookie, logged, loads, click, handled, mistaken>>

(* api.logout fetches a token first.                                           *)
StartSignOut(t) ==
  /\ tab[t].step = "in" /\ Authentic
  /\ SetTab(t, [tab[t] EXCEPT !.step = "leaving", !.token = cookie])
  /\ UNCHANGED <<cookie, logged, loads, click, handled, mistaken>>

(* Without a cookie there is nothing to revoke; with the token of another        *)
(* session the call is refused and the tab stays as it was.                    *)
SignOut(t) ==
  /\ tab[t].step = "leaving"
  /\ IF cookie \in {0, tab[t].token}
     THEN /\ logged' = [n \in Logins |->
               IF n = cookie THEN "closed" ELSE logged[n]]
          /\ cookie' = 0
          /\ SetTab(t, Out)
          /\ loads' = [loads EXCEPT ![t] = {}] /\ click' = Forget(t)
     ELSE /\ SetTab(t, [tab[t] EXCEPT !.step = "in"])
          /\ UNCHANGED <<cookie, logged, loads, click>>
  /\ UNCHANGED <<handled, mistaken>>

LoginExpires(n) ==
  /\ logged[n] = "live"
  /\ logged' = [logged EXCEPT ![n] = "closed"]
  /\ UNCHANGED <<cookie, tab, loads, click, handled, mistaken>>

(* ------------------------------- Pages ------------------------------------- *)

(* From list to list the component and all it shows is kept, and the effect on  *)
(* the endpoint loads the new list. Any other way a new component is made.      *)
Navigate(t, p) ==
  LET kept == tab[t].page \in Lists /\ p \in Lists
      view == IF kept THEN tab[t].view ELSE Fresh
  IN /\ tab[t].step \in {"in", "leaving"} /\ p # tab[t].page /\ p \in Visits[t]
     /\ SetTab(t, [tab[t] EXCEPT !.page = p,
                                 !.view = [view EXCEPT !.loading = p # "home"]])
     /\ loads' = [loads EXCEPT ![t] =
          (IF kept THEN @ ELSE {}) \union ({p} \ {"home"})]
     /\ click' = IF kept THEN click ELSE Forget(t)
     /\ UNCHANGED <<cookie, logged, handled, mistaken>>

(* load: the list that arrived replaces the rows, whichever page is open.        *)
ListArrives(t, p) ==
  /\ p \in loads[t] \intersect Lists
  /\ loads' = [loads EXCEPT ![t] = @ \ {p}]
  /\ SetTab(t, [tab[t] EXCEPT !.view.rows = IF Authentic THEN p ELSE @,
                              !.view.loading = FALSE])
  /\ UNCHANGED <<cookie, logged, click, handled, mistaken>>

(* An error on the transaction page hides everything on it.                    *)
TransactionArrives(t) ==
  /\ "transaction" \in loads[t]
  /\ loads' = [loads EXCEPT ![t] = @ \ {"transaction"}]
  /\ SetTab(t, [tab[t] EXCEPT !.view.rows = IF Authentic THEN "transaction" ELSE @,
                              !.view.loading = FALSE,
                              !.view.failed = @ \/ ~Authentic])
  /\ UNCHANGED <<cookie, logged, click, handled, mistaken>>

(* ------------------------------- Actions ----------------------------------- *)

Clicked(t, k, r) ==
  /\ tab[t].step = "in" /\ click[k] = NoClick
  /\ tab[t].view.rows = PageOf[r] /\ ~tab[t].view.loading
  /\ click' = [click EXCEPT ![k] =
       [step |-> "token", tab |-> t, item |-> r, page |-> tab[t].page,
        token |-> tab[t].view.csrf, seen |-> TRUE]]
  /\ UNCHANGED <<cookie, logged, tab, loads, handled, mistaken>>

(* A button on a row. Which action it sends is decided by the open page, even    *)
(* if the rows came from another one.                                          *)
PressOnRow(t, k, r) == tab[t].page \in Lists /\ Clicked(t, k, r)

PressOnTransaction(t, k, r) ==
  /\ tab[t].page = "transaction" /\ ~tab[t].view.failed
  /\ Clicked(t, k, r)

(* A token of the cookie's session, unless the page has one already.           *)
FetchToken(k) ==
  LET c == click[k]
      token == IF c.token # 0 THEN c.token ELSE cookie
  IN /\ c.step = "token"
     /\ c.token # 0 \/ Authentic
     /\ click' = [click EXCEPT ![k].step = "send", ![k].token = token]
     /\ IF c.seen /\ c.page = "transaction"
        THEN SetTab(c.tab, [tab[c.tab] EXCEPT !.view.csrf = token])
        ELSE UNCHANGED tab
     /\ UNCHANGED <<cookie, logged, loads, handled, mistaken>>

(* assertCsrfToken: the token is the one of the cookie that comes with it.      *)
TokenFits(token) == token = cookie

(* Mutant of Unhandled: the update does not ask whether it was done before.     *)
UnhandledOrNot(r, page) == PageOf[r] = page

(* The item is in the page's table and not handled yet.                        *)
Unhandled(r, page) == PageOf[r] = page /\ handled[r] = 0

Carry(r) == handled' = [handled EXCEPT ![r] = IF @ < 2 THEN @ + 1 ELSE @]

(* mutate, and what the server says. Alerts and payout retries are conditional    *)
(* updates; a review is checked first and written later. An alert that is not    *)
(* found is reported as handled already; elsewhere it is an error.              *)
Mutate(k) ==
  LET c == click[k]
      served == Authentic /\ TokenFits(c.token)
      found == served /\ Unhandled(c.item, c.page)
      result == IF found THEN IF c.page = "verification" THEN "review" ELSE "accepted"
                ELSE IF served /\ c.page = "alerts" THEN "already" ELSE "failed"
  IN /\ c.step = "send"
     /\ IF result = "accepted" THEN Carry(c.item) ELSE UNCHANGED handled
     /\ mistaken' = IF found /\ c.token # cookie
                    THEN mistaken \union {c.item} ELSE mistaken
     /\ click' = [click EXCEPT ![k].step = result]
     /\ UNCHANGED <<cookie, logged, tab, loads>>

(* The review is written by id, whatever became of the case since.             *)
CommitReview(k) ==
  /\ click[k].step = "review"
  /\ Carry(click[k].item)
  /\ click' = [click EXCEPT ![k].step = "accepted"]
  /\ UNCHANGED <<cookie, logged, tab, loads, mistaken>>

(* The message, then the list of the page that was clicked on again.           *)
ListActionAnswered(k) ==
  LET c == click[k]
  IN /\ c.step \in {"accepted", "already", "failed"} /\ c.page \in Lists
     /\ click' = [click EXCEPT ![k] = NoClick]
     /\ IF c.seen /\ c.step # "failed"
        THEN /\ SetTab(c.tab, [tab[c.tab] EXCEPT !.view.loading = TRUE])
             /\ loads' = [loads EXCEPT ![c.tab] = @ \union {c.page}]
        ELSE UNCHANGED <<tab, loads>>
     /\ UNCHANGED <<cookie, logged, handled, mistaken>>

TransactionActionAnswered(k) ==
  LET c == click[k]
  IN /\ c.step \in {"accepted", "failed"} /\ c.page = "transaction"
     /\ click' = [click EXCEPT ![k] = NoClick]
     /\ IF c.seen /\ c.step = "failed"
        THEN SetTab(c.tab, [tab[c.tab] EXCEPT !.view.failed = TRUE])
        ELSE UNCHANGED tab
     /\ UNCHANGED <<cookie, logged, loads, handled, mistaken>>

(* The token cannot be fetched: no session, or no connection.                  *)
TokenFails(k) ==
  LET c == click[k]
  IN /\ c.step = "token" /\ c.token = 0
     /\ click' = [click EXCEPT ![k] = NoClick]
     /\ IF c.seen /\ c.page = "transaction"
        THEN SetTab(c.tab, [tab[c.tab] EXCEPT !.view.failed = TRUE])
        ELSE UNCHANGED tab
     /\ UNCHANGED <<cookie, logged, loads, handled, mistaken>>

PanelNext ==
  \/ \E t \in Tabs :
       \/ SubmitLogin(t) \/ LoadSession(t) \/ StartSignOut(t) \/ SignOut(t)
       \/ \E p \in Pages : Navigate(t, p) \/ ListArrives(t, p)
       \/ TransactionArrives(t)
       \/ \E k \in Clicks, r \in Items :
            PressOnRow(t, k, r) \/ PressOnTransaction(t, k, r)
  \/ \E k \in Clicks :
       \/ FetchToken(k) \/ TokenFails(k) \/ Mutate(k) \/ CommitReview(k)
       \/ ListActionAnswered(k) \/ TransactionActionAnswered(k)
  \/ \E n \in Logins : LoginExpires(n)

PanelSpec == PanelInit /\ [][PanelNext]_panelVars

(* ------------------------------ Properties --------------------------------- *)

(* Every variable keeps its type.                                              *)
PanelTypeOK ==
  /\ cookie \in 0..MaxLogins
  /\ logged \in [Logins -> {"none", "live", "closed"}]
  /\ \A t \in Tabs :
       /\ tab[t].step \in {"login", "in", "leaving"}
       /\ tab[t].page \in Pages
       /\ tab[t].view.rows \in {Nothing} \union Lists \union {"transaction"}
  /\ loads \in [Tabs -> SUBSET Pages]
  /\ \A k \in Clicks : click[k].step \in
       {"none", "token", "send", "review", "accepted", "already", "failed"}
  /\ handled \in [Items -> 0..2] /\ mistaken \subseteq Items

(* Nothing is carried out twice, except a review that was checked before another *)
(* one of the same case was written.                                           *)
HandledOnce == \A r \in Items : PageOf[r] # "verification" => handled[r] <= 1

(* "Accepted" was carried out, and "already handled" was too, except for a row    *)
(* that is no alert and only stood on the alerts page because its list came late.*)
ToldTruly ==
  \A k \in Clicks :
    click[k].step \in {"accepted", "already"} =>
      \/ handled[click[k].item] > 0
      \/ click[k].step = "already" /\ PageOf[click[k].item] # "alerts"

(* Nothing is carried out in the name of a session it was not meant for.        *)
ActedAsMeant == mistaken = {}

(* Repeated clicks, two tabs, sign-ins in between, rows of the wrong page and     *)
(* lists reloaded late: an alert is handled and a payout retried once, each      *)
(* action for the session its token was fetched in, and its tab is told what    *)
(* became of it.                                                                *)
ActionsAreSound == HandledOnce /\ ToldTruly /\ ActedAsMeant
=============================================================================
